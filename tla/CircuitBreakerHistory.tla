----------------------- MODULE CircuitBreakerHistory -----------------------
(***************************************************************************)
(* The circuit breaker with history variables that do not influence it: a  *)
(* record of what was really reported and of when the breaker opened, kept *)
(* apart from the fields failureTimes, openedAt and generation that the    *)
(* code decides with.                                                      *)
(***************************************************************************)
EXTENDS CircuitBreaker

VARIABLES
    streak,     \* times of the failures reported by requests admitted in this
                \* closed period, since its start or the last such success
    epoch,      \* epoch[c]: the closed period or probe c was admitted in
    period,     \* how often the breaker has changed state
    trippedAt   \* when the breaker last opened, -1 if never

hvars == <<vars, streak, epoch, period, trippedAt>>

HInit ==
    /\ Init
    /\ streak = <<>>
    /\ epoch = [c \in Callers |-> 0]
    /\ period = 0
    /\ trippedAt = -1

Opens == state # "Open" /\ state' = "Open"

Observe(c) ==
    /\ period' = IF state' # state THEN period + 1 ELSE period
    /\ trippedAt' = IF Opens THEN now ELSE trippedAt
    /\ epoch' = IF ticket'[c] # NoTicket THEN [epoch EXCEPT ![c] = period'] ELSE epoch

\* c was admitted in the closed period the breaker is still in.
OfThisPeriod(c) == state = "Closed" /\ epoch[c] = period

HAllow(c) == Allow(c) /\ Observe(c) /\ UNCHANGED streak

HSuccess(c) ==
    /\ RecordSuccess(c)
    /\ Observe(c)
    /\ streak' = IF OfThisPeriod(c) \/ state' # state THEN <<>> ELSE streak

HNeutral(c) == RecordNeutral(c) /\ Observe(c) /\ UNCHANGED streak

HFailure(c) ==
    /\ RecordFailure(c)
    /\ Observe(c)
    /\ streak' = IF OfThisPeriod(c) THEN Append(streak, now) ELSE streak

HTick == Tick /\ UNCHANGED <<streak, epoch, period, trippedAt>>

HNext ==
    \/ \E c \in Callers : HAllow(c) \/ HSuccess(c) \/ HNeutral(c) \/ HFailure(c)
    \/ HTick

HSpec == HInit /\ [][HNext]_hvars

\* The fairness of CircuitBreaker: every admitted request is reported.
HFairSpec == HSpec /\ \A c \in Callers : WF_vars(Record(c))

-----------------------------------------------------------------------------
(* Properties *)

\* The i-th failure of the streak and the FailureThresh - 1 before it fall
\* into one window; with a threshold below two every failure is a burst.
Burst(s, i) ==
    /\ i >= FailureThresh
    /\ \/ FailureThresh <= 1
       \/ FailureWindow <= 0
       \/ s[i] - s[i - FailureThresh + 1] <= FailureWindow

\* A closed breaker has not seen FailureThresh failures within the window
\* without a success in between: it never lets a failing peer get away.
ClosedMeansNoBurst ==
    state = "Closed" => \A i \in 1..Len(streak) : ~Burst(streak, i)

\* A closed breaker opens only at the end of such a burst: scattered failures,
\* late failures of earlier periods and failures before a success never add up.
OpensOnlyOnBurst ==
    [][state = "Closed" /\ state' = "Open" => Burst(streak', Len(streak'))]_hvars

\* No request at all reaches the peer during the cool-down that follows each
\* opening, the re-opening by a failed probe included.
CoolDownRespected ==
    [][\A c \in Callers :
          (ticket[c] = NoTicket /\ ticket'[c] # NoTicket /\ trippedAt >= 0)
             => now - trippedAt >= Timeout]_hvars

-----------------------------------------------------------------------------
(* The inductive invariant of these properties *)

HTypeOK ==
    /\ streak \in Seq(Nat)
    /\ epoch \in [Callers -> Nat]
    /\ period \in Nat
    /\ trippedAt \in Int

\* Generations count the changes of state, and tickets name the one they are of.
PeriodsCounted ==
    /\ generation = period + 1
    /\ \A c \in Callers : ticket[c] # NoTicket => ticket[c] = epoch[c] + 1

\* The streak is in the order of the clock.
StreakOrdered ==
    \A i, j \in 1..Len(streak) : i <= j => streak[i] <= streak[j] /\ streak[j] <= now

\* The breaker has forgotten the first k failures of the streak, for they are too
\* old to form a burst with the last one.
Forgotten(k) ==
    /\ Len(failureTimes) = Len(streak) - k
    /\ \A i \in 1..Len(failureTimes) : failureTimes[i] = streak[k + i]
    /\ k > 0 => FailureWindow > 0
    /\ \A i \in 1..k : streak[i] < streak[Len(streak)] - FailureWindow

\* While closed it remembers the rest, which are fewer than the threshold.
RestRemembered ==
    state = "Closed" =>
        /\ \E k \in 0..Len(streak) : Forgotten(k)
        /\ streak # <<>> => Len(failureTimes) < FailureThresh

CoolDownRemembered ==
    /\ state = "Open" => trippedAt = openedAt
    /\ state # "Open" /\ trippedAt >= 0 => now - trippedAt >= Timeout

HInv ==
    /\ HTypeOK
    /\ PeriodsCounted
    /\ StreakOrdered
    /\ RestRemembered
    /\ ClosedMeansNoBurst
    /\ CoolDownRemembered
=============================================================================
