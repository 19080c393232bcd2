--------------------------- MODULE CircuitBreaker ---------------------------
(***************************************************************************)
(* The per-(Group, peer) circuit breaker of circuitbreaker.go, driven by   *)
(* concurrent requests.  Every method holds cb.mu from its first line to   *)
(* its return, so every method is one action.  A request is admitted by    *)
(* Allow, talks to the peer without the lock, and reports its ticket       *)
(* exactly once (Group.getFromPeer, geecache.go:218-256); any number of    *)
(* other requests and any amount of time may pass in between.              *)
(***************************************************************************)
EXTENDS Integers, Sequences, FiniteSets

CONSTANTS
    Callers,        \* goroutines that may have a request to this peer
    FailureThresh,  \* failures within the window that open the breaker
    Timeout,        \* cool-down spent in Open, in ticks
    FailureWindow,  \* sliding window of failures; <= 0 disables pruning
    MaxTime         \* bound on the clock (a bound of the model)

ASSUME FailureThreshAssumption == FailureThresh \in Int
ASSUME TimeoutAssumption == Timeout \in Int
ASSUME FailureWindowAssumption == FailureWindow \in Int
ASSUME MaxTimeAssumption == MaxTime \in Nat

VARIABLES
    state,          \* "Closed", "Open" or "HalfOpen"
    failureTimes,   \* failure times inside the window, oldest first
    openedAt,       \* when Open was last entered
    generation,     \* incremented by every transition of state
    probeInFlight,  \* the single HalfOpen probe slot is taken
    ticket,         \* ticket[c]: generation of c's unreported ticket, 0 if none
    now             \* the monotonic clock

breaker == <<state, failureTimes, openedAt, generation, probeInFlight>>
vars == <<state, failureTimes, openedAt, generation, probeInFlight, ticket, now>>

\* The zero Ticket ...
NoTicket == 0

\* ... never equals a generation.
FirstGeneration == 1

TypeOK ==
    /\ state \in {"Closed", "Open", "HalfOpen"}
    /\ failureTimes \in Seq(Nat)
    /\ openedAt \in Nat
    /\ generation \in Nat \ {0}
    /\ probeInFlight \in BOOLEAN
    /\ ticket \in [Callers -> Nat]
    /\ now \in Nat

Init ==
    /\ state = "Closed"
    /\ failureTimes = <<>>
    /\ openedAt = 0
    /\ generation = FirstGeneration
    /\ probeInFlight = FALSE
    /\ ticket = [c \in Callers |-> NoTicket]
    /\ now = 0

-----------------------------------------------------------------------------
(* Allow *)

CooledDown == now - openedAt >= Timeout

AllowClosed(c) ==
    /\ state = "Closed"
    /\ ticket' = [ticket EXCEPT ![c] = generation]
    /\ UNCHANGED breaker

\* Open -> HalfOpen and the reservation of the probe slot are one critical section.
AllowOpen(c) ==
    /\ state = "Open"
    /\ CooledDown
    /\ state' = "HalfOpen"
    /\ generation' = generation + 1
    /\ probeInFlight' = TRUE
    /\ ticket' = [ticket EXCEPT ![c] = generation + 1]
    /\ UNCHANGED <<failureTimes, openedAt>>

AllowHalfOpen(c) ==
    /\ state = "HalfOpen"
    /\ ~probeInFlight
    /\ probeInFlight' = TRUE
    /\ ticket' = [ticket EXCEPT ![c] = generation]
    /\ UNCHANGED <<state, failureTimes, openedAt, generation>>

\* No ticket is issued: the caller falls back to its local source.
Reject(c) ==
    /\ \/ state = "Open" /\ ~CooledDown
       \/ state = "HalfOpen" /\ probeInFlight
    /\ UNCHANGED <<breaker, ticket>>

Allow(c) ==
    /\ ticket[c] = NoTicket
    /\ AllowClosed(c) \/ AllowOpen(c) \/ AllowHalfOpen(c) \/ Reject(c)
    /\ UNCHANGED now

-----------------------------------------------------------------------------
(* Reporting a result *)

\* A ticket of an older generation is a late result and changes nothing.
Current(t) == t = generation

\* Mutant: the generation of the ticket is not compared.
IgnoredByStateOnly(t) == state = "Open" \/ (state = "HalfOpen" /\ ~probeInFlight)

Ignored(t) ==
    \/ ~Current(t)
    \/ state = "Open"
    \/ state = "HalfOpen" /\ ~probeInFlight

\* Mutants: no pruning at all, and a failure exactly as old as the window dropped.
Unpruned == failureTimes
PrunedTooMuch == SelectSeq(failureTimes, LAMBDA t : t > now - FailureWindow)

\* pruneFailureTimes: the leading entries older than the window are dropped;
\* they are all the older ones, since failures are appended in clock order.
Pruned ==
    LET old == {i \in 1..Len(failureTimes) : failureTimes[i] < now - FailureWindow}
    IN  IF FailureWindow <= 0
        THEN failureTimes
        ELSE SubSeq(failureTimes, Cardinality(old) + 1, Len(failureTimes))

SuccessEffect ==
    \/ /\ state = "Closed"
       /\ failureTimes' = <<>>
       /\ UNCHANGED <<state, openedAt, generation, probeInFlight>>
    \/ /\ state = "HalfOpen"
       /\ state' = "Closed"
       /\ failureTimes' = <<>>
       /\ generation' = generation + 1
       /\ probeInFlight' = FALSE
       /\ UNCHANGED openedAt

\* Mutant: a neutral result keeps the probe slot.
NeutralKeepsSlot == UNCHANGED breaker

NeutralEffect ==
    /\ probeInFlight' = FALSE
    /\ UNCHANGED <<state, failureTimes, openedAt, generation>>

\* Mutant: the cool-down is not restarted.
EnterOpenOldClock ==
    state' = "Open" /\ generation' = generation + 1 /\ UNCHANGED openedAt

\* Either way into Open voids all tickets and starts the cool-down now.
EnterOpen ==
    /\ state' = "Open"
    /\ openedAt' = now
    /\ generation' = generation + 1

FailureEffect ==
    \/ /\ state = "Closed"
       /\ failureTimes' = Append(Pruned, now)
       /\ IF Len(failureTimes') >= FailureThresh
          THEN EnterOpen
          ELSE UNCHANGED <<state, openedAt, generation>>
       /\ UNCHANGED probeInFlight
    \/ /\ state = "HalfOpen"
       /\ EnterOpen
       /\ probeInFlight' = FALSE
       /\ UNCHANGED failureTimes

\* The caller gives up its ticket with the report: it never reports twice.
Report(c) ==
    /\ ticket[c] # NoTicket
    /\ ticket' = [ticket EXCEPT ![c] = NoTicket]
    /\ UNCHANGED now

RecordSuccess(c) ==
    /\ Report(c)
    /\ IF Ignored(ticket[c]) THEN UNCHANGED breaker ELSE SuccessEffect

\* A configuration error or a key the peer does not have: only a probe matters.
RecordNeutral(c) ==
    /\ Report(c)
    /\ IF Ignored(ticket[c]) \/ state # "HalfOpen"
       THEN UNCHANGED breaker
       ELSE NeutralEffect

RecordFailure(c) ==
    /\ Report(c)
    /\ IF Ignored(ticket[c]) THEN UNCHANGED breaker ELSE FailureEffect

Record(c) == RecordSuccess(c) \/ RecordNeutral(c) \/ RecordFailure(c)

Tick ==
    /\ now < MaxTime
    /\ now' = now + 1
    /\ UNCHANGED <<breaker, ticket>>

Next ==
    \/ \E c \in Callers :
          \/ Allow(c)
          \/ RecordSuccess(c)
          \/ RecordNeutral(c)
          \/ RecordFailure(c)
    \/ Tick

Spec == Init /\ [][Next]_vars

\* Every admitted request reports: the peer calls carry a 2 second timeout and
\* every branch of getFromPeer that follows a successful Allow records a result.
FairSpec == Spec /\ \A c \in Callers : WF_vars(Record(c))

-----------------------------------------------------------------------------
(* Properties *)

\* The requests whose result the breaker will still take into account.
Outstanding == {c \in Callers : ticket[c] = generation}

\* While HalfOpen, the probe slot is taken exactly when one request, and no
\* other, holds a ticket that can still move the breaker; requests admitted
\* before the breaker opened cannot.  Violated if a transition forgets to
\* invalidate tickets or a probe slot is freed or taken by the wrong request.
ProbeIsExclusive ==
    state = "HalfOpen" =>
        /\ probeInFlight <=> Outstanding # {}
        /\ \A c, d \in Outstanding : c = d

\* Once the breaker is Open no pending request can change it: a late result of
\* the storm that opened it neither closes it nor extends its cool-down.
OpenIgnoresLateResults == state = "Open" => Outstanding = {}

\* The inductive invariant: tickets are never from the future, and the probe
\* slot is only ever taken in HalfOpen.
TicketsIssued == \A c \in Callers : ticket[c] <= generation
ProbeOnlyHalfOpen == probeInFlight => state = "HalfOpen"

IInv ==
    /\ TypeOK
    /\ TicketsIssued
    /\ ProbeOnlyHalfOpen
    /\ OpenIgnoresLateResults
    /\ ProbeIsExclusive

\* The probe slot is always given back, whatever the peer answers: otherwise
\* HalfOpen would reject every later request for ever (circuitbreaker.go:159).
ProbeReleased == probeInFlight ~> ~probeInFlight

\* What the breaker promises, with no clock, no threshold and no generations:
\* the requests that count are those holding a ticket of this generation.
Gate == INSTANCE BreakerGate WITH mode <- state, live <- Outstanding

\* The breaker implements the gate: each transition voids all pending tickets
\* at once, and at most one request at a time gets through while not Closed.
ImplementsGate == Gate!Spec
=============================================================================
