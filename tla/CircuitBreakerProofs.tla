------------------------ MODULE CircuitBreakerProofs ------------------------
(***************************************************************************)
(* Proofs about the circuit breaker, for any set of callers, threshold,    *)
(* cool-down, window and clock bound.                                      *)
(***************************************************************************)
EXTENDS CircuitBreakerHistory, FiniteSetTheorems, WellFoundedInduction, TLAPS

USE DEF NoTicket, FirstGeneration

\* Pruning returns a sequence of times, whatever the window
\* (pruneFailureTimes, circuitbreaker.go:207-219).
LEMMA PrunedType ==
    ASSUME failureTimes \in Seq(Nat), now \in Nat
    PROVE  Pruned \in Seq(Nat)
<1> DEFINE n == Len(failureTimes)
           old == {i \in 1..n : failureTimes[i] < now - FailureWindow}
<1>1. IsFiniteSet(1..n) /\ Cardinality(1..n) = n
  <2>1. n \in Nat
    OBVIOUS
  <2> HIDE DEF n
  <2> QED
    BY <2>1, FS_Interval
<1>2. Cardinality(old) \in 0..n
  <2>1. old \subseteq 1..n
    OBVIOUS
  <2>2. IsFiniteSet(old) /\ Cardinality(old) <= Cardinality(1..n)
    BY <1>1, <2>1, FS_Subset
  <2> HIDE DEF old
  <2>3. Cardinality(old) \in Nat
    BY <2>2, FS_CardinalityType
  <2> QED
    BY <1>1, <2>2, <2>3
<1>3. SubSeq(failureTimes, Cardinality(old) + 1, n) \in Seq(Nat)
  <2> HIDE DEF old
  <2> QED
    BY <1>2
<1> QED
  BY <1>3 DEF Pruned

\* A report that the breaker takes into account comes from an outstanding
\* request while the breaker is Closed or is waiting for its probe.
LEMMA ReportCounts ==
    ASSUME NEW c \in Callers, ~Ignored(ticket[c]), IInv
    PROVE  /\ ticket[c] = generation
           /\ c \in Outstanding
           /\ \/ state = "Closed"
              \/ state = "HalfOpen" /\ probeInFlight
BY DEF IInv, TypeOK, Ignored, Current, Outstanding

\* The initial state satisfies the inductive invariant.
LEMMA InitIInv == Init => IInv
<1> SUFFICES ASSUME Init
             PROVE  IInv
  OBVIOUS
<1>1. TypeOK
  <2>1. failureTimes \in Seq(Nat)
    BY DEF Init
  <2>2. ticket \in [Callers -> Nat]
    BY DEF Init
  <2>3. openedAt \in Nat /\ generation \in Nat \ {0} /\ now \in Nat
    BY DEF Init
  <2>4. state \in {"Closed", "Open", "HalfOpen"} /\ probeInFlight \in BOOLEAN
    BY DEF Init
  <2> QED
    BY <2>1, <2>2, <2>3, <2>4 DEF TypeOK
<1>2. TicketsIssued /\ ProbeOnlyHalfOpen
  BY DEF Init, TicketsIssued, ProbeOnlyHalfOpen
<1>3. OpenIgnoresLateResults /\ ProbeIsExclusive
  BY DEF Init, OpenIgnoresLateResults, ProbeIsExclusive
<1> QED
  BY <1>1, <1>2, <1>3 DEF IInv

\* Admission keeps the inductive invariant.
LEMMA AllowIInv ==
    ASSUME IInv, NEW c \in Callers, Allow(c)
    PROVE  IInv'
<1> USE DEF IInv, TypeOK, TicketsIssued, ProbeOnlyHalfOpen, Outstanding,
            OpenIgnoresLateResults, ProbeIsExclusive, Allow, breaker
<1>1. CASE AllowClosed(c)
  BY <1>1 DEF AllowClosed
<1>2. CASE AllowOpen(c)
  BY <1>2 DEF AllowOpen
<1>3. CASE AllowHalfOpen(c)
  BY <1>3 DEF AllowHalfOpen
<1>4. CASE Reject(c)
  BY <1>4 DEF Reject
<1> QED
  BY <1>1, <1>2, <1>3, <1>4

\* A report that is ignored keeps the inductive invariant: what it gives up is
\* not the ticket of the probe.
LEMMA IgnoredIInv ==
    ASSUME IInv, NEW c \in Callers, Report(c), UNCHANGED breaker,
           Ignored(ticket[c]) \/ state # "HalfOpen"
    PROVE  IInv'
BY DEF IInv, TypeOK, TicketsIssued, ProbeOnlyHalfOpen, Outstanding, Ignored, Current,
       OpenIgnoresLateResults, ProbeIsExclusive, Report, breaker

\* Each kind of report keeps the inductive invariant.
LEMMA SuccessIInv ==
    ASSUME IInv, NEW c \in Callers, RecordSuccess(c)
    PROVE  IInv'
<1>1. CASE Ignored(ticket[c])
  BY <1>1, IgnoredIInv DEF RecordSuccess
<1>2. CASE ~Ignored(ticket[c])
  <2> USE DEF RecordSuccess, SuccessEffect, Report
  <2>1. ticket[c] = generation /\ c \in Outstanding
    BY <1>2, ReportCounts
  <2>2. TypeOK'
    <3>1. failureTimes' \in Seq(Nat)
      <4>1. failureTimes' = <<>>
        BY <1>2
      <4>2. <<>> \in Seq(Nat)
        OBVIOUS
      <4> QED
        BY <4>1, <4>2
    <3>2. ticket' \in [Callers -> Nat] /\ now' \in Nat
      BY <1>2 DEF IInv, TypeOK
    <3>3. openedAt' \in Nat /\ generation' \in Nat \ {0}
      BY <1>2 DEF IInv, TypeOK
    <3>4. state' \in {"Closed", "Open", "HalfOpen"} /\ probeInFlight' \in BOOLEAN
      BY <1>2 DEF IInv, TypeOK
    <3> QED
      BY <3>1, <3>2, <3>3, <3>4 DEF TypeOK
  <2>3. TicketsIssued' /\ ProbeOnlyHalfOpen'
    BY <1>2 DEF IInv, TypeOK, TicketsIssued, ProbeOnlyHalfOpen
  <2>4. OpenIgnoresLateResults' /\ ProbeIsExclusive'
    BY <1>2, <2>1
    DEF IInv, TypeOK, TicketsIssued, ProbeOnlyHalfOpen, Outstanding,
        OpenIgnoresLateResults, ProbeIsExclusive
  <2> QED
    BY <2>2, <2>3, <2>4 DEF IInv
<1> QED
  BY <1>1, <1>2

LEMMA NeutralIInv ==
    ASSUME IInv, NEW c \in Callers, RecordNeutral(c)
    PROVE  IInv'
<1>1. CASE Ignored(ticket[c]) \/ state # "HalfOpen"
  BY <1>1, IgnoredIInv DEF RecordNeutral
<1>2. CASE ~Ignored(ticket[c]) /\ state = "HalfOpen"
  <2> USE DEF RecordNeutral, NeutralEffect, Report
  <2>1. ticket[c] = generation /\ c \in Outstanding
    BY <1>2, ReportCounts
  <2>2. TypeOK'
    BY <1>2 DEF IInv, TypeOK
  <2>3. TicketsIssued' /\ ProbeOnlyHalfOpen'
    BY <1>2 DEF IInv, TypeOK, TicketsIssued, ProbeOnlyHalfOpen
  <2>4. OpenIgnoresLateResults' /\ ProbeIsExclusive'
    BY <1>2, <2>1
    DEF IInv, TypeOK, TicketsIssued, ProbeOnlyHalfOpen, Outstanding,
        OpenIgnoresLateResults, ProbeIsExclusive
  <2> QED
    BY <2>2, <2>3, <2>4 DEF IInv
<1> QED
  BY <1>1, <1>2

LEMMA FailureIInv ==
    ASSUME IInv, NEW c \in Callers, RecordFailure(c)
    PROVE  IInv'
<1>1. CASE Ignored(ticket[c])
  BY <1>1, IgnoredIInv DEF RecordFailure
<1>2. CASE ~Ignored(ticket[c])
  <2> USE DEF RecordFailure, FailureEffect, EnterOpen, Report
  <2>1. ticket[c] = generation /\ c \in Outstanding
    BY <1>2, ReportCounts
  <2>2. TypeOK'
    <3>1. failureTimes' \in Seq(Nat)
      <4>1. Append(Pruned, now) \in Seq(Nat)
        BY PrunedType DEF IInv, TypeOK
      <4> QED
        BY <1>2, <4>1 DEF IInv, TypeOK
    <3>2. ticket' \in [Callers -> Nat] /\ now' \in Nat
      BY <1>2 DEF IInv, TypeOK
    <3>3. openedAt' \in Nat /\ generation' \in Nat \ {0}
      BY <1>2 DEF IInv, TypeOK
    <3>4. state' \in {"Closed", "Open", "HalfOpen"} /\ probeInFlight' \in BOOLEAN
      BY <1>2 DEF IInv, TypeOK
    <3> QED
      BY <3>1, <3>2, <3>3, <3>4 DEF TypeOK
  <2>3. TicketsIssued' /\ ProbeOnlyHalfOpen'
    BY <1>2 DEF IInv, TypeOK, TicketsIssued, ProbeOnlyHalfOpen
  <2>4. OpenIgnoresLateResults' /\ ProbeIsExclusive'
    BY <1>2, <2>1
    DEF IInv, TypeOK, TicketsIssued, ProbeOnlyHalfOpen, Outstanding,
        OpenIgnoresLateResults, ProbeIsExclusive
  <2> QED
    BY <2>2, <2>3, <2>4 DEF IInv
<1> QED
  BY <1>1, <1>2

\* The invariant is inductive: every step keeps it.
LEMMA NextIInv == IInv /\ [Next]_vars => IInv'
<1> SUFFICES ASSUME IInv, [Next]_vars
             PROVE  IInv'
  OBVIOUS
<1>1. ASSUME NEW c \in Callers, Allow(c)
      PROVE  IInv'
  BY <1>1, AllowIInv
<1>2. ASSUME NEW c \in Callers, RecordSuccess(c)
      PROVE  IInv'
  BY <1>2, SuccessIInv
<1>3. ASSUME NEW c \in Callers, RecordNeutral(c)
      PROVE  IInv'
  BY <1>3, NeutralIInv
<1>4. ASSUME NEW c \in Callers, RecordFailure(c)
      PROVE  IInv'
  BY <1>4, FailureIInv
<1>5. CASE Tick \/ UNCHANGED vars
  BY <1>5, MaxTimeAssumption
  DEF Tick, vars, breaker, IInv, TypeOK, TicketsIssued, ProbeOnlyHalfOpen,
      Outstanding, OpenIgnoresLateResults, ProbeIsExclusive
<1> QED
  BY <1>1, <1>2, <1>3, <1>4, <1>5 DEF Next

\* The inductive invariant holds in every reachable state.
THEOREM BreakerInvariant == Spec => []IInv
BY InitIInv, NextIInv, PTL DEF Spec

\* Every reachable state is well typed.
THEOREM BreakerTypeOK == Spec => []TypeOK
<1>1. IInv => TypeOK
  BY DEF IInv
<1> QED
  BY <1>1, BreakerInvariant, PTL

\* At most one request can ever act as the half-open probe, and the slot is
\* taken exactly while that request is pending (circuitbreaker.go:121-127).
THEOREM ProbeExclusion == Spec => []ProbeIsExclusive
<1>1. IInv => ProbeIsExclusive
  BY DEF IInv
<1> QED
  BY <1>1, BreakerInvariant, PTL

\* A late result never moves an open breaker (circuitbreaker.go:172-179).
THEOREM LateResultsVoid == Spec => []OpenIgnoresLateResults
<1>1. IInv => OpenIgnoresLateResults
  BY DEF IInv
<1> QED
  BY <1>1, BreakerInvariant, PTL

-----------------------------------------------------------------------------
(* The breaker implements the gate. *)

\* The initial state of the breaker is an initial state of the gate.
LEMMA GateInit == Init => Gate!Init
BY DEF Init, Gate!Init, Outstanding

\* Every step of the breaker is a step of the gate or leaves it alone.
LEMMA GateStep == IInv /\ [Next]_vars => [Gate!Next]_(Gate!vars)
<1> SUFFICES ASSUME IInv, [Next]_vars
             PROVE  [Gate!Next]_(Gate!vars)
  OBVIOUS
<1> USE DEF Gate!vars, Outstanding, breaker
<1>inv. /\ TypeOK /\ TicketsIssued /\ ProbeOnlyHalfOpen
        /\ OpenIgnoresLateResults /\ ProbeIsExclusive
  BY DEF IInv
<1>1. ASSUME NEW c \in Callers, Allow(c)
      PROVE  [Gate!Next]_(Gate!vars)
  <2>1. CASE AllowClosed(c)
    <3>1. Gate!Admit(c)
      BY <1>inv, <1>1, <2>1 DEF Gate!Admit, AllowClosed, TypeOK
    <3> QED
      BY <3>1 DEF Gate!Next
  <2>2. CASE AllowOpen(c)
    <3>1. Gate!Probe(c)
      BY <1>inv, <1>1, <2>2
      DEF Gate!Probe, AllowOpen, TypeOK, TicketsIssued, OpenIgnoresLateResults
    <3> QED
      BY <3>1 DEF Gate!Next
  <2>3. CASE AllowHalfOpen(c)
    <3>1. Gate!Probe(c)
      BY <1>inv, <1>1, <2>3 DEF Gate!Probe, AllowHalfOpen, TypeOK, ProbeIsExclusive
    <3> QED
      BY <3>1 DEF Gate!Next
  <2>4. CASE Reject(c)
    BY <2>4 DEF Reject
  <2> QED
    BY <1>1, <2>1, <2>2, <2>3, <2>4 DEF Allow
<1>2. ASSUME NEW c \in Callers, Report(c), UNCHANGED breaker
      PROVE  [Gate!Next]_(Gate!vars)
  <2>1. Gate!Settle(c)
    BY <1>inv, <1>2 DEF Gate!Settle, Report, TypeOK
  <2> QED
    BY <2>1 DEF Gate!Next
<1>3. ASSUME NEW c \in Callers, Report(c), ~Ignored(ticket[c]), SuccessEffect
      PROVE  [Gate!Next]_(Gate!vars)
  <2>1. CASE state = "Closed"
    <3>1. Gate!Settle(c)
      BY <1>inv, <1>3, <2>1 DEF Gate!Settle, Report, SuccessEffect, TypeOK
    <3> QED
      BY <3>1 DEF Gate!Next
  <2>2. CASE state = "HalfOpen"
    <3>1. Gate!Close(c)
      BY <1>inv, <1>3, <2>2, ReportCounts
      DEF Gate!Close, Report, SuccessEffect, TypeOK, TicketsIssued
    <3> QED
      BY <3>1 DEF Gate!Next
  <2> QED
    BY <1>3, <2>1, <2>2 DEF SuccessEffect
<1>4. ASSUME NEW c \in Callers, Report(c), NeutralEffect
      PROVE  [Gate!Next]_(Gate!vars)
  <2>1. Gate!Settle(c)
    BY <1>inv, <1>4 DEF Gate!Settle, Report, NeutralEffect, TypeOK
  <2> QED
    BY <2>1 DEF Gate!Next
<1>5. ASSUME NEW c \in Callers, Report(c), ~Ignored(ticket[c]), FailureEffect
      PROVE  [Gate!Next]_(Gate!vars)
  <2>1. CASE state' = "Open"
    <3>1. Gate!Trip(c)
      BY <1>inv, <1>5, <2>1, ReportCounts
      DEF Gate!Trip, Report, FailureEffect, EnterOpen, TypeOK, TicketsIssued
    <3> QED
      BY <3>1 DEF Gate!Next
  <2>2. CASE state' # "Open"
    <3>1. Gate!Settle(c)
      BY <1>inv, <1>5, <2>2 DEF Gate!Settle, Report, FailureEffect, EnterOpen, TypeOK
    <3> QED
      BY <3>1 DEF Gate!Next
  <2> QED
    BY <2>1, <2>2
<1>6. CASE Tick \/ UNCHANGED vars
  BY <1>6 DEF Tick, vars
<1> QED
  BY <1>1, <1>2, <1>3, <1>4, <1>5, <1>6
  DEF Next, RecordSuccess, RecordNeutral, RecordFailure

\* The breaker implements the gate: generation numbers void every pending
\* request at each transition, in every execution.
THEOREM BreakerImplementsGate == Spec => ImplementsGate
<1> USE DEF ImplementsGate
<1> QED
  BY GateInit, GateStep, BreakerInvariant, PTL DEF Spec, Gate!Spec

-----------------------------------------------------------------------------
(* The sliding window *)

\* A non-empty set of numbers has a least element.
LEMMA LeastExists ==
    ASSUME NEW S \in SUBSET Nat, S # {}
    PROVE  \E x \in S : \A y \in S : x <= y
<1> DEFINE Less == {p \in Nat \X Nat : p[1] < p[2]}
<1>1. IsWellFoundedOn(Less, Nat)
  BY NatLessThanWellFounded DEF OpToRel
<1>2. \E x \in S : \A y \in S : ~(<<y, x>> \in Less)
  <2> HIDE DEF Less
  <2> QED
    BY <1>1, WFMin, Zenon
<1>3. PICK x \in S : \A y \in S : ~(<<y, x>> \in Less)
  BY <1>2
<1>4. ASSUME NEW y \in S
      PROVE  x <= y
  <2>1. ~(<<y, x>> \in Less)
    BY <1>3
  <2>2. x \in Nat /\ y \in Nat
    OBVIOUS
  <2> QED
    BY <2>1, <2>2
<1> QED
  BY <1>4

\* The old entries of a list in clock order are its first ones, so that the loop
\* of pruneFailureTimes, which stops at the first young entry, drops them all.
LEMMA OldComeFirst ==
    ASSUME NEW s \in Seq(Nat), NEW cut \in Int,
           \A i, j \in 1..Len(s) : i <= j => s[i] <= s[j]
    PROVE  \E m \in 0..Len(s) :
              /\ {i \in 1..Len(s) : s[i] < cut} = 1..m
              /\ Cardinality({i \in 1..Len(s) : s[i] < cut}) = m
<1>1. PICK n \in Nat : n = Len(s)
  OBVIOUS
<1> DEFINE young == {i \in 1..(n + 1) : i = n + 1 \/ s[i] >= cut}
<1>2. young \in SUBSET Nat /\ young # {}
  BY <1>1
<1>3. PICK x \in young : \A y \in young : x <= y
  <2> HIDE DEF young
  <2> QED
    BY <1>2, LeastExists
<1>4. PICK m \in 0..n : m = x - 1
  BY <1>1
<1>5. \A i \in 1..n : s[i] \in Nat
  BY <1>1
<1>6. ASSUME NEW i \in 1..n
      PROVE  s[i] < cut <=> i <= m
  <2>1. CASE i <= m
    <3>1. i \notin young
      BY <1>3, <1>4, <2>1
    <3> QED
      BY <1>5, <2>1, <3>1
  <2>2. CASE i > m
    <3>1. x \in 1..n /\ x <= i
      BY <1>4, <2>2
    <3>2. s[x] >= cut /\ s[x] <= s[i]
      BY <1>1, <3>1
    <3> QED
      BY <1>5, <2>2, <3>1, <3>2
  <2> QED
    BY <2>1, <2>2
<1>7. {i \in 1..n : s[i] < cut} = 1..m
  BY <1>4, <1>6
<1>8. Cardinality(1..m) = m
  BY <1>4, FS_Interval
<1> QED
  BY <1>1, <1>7, <1>8

\* What pruning a list in clock order keeps: everything but the first m entries,
\* where these are older than the window and the others are not.
LEMMA PrunedKeepsYoung ==
    ASSUME failureTimes \in Seq(Nat), now \in Nat,
           \A i, j \in 1..Len(failureTimes) : i <= j => failureTimes[i] <= failureTimes[j]
    PROVE  \E m \in 0..Len(failureTimes) :
              /\ Pruned \in Seq(Nat)
              /\ Len(Pruned) = Len(failureTimes) - m
              /\ \A i \in 1..Len(Pruned) : Pruned[i] = failureTimes[m + i]
              /\ m > 0 => FailureWindow > 0
              /\ \A i \in 1..m : failureTimes[i] < now - FailureWindow
              /\ FailureWindow > 0 =>
                    \A i \in (m + 1)..Len(failureTimes) : failureTimes[i] >= now - FailureWindow
<1>1. FailureWindow \in Int
  BY FailureWindowAssumption
<1>2. CASE FailureWindow <= 0
  <2>1. Pruned = failureTimes
    BY <1>2 DEF Pruned
  <2> QED
    BY <1>1, <1>2, <2>1
<1>3. CASE FailureWindow > 0
  <2> DEFINE n == Len(failureTimes)
             old == {i \in 1..n : failureTimes[i] < now - FailureWindow}
  <2>1. PICK m \in 0..n : old = 1..m /\ Cardinality(old) = m
    <3>1. now - FailureWindow \in Int
      BY <1>1
    <3> QED
      BY <3>1, OldComeFirst
  <2>2. Pruned = SubSeq(failureTimes, m + 1, n)
    <3>1. ~(FailureWindow <= 0)
      BY <1>1, <1>3
    <3>2. Pruned = SubSeq(failureTimes, Cardinality(old) + 1, n)
      BY <3>1, Zenon DEF Pruned
    <3> QED
      BY <2>1, <3>2, Zenon
  <2>3. n \in Nat /\ m \in Nat /\ m <= n
    OBVIOUS
  <2>4. /\ Pruned \in Seq(Nat)
        /\ Len(Pruned) = n - m
        /\ \A i \in 1..(n - m) : Pruned[i] = failureTimes[m + i]
    BY <2>2, <2>3
  <2>5. \A i \in 1..n : failureTimes[i] \in Nat /\ (failureTimes[i] < now - FailureWindow <=> i <= m)
    BY <2>1
  <2>6. \A i \in 1..m : failureTimes[i] < now - FailureWindow
    BY <2>3, <2>5
  <2>7. \A i \in (m + 1)..n : failureTimes[i] >= now - FailureWindow
    BY <1>1, <2>3, <2>5
  <2> QED
    BY <1>3, <2>3, <2>4, <2>6, <2>7
<1> QED
  BY <1>1, <1>2, <1>3

-----------------------------------------------------------------------------
(* What the breaker has seen and what it remembers of it *)

\* The initial state satisfies the invariant of the history.
LEMMA InitHInv == HInit => HInv
<1> SUFFICES ASSUME HInit
             PROVE  HInv
  OBVIOUS
<1>1. streak = <<>> /\ failureTimes = <<>> /\ Len(streak) = 0 /\ Len(failureTimes) = 0
  BY DEF HInit, Init
<1>2. HTypeOK /\ PeriodsCounted
  BY DEF HInit, Init, HTypeOK, PeriodsCounted
<1>3. StreakOrdered /\ ClosedMeansNoBurst
  BY <1>1 DEF StreakOrdered, ClosedMeansNoBurst
<1>4. RestRemembered
  <2>1. Forgotten(0)
    BY <1>1 DEF Forgotten
  <2> QED
    BY <1>1, <2>1 DEF RestRemembered
<1>5. CoolDownRemembered
  BY DEF HInit, Init, CoolDownRemembered
<1> QED
  BY <1>2, <1>3, <1>4, <1>5 DEF HInv

\* What has cooled down stays so.
LEMMA TimeGoesOn ==
    ASSUME NEW t \in Nat, NEW u \in Nat, t <= u, NEW since \in Int, NEW d \in Int,
           t - since >= d
    PROVE  u - since >= d
OBVIOUS

\* A step after which the breaker and the streak are as before, tickets and the
\* clock aside, keeps the invariant.
LEMMA QuietHInv ==
    ASSUME IInv, HInv,
           state' = state, failureTimes' = failureTimes, openedAt' = openedAt,
           generation' = generation, streak' = streak, period' = period,
           trippedAt' = trippedAt, now' \in Nat, now <= now',
           epoch' \in [Callers -> Nat],
           \A c \in Callers : ticket'[c] # NoTicket => ticket'[c] = epoch'[c] + 1
    PROVE  HInv'
<1>1. HTypeOK' /\ PeriodsCounted'
  BY DEF HInv, HTypeOK, PeriodsCounted
<1>2. StreakOrdered'
  BY DEF HInv, HTypeOK, StreakOrdered, IInv, TypeOK
<1>3. RestRemembered'
  BY DEF HInv, RestRemembered, Forgotten
<1>4. ClosedMeansNoBurst'
  BY DEF HInv, ClosedMeansNoBurst, Burst
<1>5. CoolDownRemembered'
  <2>1. now \in Nat /\ trippedAt \in Int /\ Timeout \in Int
    BY TimeoutAssumption DEF HInv, HTypeOK, IInv, TypeOK
  <2>2. CoolDownRemembered
    BY DEF HInv
  <2>3. CASE state = "Open"
    BY <2>2, <2>3 DEF CoolDownRemembered
  <2>4. CASE state # "Open"
    <3>1. trippedAt >= 0 => now - trippedAt >= Timeout
      BY <2>2, <2>4 DEF CoolDownRemembered
    <3>2. trippedAt >= 0 => now' - trippedAt >= Timeout
      BY <2>1, <3>1, TimeGoesOn, Zenon
    <3> QED
      BY <2>4, <3>2 DEF CoolDownRemembered
  <2> QED
    BY <2>3, <2>4
<1> QED
  BY <1>1, <1>2, <1>3, <1>4, <1>5 DEF HInv

\* A step into another state than Closed keeps it if the streak stays in order
\* and the time of the last opening is right.
LEMMA LeaveHInv ==
    ASSUME IInv, HInv, state' # "Closed", StreakOrdered', HTypeOK', PeriodsCounted',
           CoolDownRemembered'
    PROVE  HInv'
BY DEF HInv, RestRemembered, ClosedMeansNoBurst

\* Every report gives up a ticket and gives nobody one.
LEMMA ReportKeepsEpochs ==
    ASSUME IInv, HInv, NEW c \in Callers, Report(c), Observe(c)
    PROVE  /\ epoch' = epoch
           /\ \A d \in Callers : ticket'[d] # NoTicket => ticket'[d] = epoch'[d] + 1
           /\ now' = now
           /\ now \in Nat
           /\ epoch' \in [Callers -> Nat]
BY DEF IInv, TypeOK, HInv, HTypeOK, PeriodsCounted, Report, Observe

\* While the breaker is closed, a report counts exactly if its request was
\* admitted in this closed period: the generation of the ticket tells.
LEMMA CountsInPeriod ==
    ASSUME IInv, HInv, NEW c \in Callers, ticket[c] # NoTicket, state = "Closed"
    PROVE  Ignored(ticket[c]) <=> ~OfThisPeriod(c)
BY DEF IInv, TypeOK, HInv, HTypeOK, PeriodsCounted, Ignored, Current, OfThisPeriod

\* An admission keeps the invariant.
LEMMA AllowHInv ==
    ASSUME IInv, HInv, NEW c \in Callers, HAllow(c)
    PROVE  HInv'
<1> USE DEF HAllow, Allow, Observe
<1>1. CASE AllowClosed(c) \/ AllowHalfOpen(c) \/ Reject(c)
  <2> USE <1>1 DEF AllowClosed, AllowHalfOpen, Reject, breaker
  <2>1. /\ state' = state /\ failureTimes' = failureTimes /\ openedAt' = openedAt
        /\ generation' = generation /\ streak' = streak /\ period' = period
        /\ trippedAt' = trippedAt /\ now' = now /\ now \in Nat
    BY DEF Opens, IInv, TypeOK
  <2>2. epoch' \in [Callers -> Nat]
    BY DEF HInv, HTypeOK
  <2>3. ASSUME NEW d \in Callers, ticket'[d] # NoTicket
        PROVE  ticket'[d] = epoch'[d] + 1
    BY <2>1, <2>3 DEF IInv, TypeOK, HInv, HTypeOK, PeriodsCounted
  <2> QED
    BY <2>1, <2>2, <2>3, QuietHInv
<1>2. CASE AllowOpen(c)
  <2> USE <1>2 DEF AllowOpen
  <2>1. /\ state = "Open" /\ state' = "HalfOpen" /\ generation' = generation + 1
        /\ streak' = streak /\ period' = period + 1 /\ trippedAt' = trippedAt
        /\ now' = now /\ now \in Nat /\ openedAt' = openedAt
    BY DEF Opens, IInv, TypeOK
  <2>2. HTypeOK'
    BY <2>1 DEF HInv, HTypeOK
  <2>3. PeriodsCounted'
    BY <2>1 DEF IInv, TypeOK, HInv, HTypeOK, PeriodsCounted
  <2>4. StreakOrdered'
    BY <2>1 DEF HInv, StreakOrdered
  <2>5. CoolDownRemembered'
    BY <2>1 DEF HInv, CoolDownRemembered, CooledDown
  <2> QED
    BY <2>1, <2>2, <2>3, <2>4, <2>5, LeaveHInv
<1> QED
  BY <1>1, <1>2

\* A report that is ignored, and one that is neutral, keep it.
LEMMA IgnoredHInv ==
    ASSUME IInv, HInv, NEW c \in Callers, Report(c), Observe(c), streak' = streak,
           state' = state, failureTimes' = failureTimes, openedAt' = openedAt,
           generation' = generation
    PROVE  HInv'
<1>1. period' = period /\ trippedAt' = trippedAt
  BY DEF Observe, Opens
<1> QED
  BY <1>1, ReportKeepsEpochs, QuietHInv

LEMMA NeutralHInv ==
    ASSUME IInv, HInv, NEW c \in Callers, HNeutral(c)
    PROVE  HInv'
<1>1. /\ Report(c) /\ Observe(c) /\ streak' = streak
      /\ state' = state /\ failureTimes' = failureTimes
      /\ openedAt' = openedAt /\ generation' = generation
  BY DEF HNeutral, RecordNeutral, NeutralEffect, breaker
<1> QED
  BY <1>1, IgnoredHInv

\* A success that counts starts a new streak, in the same closed period or in the
\* one that begins with it.
LEMMA SuccessHInv ==
    ASSUME IInv, HInv, NEW c \in Callers, HSuccess(c)
    PROVE  HInv'
<1>1. Report(c) /\ Observe(c) /\ ticket[c] # NoTicket
  BY DEF HSuccess, RecordSuccess, Report
<1>2. CASE Ignored(ticket[c])
  <2>1. /\ state' = state /\ failureTimes' = failureTimes
        /\ openedAt' = openedAt /\ generation' = generation
    BY <1>2 DEF HSuccess, RecordSuccess, breaker
  <2>2. ~OfThisPeriod(c)
    BY <1>1, <1>2, CountsInPeriod DEF OfThisPeriod
  <2>3. streak' = streak
    BY <2>1, <2>2 DEF HSuccess
  <2> QED
    BY <1>1, <2>1, <2>3, IgnoredHInv
<1>3. CASE ~Ignored(ticket[c])
  <2>1. SuccessEffect
    BY <1>3 DEF HSuccess, RecordSuccess
  <2>2. state' = "Closed" /\ failureTimes' = <<>> /\ now' = now
    BY <1>1, <2>1 DEF SuccessEffect, Report
  <2>3. streak' = <<>>
    <3>1. CASE state = "Closed"
      BY <1>1, <1>3, <3>1, CountsInPeriod DEF HSuccess
    <3>2. CASE state = "HalfOpen"
      BY <2>2, <3>2 DEF HSuccess
    <3> QED
      BY <2>1, <3>1, <3>2 DEF SuccessEffect
  <2>4. streak' \in Seq(Nat) /\ Len(streak') = 0 /\ Len(failureTimes') = 0
    BY <2>2, <2>3
  <2>5. epoch' = epoch /\ epoch' \in [Callers -> Nat]
    BY <1>1, ReportKeepsEpochs
  <2>6. /\ period' \in Nat /\ trippedAt' = trippedAt
        /\ generation' = period' + 1
    BY <1>1, <2>1, <2>2
    DEF Observe, Opens, SuccessEffect, HInv, HTypeOK, PeriodsCounted
  <2>7. HTypeOK'
    BY <2>4, <2>5, <2>6 DEF HInv, HTypeOK
  <2>8. PeriodsCounted'
    BY <1>1, <2>6, ReportKeepsEpochs DEF PeriodsCounted
  <2>9. StreakOrdered' /\ ClosedMeansNoBurst'
    BY <2>4 DEF StreakOrdered, ClosedMeansNoBurst
  <2>10. RestRemembered'
    <3>1. Forgotten(0)'
      BY <2>4 DEF Forgotten
    <3> QED
      BY <2>3, <2>4, <3>1 DEF RestRemembered
  <2>11. CoolDownRemembered'
    <3>1. state # "Open"
      BY <2>1 DEF SuccessEffect
    <3> QED
      BY <2>2, <2>6, <3>1 DEF HInv, CoolDownRemembered
  <2> QED
    BY <2>7, <2>8, <2>9, <2>10, <2>11 DEF HInv
<1> QED
  BY <1>2, <1>3

\* A list with one more entry.
LEMMA Appended ==
    ASSUME NEW s \in Seq(Nat), NEW e \in Nat
    PROVE  /\ Len(Append(s, e)) = Len(s) + 1
           /\ Append(s, e)[Len(s) + 1] = e
           /\ \A i \in 1..Len(s) : Append(s, e)[i] = s[i]
OBVIOUS

\* What a failure that counts makes of the two lists: the whole streak on one
\* side, on the other its part that falls into the window of the last failure.
LEMMA WindowSlides ==
    ASSUME IInv, HInv, state = "Closed",
           streak' = Append(streak, now), failureTimes' = Append(Pruned, now)
    PROVE  \E k \in 0..Len(streak) :
              /\ Forgotten(k)'
              /\ FailureWindow > 0 =>
                    \A i \in (k + 1)..Len(streak') : streak'[i] >= now - FailureWindow
<1>1. /\ streak \in Seq(Nat) /\ failureTimes \in Seq(Nat) /\ now \in Nat
      /\ FailureWindow \in Int
  BY FailureWindowAssumption DEF IInv, TypeOK, HInv, HTypeOK
<1>2. PICK n \in Nat : n = Len(streak)
  BY <1>1
<1>3. PICK k \in 0..n : Forgotten(k)
  BY <1>2 DEF HInv, RestRemembered
<1>4. /\ Len(failureTimes) = n - k
      /\ \A i \in 1..(n - k) : failureTimes[i] = streak[k + i]
      /\ k > 0 => FailureWindow > 0
      /\ \A i \in 1..k : streak[i] < streak[n] - FailureWindow
  BY <1>2, <1>3 DEF Forgotten
<1>5. \A i, j \in 1..n : i <= j => streak[i] <= streak[j] /\ streak[j] <= now
  BY <1>2 DEF HInv, StreakOrdered
<1>6. \A i \in 1..n : streak[i] \in Nat
  BY <1>1, <1>2
<1>7. \A i, j \in 1..(n - k) : i <= j => failureTimes[i] <= failureTimes[j]
  <2> SUFFICES ASSUME NEW i \in 1..(n - k), NEW j \in 1..(n - k), i <= j
               PROVE  failureTimes[i] <= failureTimes[j]
    OBVIOUS
  <2>1. k + i \in 1..n /\ k + j \in 1..n /\ k + i <= k + j
    OBVIOUS
  <2> QED
    BY <1>4, <1>5, <2>1
<1>8. PICK m \in 0..(n - k) :
         /\ Pruned \in Seq(Nat)
         /\ Len(Pruned) = n - k - m
         /\ \A i \in 1..(n - k - m) : Pruned[i] = failureTimes[m + i]
         /\ m > 0 => FailureWindow > 0
         /\ \A i \in 1..m : failureTimes[i] < now - FailureWindow
         /\ FailureWindow > 0 =>
               \A i \in (m + 1)..(n - k) : failureTimes[i] >= now - FailureWindow
  BY <1>1, <1>4, <1>7, PrunedKeepsYoung
<1> DEFINE q == k + m
<1>9. q \in 0..n /\ q \in Nat
  BY <1>2, <1>3, <1>8
<1>10. /\ Len(streak') = n + 1
       /\ streak'[n + 1] = now
       /\ \A i \in 1..n : streak'[i] = streak[i]
  BY <1>1, <1>2
<1>11. /\ Len(failureTimes') = n + 1 - q
       /\ failureTimes'[n + 1 - q] = now
       /\ \A i \in 1..(n - q) : failureTimes'[i] = failureTimes[m + i]
  <2>1. PICK pruned \in Seq(Nat) : pruned = Pruned
    BY <1>8
  <2>2. PICK r \in Nat : r = Len(pruned) /\ r = n - q
    BY <1>8, <2>1
  <2>3. failureTimes' = Append(pruned, now)
    BY <2>1
  <2>4. /\ Len(failureTimes') = r + 1
        /\ failureTimes'[r + 1] = now
        /\ \A i \in 1..r : failureTimes'[i] = pruned[i]
    <3>1. /\ Len(Append(pruned, now)) = Len(pruned) + 1
          /\ Append(pruned, now)[Len(pruned) + 1] = now
          /\ \A i \in 1..Len(pruned) : Append(pruned, now)[i] = pruned[i]
      BY <1>1, Appended, Zenon
    <3>2. r = Len(pruned)
      BY <2>2
    <3> QED
      BY <2>3, <3>1, <3>2, Zenon
  <2>5. \A i \in 1..r : pruned[i] = failureTimes[m + i]
    BY <1>8, <2>1, <2>2
  <2>6. n + 1 - q = r + 1 /\ n - q = r
    BY <2>2, <1>9
  <2> HIDE DEF q
  <2> QED
    BY <2>4, <2>5, <2>6, Zenon
<1>12. Forgotten(q)'
  <2>1. ASSUME NEW i \in 1..(n + 1 - q)
        PROVE  failureTimes'[i] = streak'[q + i]
    <3>1. CASE i = n + 1 - q
      BY <1>9, <1>10, <1>11, <3>1
    <3>2. CASE i # n + 1 - q
      <4>1. i \in 1..(n - q) /\ m + i \in 1..(n - k) /\ q + i \in 1..n
        BY <1>8, <1>9, <3>2
      <4>2. failureTimes'[i] = streak[k + (m + i)]
        BY <1>4, <1>11, <4>1
      <4> QED
        BY <1>10, <4>1, <4>2
    <3> QED
      BY <3>1, <3>2
  <2>2. q > 0 => FailureWindow > 0
    BY <1>4, <1>8
  <2>3. ASSUME NEW i \in 1..q
        PROVE  streak'[i] < streak'[n + 1] - FailureWindow
    <3>1. i \in 1..n /\ streak'[i] = streak[i]
      BY <1>9, <1>10
    <3>2. CASE i <= k
      <4>1. i \in 1..k /\ n \in 1..n
        BY <1>3, <3>2
      <4>2. streak[i] < streak[n] - FailureWindow /\ streak[n] <= now
        BY <1>4, <1>5, <4>1
      <4> QED
        BY <1>1, <1>6, <1>10, <3>1, <4>1, <4>2
    <3>3. CASE i > k
      <4>1. i - k \in 1..m /\ i - k \in 1..(n - k) /\ k + (i - k) = i
        BY <1>8, <3>3
      <4>2. failureTimes[i - k] = streak[i]
        BY <1>4, <4>1
      <4> QED
        BY <1>8, <1>10, <3>1, <4>1, <4>2
    <3>4. i <= k \/ i > k
      BY <1>3, <1>9
    <3> QED
      BY <3>2, <3>3, <3>4, Zenon
  <2>4. Len(failureTimes') = Len(streak') - q
    BY <1>10, <1>11
  <2>5. \A i \in 1..Len(failureTimes') : failureTimes'[i] = streak'[q + i]
    BY <1>11, <2>1, Zenon
  <2>6. \A i \in 1..q : streak'[i] < streak'[Len(streak')] - FailureWindow
    BY <1>10, <2>3, Zenon
  <2> QED
    BY <2>2, <2>4, <2>5, <2>6, Zenon DEF Forgotten
<1>13. ASSUME FailureWindow > 0, NEW i \in (q + 1)..(n + 1)
       PROVE  streak'[i] >= now - FailureWindow
  <2>1. CASE i = n + 1
    BY <1>1, <1>10, <1>13, <2>1
  <2>2. CASE i # n + 1
    <3>1. i - k \in (m + 1)..(n - k) /\ k + (i - k) = i /\ i \in 1..n
      BY <1>8, <1>9, <2>2
    <3>2. failureTimes[i - k] = streak[i] /\ failureTimes[i - k] >= now - FailureWindow
      BY <1>4, <1>8, <1>13, <3>1
    <3> QED
      BY <1>10, <3>1, <3>2
  <2> QED
    BY <2>1, <2>2
<1> HIDE DEF q
<1> QED
  BY <1>2, <1>9, <1>10, <1>12, <1>13

\* A failure that counts comes last in the streak.
LEMMA AppendOrdered ==
    ASSUME HInv, now \in Nat, now' = now, NEW n \in Nat, n = Len(streak),
           Len(streak') = n + 1, streak'[n + 1] = now,
           \A i \in 1..n : streak'[i] = streak[i]
    PROVE  StreakOrdered'
<1>1. \A i, j \in 1..n : i <= j => streak[i] <= streak[j] /\ streak[j] <= now
  BY DEF HInv, StreakOrdered
<1>2. ASSUME NEW i \in 1..(n + 1), NEW j \in 1..(n + 1), i <= j
      PROVE  streak'[i] <= streak'[j] /\ streak'[j] <= now
  <2>1. CASE j \in 1..n
    <3>1. i \in 1..n
      BY <1>2, <2>1
    <3> QED
      BY <1>1, <1>2, <2>1, <3>1
  <2>2. CASE j = n + 1
    <3>1. CASE i \in 1..n
      BY <1>1, <2>2, <3>1
    <3>2. CASE i = n + 1
      BY <2>2, <3>2
    <3> QED
      BY <3>1, <3>2
  <2> QED
    BY <2>1, <2>2
<1> QED
  BY <1>2 DEF StreakOrdered

\* If all but the first k failures are fewer than the threshold, and those k are
\* too old, then the last one does not end a burst ...
LEMMA TooFewForBurst ==
    ASSUME NEW s \in Seq(Nat), NEW n \in Nat, n + 1 = Len(s), NEW k \in 0..n,
           n + 1 - k < FailureThresh,
           k > 0 => FailureWindow > 0,
           \A j \in 1..k : s[j] < s[n + 1] - FailureWindow
    PROVE  ~Burst(s, n + 1)
<1> USE FailureThreshAssumption, FailureWindowAssumption
<1>1. SUFFICES ASSUME Burst(s, n + 1)
               PROVE  FALSE
  OBVIOUS
<1>2. n + 1 >= FailureThresh /\ FailureThresh > 1
  BY <1>1 DEF Burst
<1>3. k > 0 /\ FailureWindow > 0
  BY <1>2
<1>4. PICK j \in 1..k : j = n + 1 - FailureThresh + 1
  BY <1>2
<1>5. s[n + 1] - s[j] <= FailureWindow
  BY <1>1, <1>2, <1>3, <1>4 DEF Burst
<1>6. s[j] \in Nat /\ s[n + 1] \in Nat /\ s[j] < s[n + 1] - FailureWindow
  BY <1>4
<1> QED
  BY <1>5, <1>6

\* ... and if they reach the threshold and are not too old, it does.
LEMMA EnoughForBurst ==
    ASSUME NEW s \in Seq(Nat), NEW n \in Nat, n + 1 = Len(s), NEW k \in 0..n,
           n + 1 - k >= FailureThresh,
           FailureWindow > 0 => \A i \in (k + 1)..(n + 1) : s[i] >= s[n + 1] - FailureWindow
    PROVE  Burst(s, n + 1)
<1> USE FailureThreshAssumption, FailureWindowAssumption
<1>1. n + 1 >= FailureThresh
  OBVIOUS
<1>2. CASE FailureThresh > 1 /\ FailureWindow > 0
  <2>1. PICK i \in (k + 1)..(n + 1) : i = n + 1 - FailureThresh + 1
    BY <1>2
  <2>2. s[i] \in Nat /\ s[n + 1] \in Nat /\ s[i] >= s[n + 1] - FailureWindow
    BY <1>2, <2>1
  <2>3. s[n + 1] - s[i] <= FailureWindow
    BY <2>2
  <2> QED
    BY <1>1, <2>1, <2>3 DEF Burst
<1>3. CASE FailureThresh <= 1 \/ FailureWindow <= 0
  BY <1>1, <1>3 DEF Burst
<1> QED
  BY <1>2, <1>3

\* A burst is one whatever comes later.
LEMMA SameBurst ==
    ASSUME NEW s, NEW t, NEW n \in Nat, \A i \in 1..n : t[i] = s[i],
           NEW i \in 1..n, Burst(t, i)
    PROVE  Burst(s, i)
<1>1. CASE FailureThresh <= 1 \/ FailureWindow <= 0
  BY <1>1 DEF Burst
<1>2. CASE ~(FailureThresh <= 1 \/ FailureWindow <= 0)
  <2>1. i >= FailureThresh
    BY DEF Burst
  <2>2. i - FailureThresh + 1 \in 1..n
    BY <1>2, <2>1, FailureThreshAssumption
  <2>3. t[i] = s[i] /\ t[i - FailureThresh + 1] = s[i - FailureThresh + 1]
    BY <2>2
  <2> QED
    BY <1>2, <2>1, <2>3, Zenon DEF Burst
<1> QED
  BY <1>1, <1>2

\* A failure that counts and leaves the breaker closed: there is no burst yet.
LEMMA StillClosedHInv ==
    ASSUME IInv, HInv, NEW c \in Callers, Report(c), Observe(c),
           state = "Closed", state' = "Closed", streak' = Append(streak, now),
           failureTimes' = Append(Pruned, now), Len(failureTimes') < FailureThresh,
           openedAt' = openedAt, generation' = generation
    PROVE  HInv'
<1>1. /\ period' = period /\ trippedAt' = trippedAt /\ epoch' = epoch
      /\ now' = now /\ now \in Nat /\ streak \in Seq(Nat)
  BY ReportKeepsEpochs DEF Observe, Opens, HInv, HTypeOK
<1>2. HTypeOK'
  <2>1. streak' \in Seq(Nat)
    BY <1>1
  <2> QED
    BY <1>1, <2>1 DEF HInv, HTypeOK
<1>3. PeriodsCounted'
  BY <1>1, ReportKeepsEpochs DEF HInv, PeriodsCounted
<1>4. PICK n \in Nat : n = Len(streak)
  BY <1>1
<1>5. /\ Len(streak') = n + 1
      /\ streak'[n + 1] = now
      /\ \A i \in 1..n : streak'[i] = streak[i]
  BY <1>1, <1>4, Appended, Zenon
<1>6. StreakOrdered'
  BY <1>1, <1>4, <1>5, AppendOrdered
<1>7. PICK k \in 0..n : Forgotten(k)'
  BY <1>4, WindowSlides
<1>8. RestRemembered'
  BY <1>4, <1>5, <1>7 DEF RestRemembered
<1>9. ClosedMeansNoBurst'
  <2> SUFFICES ASSUME NEW i \in 1..(n + 1), Burst(streak', i)
               PROVE  FALSE
    BY <1>5 DEF ClosedMeansNoBurst, Burst
  <2>1. CASE i \in 1..n
    <3>1. Burst(streak, i)
      BY <1>5, <2>1, SameBurst, Zenon
    <3> QED
      BY <1>4, <2>1, <3>1 DEF HInv, ClosedMeansNoBurst
  <2>2. CASE i = n + 1
    <3>1. /\ Len(failureTimes') = n + 1 - k
          /\ k > 0 => FailureWindow > 0
          /\ \A j \in 1..k : streak'[j] < streak'[n + 1] - FailureWindow
      BY <1>5, <1>7 DEF Forgotten
    <3>2. n + 1 - k < FailureThresh
      BY <3>1
    <3>3. streak' \in Seq(Nat) /\ n + 1 = Len(streak')
      BY <1>2, <1>5 DEF HTypeOK
    <3>4. ~Burst(streak', n + 1)
      BY <3>1, <3>2, <3>3, TooFewForBurst, Zenon
    <3> QED
      BY <2>2, <3>4, Zenon
  <2> QED
    BY <2>1, <2>2
<1>10. CoolDownRemembered'
  BY <1>1 DEF HInv, CoolDownRemembered
<1> QED
  BY <1>2, <1>3, <1>6, <1>8, <1>9, <1>10 DEF HInv

\* A failure that counts and opens the breaker ends a burst.
LEMMA OpenedByBurst ==
    ASSUME IInv, HInv, state = "Closed", streak' = Append(streak, now),
           failureTimes' = Append(Pruned, now), Len(failureTimes') >= FailureThresh
    PROVE  Burst(streak', Len(streak'))
<1>1. streak \in Seq(Nat) /\ now \in Nat
  BY DEF IInv, TypeOK, HInv, HTypeOK
<1>2. PICK n \in Nat : n = Len(streak)
  BY <1>1
<1>3. Len(streak') = n + 1 /\ streak'[n + 1] = now
  BY <1>1, <1>2, Appended, Zenon
<1>4. PICK k \in 0..n :
         /\ Forgotten(k)'
         /\ FailureWindow > 0 =>
               \A i \in (k + 1)..Len(streak') : streak'[i] >= now - FailureWindow
  BY <1>2, WindowSlides
<1>5. Len(failureTimes') = n + 1 - k
  BY <1>3, <1>4 DEF Forgotten
<1>6. n + 1 - k >= FailureThresh
  BY <1>5
<1>7. FailureWindow > 0 =>
         \A i \in (k + 1)..(n + 1) : streak'[i] >= streak'[n + 1] - FailureWindow
  BY <1>3, <1>4
<1>8. streak' \in Seq(Nat)
  BY <1>1
<1> QED
  BY <1>3, <1>6, <1>7, <1>8, EnoughForBurst, Zenon

\* Entering Open, from Closed or by a failed probe.
LEMMA OpenHInv ==
    ASSUME IInv, HInv, NEW c \in Callers, Report(c), Observe(c), EnterOpen,
           state # "Open", streak' \in Seq(Nat), StreakOrdered'
    PROVE  HInv'
<1>1. /\ period' = period + 1 /\ trippedAt' = now /\ openedAt' = now
      /\ generation' = generation + 1 /\ epoch' = epoch
      /\ state' = "Open" /\ now \in Nat
  BY ReportKeepsEpochs DEF Observe, Opens, EnterOpen
<1>2. HTypeOK'
  BY <1>1 DEF HInv, HTypeOK
<1>3. PeriodsCounted'
  BY <1>1, ReportKeepsEpochs DEF HInv, HTypeOK, PeriodsCounted
<1>4. CoolDownRemembered'
  BY <1>1 DEF CoolDownRemembered
<1> QED
  BY <1>1, <1>2, <1>3, <1>4, LeaveHInv

\* A failure keeps the invariant.
LEMMA FailureHInv ==
    ASSUME IInv, HInv, NEW c \in Callers, HFailure(c)
    PROVE  HInv'
<1>1. Report(c) /\ Observe(c) /\ ticket[c] # NoTicket /\ now' = now /\ now \in Nat
  BY DEF HFailure, RecordFailure, Report, IInv, TypeOK
<1>2. CASE Ignored(ticket[c])
  <2>1. /\ state' = state /\ failureTimes' = failureTimes
        /\ openedAt' = openedAt /\ generation' = generation
    BY <1>2 DEF HFailure, RecordFailure, breaker
  <2>2. ~OfThisPeriod(c)
    BY <1>1, <1>2, CountsInPeriod DEF OfThisPeriod
  <2>3. streak' = streak
    BY <2>2 DEF HFailure
  <2> QED
    BY <1>1, <2>1, <2>3, IgnoredHInv
<1>3. CASE ~Ignored(ticket[c]) /\ state = "Closed"
  <2>1. FailureEffect /\ OfThisPeriod(c)
    BY <1>1, <1>3, CountsInPeriod DEF HFailure, RecordFailure
  <2>2. streak' = Append(streak, now) /\ failureTimes' = Append(Pruned, now)
    BY <1>3, <2>1 DEF HFailure, FailureEffect
  <2>3. CASE Len(failureTimes') >= FailureThresh
    <3>1. EnterOpen
      BY <1>3, <2>1, <2>3 DEF FailureEffect
    <3>2. streak \in Seq(Nat)
      BY DEF HInv, HTypeOK
    <3>3. PICK n \in Nat : n = Len(streak)
      BY <3>2
    <3>4. /\ Len(streak') = n + 1
          /\ streak'[n + 1] = now
          /\ \A i \in 1..n : streak'[i] = streak[i]
      BY <1>1, <2>2, <3>2, <3>3, Appended, Zenon
    <3>5. StreakOrdered'
      BY <1>1, <3>3, <3>4, AppendOrdered
    <3>6. streak' \in Seq(Nat)
      BY <1>1, <2>2, <3>2
    <3> QED
      BY <1>1, <1>3, <3>1, <3>5, <3>6, OpenHInv
  <2>4. CASE ~(Len(failureTimes') >= FailureThresh)
    <3>1. state' = "Closed" /\ openedAt' = openedAt /\ generation' = generation
      BY <1>3, <2>1, <2>4 DEF FailureEffect
    <3>2. Len(failureTimes') < FailureThresh
      <4>1. failureTimes' \in Seq(Nat)
        BY <2>2, <1>1, PrunedType DEF IInv, TypeOK
      <4>2. Len(failureTimes') \in Nat
        BY <4>1
      <4> QED
        BY <2>4, <4>2, FailureThreshAssumption
    <3> QED
      BY <1>1, <1>3, <2>2, <3>1, <3>2, StillClosedHInv
  <2> QED
    BY <2>3, <2>4
<1>4. CASE ~Ignored(ticket[c]) /\ state # "Closed"
  <2>1. FailureEffect
    BY <1>4 DEF HFailure, RecordFailure
  <2>2. EnterOpen /\ state # "Open"
    BY <1>4, <2>1 DEF FailureEffect
  <2>3. streak' = streak
    BY <1>4 DEF HFailure, OfThisPeriod
  <2>4. streak' \in Seq(Nat) /\ StreakOrdered'
    BY <1>1, <2>3 DEF HInv, HTypeOK, StreakOrdered
  <2> QED
    BY <1>1, <2>2, <2>4, OpenHInv
<1> QED
  BY <1>2, <1>3, <1>4

\* Every step of the breaker with its history is a step of the breaker ...
LEMMA HistoryStep == [HNext]_hvars => [Next]_vars
BY DEF HNext, HAllow, HSuccess, HNeutral, HFailure, HTick, hvars, Next

\* ... and keeps the invariant.
LEMMA NextHInv == IInv /\ HInv /\ [HNext]_hvars => HInv'
<1> SUFFICES ASSUME IInv, HInv, [HNext]_hvars
             PROVE  HInv'
  OBVIOUS
<1>1. ASSUME NEW c \in Callers, HAllow(c)
      PROVE  HInv'
  BY <1>1, AllowHInv
<1>2. ASSUME NEW c \in Callers, HSuccess(c)
      PROVE  HInv'
  BY <1>2, SuccessHInv
<1>3. ASSUME NEW c \in Callers, HNeutral(c)
      PROVE  HInv'
  BY <1>3, NeutralHInv
<1>4. ASSUME NEW c \in Callers, HFailure(c)
      PROVE  HInv'
  BY <1>4, FailureHInv
<1>5. CASE HTick \/ UNCHANGED hvars
  <2>1. /\ state' = state /\ failureTimes' = failureTimes /\ openedAt' = openedAt
        /\ generation' = generation /\ streak' = streak /\ period' = period
        /\ trippedAt' = trippedAt /\ epoch' = epoch /\ ticket' = ticket
        /\ now' = now + 1 \/ now' = now
    BY <1>5 DEF HTick, Tick, breaker, hvars, vars
  <2>2. now' \in Nat /\ now <= now'
    BY <2>1 DEF IInv, TypeOK
  <2>3. /\ epoch' \in [Callers -> Nat]
        /\ \A c \in Callers : ticket'[c] # NoTicket => ticket'[c] = epoch'[c] + 1
    BY <2>1 DEF HInv, HTypeOK, PeriodsCounted
  <2> QED
    BY <2>1, <2>2, <2>3, QuietHInv
<1> QED
  BY <1>1, <1>2, <1>3, <1>4, <1>5 DEF HNext

\* The history only watches: what it sees are executions of the breaker.
THEOREM HistoryOnlyWatches == HSpec => Spec
<1>1. HInit => Init
  BY DEF HInit
<1> QED
  BY <1>1, HistoryStep, PTL DEF HSpec, Spec

\* Both invariants hold in every execution of the breaker with its history.
THEOREM HistoryInvariant == HSpec => [](IInv /\ HInv)
<1>1. HInit => IInv
  BY InitIInv DEF HInit
<1> QED
  BY <1>1, InitHInv, HistoryStep, NextIInv, NextHInv, PTL DEF HSpec

\* A breaker that is closed has not been told of FailureThresh failures within
\* the window and without a success in between, by requests admitted since it
\* closed: pruning and resetting the list never lose a failure that counts
\* (circuitbreaker.go:183-194, 207-219).
THEOREM NoBurstWhileClosed == HSpec => []ClosedMeansNoBurst
<1>1. HInv => ClosedMeansNoBurst
  BY DEF HInv
<1> QED
  BY <1>1, HistoryInvariant, PTL

\* And it opens for no other reason.
THEOREM OpeningNeedsBurst == HSpec => OpensOnlyOnBurst
<1>1. ASSUME IInv, HInv, [HNext]_hvars
      PROVE  [state = "Closed" /\ state' = "Open" => Burst(streak', Len(streak'))]_hvars
  <2> SUFFICES ASSUME HNext, state = "Closed", state' = "Open"
               PROVE  Burst(streak', Len(streak'))
    BY <1>1
  <2>1. PICK c \in Callers : HFailure(c)
    BY DEF HNext, HAllow, Allow, AllowClosed, AllowOpen, AllowHalfOpen, Reject,
           HSuccess, RecordSuccess, SuccessEffect, HNeutral, RecordNeutral,
           NeutralEffect, HTick, Tick, breaker
  <2>2. ~Ignored(ticket[c]) /\ FailureEffect /\ ticket[c] # NoTicket
    BY <2>1 DEF HFailure, RecordFailure, Report, breaker
  <2>3. OfThisPeriod(c)
    BY <1>1, <2>2, CountsInPeriod
  <2>4. streak' = Append(streak, now) /\ failureTimes' = Append(Pruned, now)
    BY <2>1, <2>2, <2>3 DEF HFailure, FailureEffect
  <2>5. Len(failureTimes') >= FailureThresh
    BY <2>2 DEF FailureEffect
  <2> QED
    BY <1>1, <2>4, <2>5, OpenedByBurst
<1> QED
  BY <1>1, HistoryInvariant, PTL DEF HSpec, OpensOnlyOnBurst

\* No request is admitted before the cool-down since the last opening is over,
\* whatever requests, probes and late results there were in between
\* (circuitbreaker.go:107-127, 195-203).
THEOREM CoolDownIsRespected == HSpec => CoolDownRespected
<1>1. ASSUME IInv, HInv, [HNext]_hvars
      PROVE  [\A c \in Callers :
                 (ticket[c] = NoTicket /\ ticket'[c] # NoTicket /\ trippedAt >= 0)
                    => now - trippedAt >= Timeout]_hvars
  <2> SUFFICES ASSUME HNext, NEW c \in Callers, ticket[c] = NoTicket,
                      ticket'[c] # NoTicket, trippedAt >= 0
               PROVE  now - trippedAt >= Timeout
    BY <1>1
  <2>1. ASSUME NEW d \in Callers, Report(d)
        PROVE  FALSE
    BY <1>1, <2>1 DEF Report, IInv, TypeOK
  <2>2. PICK d \in Callers : Allow(d)
    BY <2>1 DEF HNext, HAllow, HSuccess, RecordSuccess, HNeutral, RecordNeutral,
                HFailure, RecordFailure, HTick, Tick
  <2>3. \/ state # "Open"
        \/ state = "Open" /\ CooledDown
    BY <2>2 DEF Allow, AllowClosed, AllowOpen, AllowHalfOpen, Reject
  <2> QED
    BY <1>1, <2>3 DEF HInv, CoolDownRemembered, CooledDown
<1> QED
  BY <1>1, HistoryInvariant, PTL DEF HSpec, CoolDownRespected
=============================================================================
