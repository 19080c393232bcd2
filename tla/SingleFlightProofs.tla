------------------------- MODULE SingleFlightProofs -------------------------
(***************************************************************************)
(* Theorems about singleflight.Group, for every number of goroutines, keys *)
(* and call objects and every acyclic relation Needs.                      *)
(***************************************************************************)
EXTENDS SingleFlight, SequenceTheorems, WellFoundedInduction, TLAPS

-----------------------------------------------------------------------------
(* Facts about the state *)

LEMMA FrameTypes ==
    ASSUME TypeOK
    PROVE  \A h \in Goroutines :
              /\ stack[h] \in Seq(Calls)
              /\ Len(stack[h]) \in Nat
              /\ \A i \in 1..Len(stack[h]) : stack[h][i] \in Calls
              /\ stack[h] # <<>> => /\ Len(stack[h]) \in 1..Len(stack[h])
                                    /\ Top(h) = stack[h][Len(stack[h])]
                                    /\ Top(h) \in Calls
  <1>1. TAKE h \in Goroutines
  <1>2. stack[h] \in Seq(Calls)
    BY DEF TypeOK
  <1>3. Len(stack[h]) \in Nat /\ \A i \in 1..Len(stack[h]) : stack[h][i] \in Calls
    BY <1>2, LenProperties, ElementOfSeq
  <1>4. stack[h] # <<>> => Len(stack[h]) \in 1..Len(stack[h])
    BY <1>2, <1>3, EmptySeq
  <1> QED
    BY <1>2, <1>3, <1>4 DEF Top

LEMMA PushFacts ==
    ASSUME NEW s \in Seq(Calls), NEW c \in Calls
    PROVE  /\ Append(s, c) \in Seq(Calls)
           /\ Len(Append(s, c)) = Len(s) + 1
           /\ \A i \in 1..Len(s) : Append(s, c)[i] = s[i]
           /\ Append(s, c)[Len(s) + 1] = c
  BY AppendProperties

LEMMA PopFacts ==
    ASSUME NEW s \in Seq(Calls), s # <<>>
    PROVE  /\ SubSeq(s, 1, Len(s) - 1) \in Seq(Calls)
           /\ Len(SubSeq(s, 1, Len(s) - 1)) = Len(s) - 1
           /\ \A i \in 1..(Len(s) - 1) : SubSeq(s, 1, Len(s) - 1)[i] = s[i]
  <1>1. PICK n \in Nat \ {0} : n = Len(s)
    BY EmptySeq
  <1>2. \A i \in 1..(n - 1) : s[i] \in Calls
    BY <1>1, ElementOfSeq
  <1> DEFINE t == SubSeq(s, 1, n - 1)
  <1>3. /\ t \in Seq(Calls)
        /\ Len(t) = IF 1 <= n - 1 THEN (n - 1) - 1 + 1 ELSE 0
        /\ \A i \in 1..((n - 1) - 1 + 1) : t[i] = s[1 + i - 1]
    <2>1. 1 \in Int /\ n - 1 \in Int
      OBVIOUS
    <2> QED
      BY <1>2, <2>1, SubSeqProperties
  <1> HIDE DEF t
  <1>4. Len(t) = n - 1
    BY <1>3
  <1>5. ASSUME NEW i \in 1..(n - 1)
        PROVE  t[i] = s[i]
    <2>1. i \in 1..((n - 1) - 1 + 1) /\ 1 + i - 1 = i
      OBVIOUS
    <2> QED
      BY <1>3, <2>1
  <1> QED
    BY <1>1, <1>3, <1>4, <1>5 DEF t

LEMMA InitIInv == Init => IInv
  <1> SUFFICES ASSUME Init PROVE IInv
    OBVIOUS
  <1>1. \A h \in Goroutines : stack[h] = <<>> /\ Len(stack[h]) = 0
    BY DEF Init
  <1>2. TypeOK
    BY DEF Init, TypeOK
  <1>3. FramesOpen /\ OneFlightPerKey /\ RanksDecrease
    BY <1>1 DEF FramesOpen, OneFlightPerKey, RanksDecrease
  <1>4. OpenIsLed /\ EntriesLinked /\ ClosedHasResult
    BY DEF Init, OpenIsLed, EntriesLinked, ClosedHasResult
  <1>5. StagesFit /\ WaitersHold
    BY DEF Init, StagesFit, WaitersHold
  <1> QED
    BY <1>2, <1>3, <1>4, <1>5 DEF IInv

\* What fn of a goroutine loads in a new flight or waits for ranks below every
\* call the goroutine leads.
LEMMA CallingLowersRank ==
    ASSUME IInv, NEW g \in Goroutines, NEW k \in Keys, Calling(g, k),
           m[k] = Nil \/ ~Reenters(g, k), NEW i \in 1..Len(stack[g])
    PROVE  Rank[k] < Rank[call[stack[g][i]].key]
  <1>1. TypeOK /\ pc[g] = "run"
    BY DEF IInv, Calling
  <1>2. \A j \in 1..Len(stack[g]) :
           /\ stack[g][j] \in Calls /\ stack[g][j] # Nil
           /\ call[stack[g][j]] \in CallRecord
           /\ call[stack[g][j]].leader = g
           /\ m[call[stack[g][j]].key] = stack[g][j]
    BY <1>1, FrameTypes, NilAssumption
       DEF IInv, FramesOpen, OneFlightPerKey, Linked, TypeOK
  \* A key the goroutine is loading already would be found, as its own.
  <1>3. \A c \in Leading(g) : call[c].key # k
    BY <1>2 DEF Leading, Reenters
  <1>4. stack[g] # <<>> /\ Len(stack[g]) \in 1..Len(stack[g])
    BY <1>1, FrameTypes
  <1>5. k \in Needs[call[Top(g)].key]
    BY <1>3, <1>4 DEF Calling
  <1>6. call[stack[g][Len(stack[g])]].key \in Keys /\ call[stack[g][i]].key \in Keys
    BY <1>2, <1>4 DEF CallRecord
  <1>7. Rank[k] < Rank[call[stack[g][Len(stack[g])]].key]
    BY <1>5, <1>6, RankAssumption DEF Top
  <1>8. i # Len(stack[g]) =>
           Rank[call[stack[g][Len(stack[g])]].key] < Rank[call[stack[g][i]].key]
    BY <1>1, <1>4, FrameTypes DEF IInv, RanksDecrease
  <1>9. Rank[k] \in Nat /\ Rank[call[stack[g][i]].key] \in Nat
        /\ Rank[call[stack[g][Len(stack[g])]].key] \in Nat
    BY <1>6, RankAssumption
  <1> QED
    BY <1>7, <1>8, <1>9

-----------------------------------------------------------------------------
(* Lead *)

LEMMA LeadKeepsIInv ==
    ASSUME IInv, NEW g \in Goroutines, NEW k \in Keys, Lead(g, k)
    PROVE  IInv'
  <1> USE FrameTypes
  <1>1. PICK c \in Calls :
           /\ Free(c)
           /\ call' = [call EXCEPT ![c] = [key |-> k, leader |-> g,
                                           open |-> TRUE, res |-> "nil"]]
           /\ m' = [m EXCEPT ![k] = c]
           /\ stack' = [stack EXCEPT ![g] = Append(@, c)]
    BY DEF Lead
  <1>2. /\ TypeOK
        /\ pc' = pc /\ awaits' = awaits /\ pc[g] = "run"
        /\ m[k] = Nil
        /\ call[c] = Nil
    BY <1>1 DEF IInv, Lead, Calling, Absent, Free
  <1>3. /\ call'[c] = [key |-> k, leader |-> g, open |-> TRUE, res |-> "nil"]
        /\ call'[c] # Nil
        /\ \A d \in Calls : d # c => call'[d] = call[d]
        /\ call' \in [Calls -> CallRecord \cup {Nil}]
    <2>1. [key |-> k, leader |-> g, open |-> TRUE, res |-> "nil"] \in CallRecord
      BY DEF CallRecord, Results
    <2> QED
      BY <1>1, <1>2, <2>1, NilAssumption DEF TypeOK
  <1>4. /\ m'[k] = c
        /\ \A j \in Keys : j # k => m'[j] = m[j]
        /\ m' \in [Keys -> Calls \cup {Nil}]
    BY <1>1, <1>2 DEF TypeOK
  <1>5. /\ stack' \in [Goroutines -> Seq(Calls)]
        /\ Len(stack'[g]) = Len(stack[g]) + 1
        /\ \A i \in 1..Len(stack[g]) : stack'[g][i] = stack[g][i]
        /\ stack'[g][Len(stack[g]) + 1] = c
        /\ \A h \in Goroutines : h # g => stack'[h] = stack[h]
    <2>1. stack'[g] = Append(stack[g], c)
      BY <1>1, <1>2 DEF TypeOK
    <2>2. Append(stack[g], c) \in Seq(Calls)
      BY <1>2, PushFacts
    <2> QED
      BY <1>1, <1>2, <2>1, <2>2, PushFacts DEF TypeOK
  \* The new call is on no stack, and no goroutine waits for it.
  <1>6. \A h \in Goroutines : \A i \in 1..Len(stack[h]) :
           stack[h][i] \in Calls /\ stack[h][i] # c
    BY <1>2 DEF IInv, FramesOpen
  <1>7. \A h \in Goroutines : pc[h] = "wait" => awaits[h] \in Calls /\ awaits[h] # c
    BY <1>2 DEF IInv, WaitersHold, StagesFit, TypeOK
  <1>8. \A j \in Keys : m[j] # Nil => m[j] \in Calls /\ m[j] # c
    BY <1>2 DEF IInv, EntriesLinked, TypeOK
  \* Every frame is an old one or the new one.
  <1>9. \A h \in Goroutines : \A i \in 1..Len(stack'[h]) :
           \/ i \in 1..Len(stack[h]) /\ stack'[h][i] = stack[h][i]
           \/ h = g /\ i = Len(stack[g]) + 1 /\ stack'[h][i] = c
    BY <1>2, <1>5
  <1>10. \A h \in Goroutines : \A i \in 1..Len(stack[h]) :
           i \in 1..Len(stack'[h]) /\ stack'[h][i] = stack[h][i]
    BY <1>2, <1>5
  <1>11. TypeOK'
    BY <1>2, <1>3, <1>4, <1>5 DEF TypeOK
  <1>12. FramesOpen'
    <2>1. ASSUME NEW h \in Goroutines, NEW i \in 1..Len(stack'[h])
          PROVE  /\ call'[stack'[h][i]] # Nil
                 /\ call'[stack'[h][i]].leader = h
                 /\ call'[stack'[h][i]].open
      <3>1. CASE i \in 1..Len(stack[h]) /\ stack'[h][i] = stack[h][i]
        BY <3>1, <1>3, <1>6 DEF IInv, FramesOpen
      <3>2. CASE h = g /\ stack'[h][i] = c
        BY <3>2, <1>3
      <3> QED
        BY <1>9, <3>1, <3>2
    <2>2. ASSUME NEW h \in Goroutines, NEW i \in 1..Len(stack'[h]),
                 NEW j \in 1..Len(stack'[h]), stack'[h][i] = stack'[h][j]
          PROVE  i = j
      <3>1. CASE /\ i \in 1..Len(stack[h]) /\ stack'[h][i] = stack[h][i]
                 /\ j \in 1..Len(stack[h]) /\ stack'[h][j] = stack[h][j]
        <4>1. stack[h][i] = stack[h][j]
          BY <2>2, <3>1
        <4> QED
          BY <3>1, <4>1 DEF IInv, FramesOpen
      <3> QED
        BY <2>2, <3>1, <1>6, <1>9
    <2> QED
      BY <2>1, <2>2 DEF FramesOpen
  <1>13. OneFlightPerKey'
    <2> SUFFICES ASSUME NEW h \in Goroutines, NEW i \in 1..Len(stack'[h]), Linked(h, i)'
                 PROVE  m'[call'[stack'[h][i]].key] = stack'[h][i]
      BY DEF OneFlightPerKey
    <2>1. CASE h = g /\ stack'[h][i] = c
      BY <2>1, <1>3, <1>4
    <2>2. CASE i \in 1..Len(stack[h]) /\ stack'[h][i] = stack[h][i]
      <3>1. Linked(h, i)
        BY <2>2, <1>2, <1>5 DEF Linked
      <3>2. m[call[stack[h][i]].key] = stack[h][i] /\ stack[h][i] # Nil
        BY <2>2, <3>1, <1>2, NilAssumption DEF IInv, OneFlightPerKey
      <3>3. call[stack[h][i]].key \in Keys
        BY <2>2, <1>2, <1>6 DEF IInv, FramesOpen, TypeOK, CallRecord
      <3> QED
        BY <2>2, <3>2, <3>3, <1>2, <1>3, <1>4, <1>6
    <2> QED
      BY <2>1, <2>2, <1>9
  <1>14. OpenIsLed'
    <2> SUFFICES ASSUME NEW d \in Calls, call'[d] # Nil, call'[d].open
                 PROVE  \E i \in 1..Len(stack'[call'[d].leader]) :
                           stack'[call'[d].leader][i] = d
      BY DEF OpenIsLed, Leading
    <2>1. CASE d = c
      BY <2>1, <1>2, <1>3, <1>5
    <2>2. CASE d # c
      <3>1. call[d].leader \in Goroutines
        BY <2>2, <1>2, <1>3 DEF TypeOK, CallRecord
      <3>2. \E i \in 1..Len(stack[call[d].leader]) : stack[call[d].leader][i] = d
        BY <2>2, <1>3 DEF IInv, OpenIsLed, Leading
      <3> QED
        BY <2>2, <3>1, <3>2, <1>3, <1>10
    <2> QED
      BY <2>1, <2>2
  <1>15. EntriesLinked'
    <2> SUFFICES ASSUME NEW j \in Keys, m'[j] # Nil
                 PROVE  /\ call'[m'[j]] # Nil
                        /\ call'[m'[j]].key = j
                        /\ \E h \in Goroutines : \E i \in 1..Len(stack'[h]) :
                              stack'[h][i] = m'[j] /\ Linked(h, i)'
      BY DEF EntriesLinked
    <2>1. CASE j = k
      <3>1. \A i \in Nat : Linked(g, i)'
        BY <1>2 DEF Linked
      <3>2. Len(stack[g]) + 1 \in 1..Len(stack'[g])
        BY <1>2, <1>5
      <3>3. \E i \in 1..Len(stack'[g]) : stack'[g][i] = m'[j] /\ Linked(g, i)'
        BY <2>1, <3>1, <3>2, <1>2, <1>4, <1>5
      <3> QED
        BY <2>1, <3>3, <1>3, <1>4
    <2>2. CASE j # k
      <3>1. PICK h \in Goroutines : \E i \in 1..Len(stack[h]) :
               stack[h][i] = m[j] /\ Linked(h, i)
        BY <2>2, <1>4 DEF IInv, EntriesLinked
      <3>2. PICK i \in 1..Len(stack[h]) : stack[h][i] = m[j] /\ Linked(h, i)
        BY <3>1
      <3>3. Linked(h, i)'
        BY <3>2, <1>2, <1>5 DEF Linked
      <3>4. i \in 1..Len(stack'[h]) /\ stack'[h][i] = m'[j]
        BY <2>2, <3>2, <1>4, <1>10
      <3>5. call'[m'[j]] # Nil /\ call'[m'[j]].key = j
        BY <2>2, <1>3, <1>4, <1>8 DEF IInv, EntriesLinked
      <3> QED
        BY <3>3, <3>4, <3>5
    <2> QED
      BY <2>1, <2>2
  <1>16. StagesFit'
    <2> SUFFICES ASSUME NEW h \in Goroutines
                 PROVE  /\ pc[h] = "wait" <=> awaits[h] # Nil
                        /\ pc[h] \in {"unlink", "notify"} =>
                              stack'[h] # <<>> /\ call'[Top(h)'].res # "nil"
      BY <1>2 DEF StagesFit
    <2>1. CASE h = g
      BY <2>1, <1>2 DEF IInv, StagesFit
    <2>2. CASE h # g
      <3>1. stack'[h] = stack[h] /\ Top(h)' = Top(h)
        BY <2>2, <1>5 DEF Top
      <3> QED
        BY <3>1, <1>2, <1>3, <1>6 DEF IInv, StagesFit
    <2> QED
      BY <2>1, <2>2
  <1>17. WaitersHold'
    BY <1>2, <1>3, <1>7 DEF IInv, WaitersHold
  <1>18. ClosedHasResult'
    BY <1>3 DEF IInv, ClosedHasResult
  <1>19. RanksDecrease'
    <2> SUFFICES ASSUME NEW h \in Goroutines, NEW i \in 1..Len(stack'[h])
                 PROVE  /\ \A j \in 1..Len(stack'[h]) : i < j =>
                              Rank[call'[stack'[h][j]].key] < Rank[call'[stack'[h][i]].key]
                        /\ pc[h] = "wait" =>
                              Rank[call'[awaits[h]].key] < Rank[call'[stack'[h][i]].key]
      BY <1>2 DEF RanksDecrease
    <2>1. CASE h # g
      <3>1. stack'[h] = stack[h]
        BY <2>1, <1>5
      <3>2. \A j \in 1..Len(stack[h]) : call'[stack[h][j]] = call[stack[h][j]]
        BY <1>3, <1>6
      <3>3. pc[h] = "wait" => call'[awaits[h]] = call[awaits[h]]
        BY <1>3, <1>7
      <3> QED
        BY <3>1, <3>2, <3>3 DEF IInv, RanksDecrease
    <2>2. CASE h = g
      <3>1. ASSUME i \in 1..Len(stack[g])
            PROVE  Rank[k] < Rank[call[stack[g][i]].key]
        BY <3>1, CallingLowersRank, <1>2 DEF Lead
      <3>2. \A j \in 1..Len(stack[g]) : call'[stack[g][j]] = call[stack[g][j]]
        BY <1>3, <1>6
      <3>3. ASSUME NEW j \in 1..Len(stack'[g]), i < j
            PROVE  Rank[call'[stack'[g][j]].key] < Rank[call'[stack'[g][i]].key]
        <4>1. i \in 1..Len(stack[g]) /\ stack'[g][i] = stack[g][i]
          BY <2>2, <3>3, <1>2, <1>5
        <4>2. CASE j \in 1..Len(stack[g]) /\ stack'[g][j] = stack[g][j]
          BY <3>2, <3>3, <4>1, <4>2 DEF IInv, RanksDecrease
        <4>3. CASE stack'[g][j] = c
          BY <3>1, <3>2, <4>1, <4>3, <1>3
        <4> QED
          BY <4>2, <4>3, <1>9
      <3> QED
        BY <2>2, <3>3, <1>2
    <2> QED
      BY <2>1, <2>2
  <1> QED
    BY <1>11, <1>12, <1>13, <1>14, <1>15, <1>16, <1>17, <1>18, <1>19 DEF IInv

-----------------------------------------------------------------------------
(* Reentrant, Join and Wake *)

LEMMA ReentrantKeepsIInv ==
    ASSUME IInv, UNCHANGED vars
    PROVE  IInv'
  BY DEF IInv, vars, TypeOK, FramesOpen, OneFlightPerKey, OpenIsLed, EntriesLinked,
         StagesFit, WaitersHold, ClosedHasResult, RanksDecrease, Linked, Leading, Top

LEMMA JoinKeepsIInv ==
    ASSUME IInv, NEW g \in Goroutines, NEW k \in Keys, Join(g, k)
    PROVE  IInv'
  <1>1. /\ TypeOK
        /\ m' = m /\ call' = call /\ stack' = stack
        /\ pc[g] = "run" /\ m[k] # Nil /\ ~Reenters(g, k)
    BY DEF IInv, Join, Calling
  <1>2. /\ pc'[g] = "wait" /\ awaits'[g] = m[k]
        /\ \A h \in Goroutines : h # g => pc'[h] = pc[h] /\ awaits'[h] = awaits[h]
    BY <1>1 DEF Join, TypeOK
  <1>3. m[k] \in Calls /\ call[m[k]] # Nil /\ call[m[k]].key = k /\ call[m[k]].leader # g
    BY <1>1 DEF IInv, EntriesLinked, Reenters, TypeOK
  <1>4. \A h \in Goroutines : \A i : Linked(h, i)' <=> Linked(h, i)
    BY <1>1, <1>2 DEF Linked
  <1>5. TypeOK'
    BY <1>1, <1>3 DEF Join, TypeOK
  <1>6. FramesOpen' /\ OpenIsLed' /\ ClosedHasResult'
    BY <1>1 DEF IInv, FramesOpen, OpenIsLed, ClosedHasResult, Leading
  <1>7. OneFlightPerKey'
    BY <1>1, <1>4 DEF IInv, OneFlightPerKey
  <1>8. EntriesLinked'
    BY <1>1, <1>4 DEF IInv, EntriesLinked
  <1>9. StagesFit'
    <2> SUFFICES ASSUME NEW h \in Goroutines
                 PROVE  /\ pc'[h] = "wait" <=> awaits'[h] # Nil
                        /\ pc'[h] \in {"unlink", "notify"} =>
                              stack[h] # <<>> /\ call[Top(h)].res # "nil"
      BY <1>1 DEF StagesFit, Top
    <2> QED
      BY <1>1, <1>2 DEF IInv, StagesFit
  <1>10. WaitersHold'
    BY <1>1, <1>2, <1>3 DEF IInv, WaitersHold
  <1>11. RanksDecrease'
    <2> SUFFICES ASSUME NEW h \in Goroutines, NEW i \in 1..Len(stack[h])
                 PROVE  /\ \A j \in 1..Len(stack[h]) : i < j =>
                              Rank[call[stack[h][j]].key] < Rank[call[stack[h][i]].key]
                        /\ pc'[h] = "wait" =>
                              Rank[call[awaits'[h]].key] < Rank[call[stack[h][i]].key]
      BY <1>1 DEF RanksDecrease
    <2>1. \A j \in 1..Len(stack[h]) : i < j =>
             Rank[call[stack[h][j]].key] < Rank[call[stack[h][i]].key]
      BY DEF IInv, RanksDecrease
    <2>2. CASE h = g
      <3>1. Rank[k] < Rank[call[stack[g][i]].key]
        BY <2>2, <1>1, CallingLowersRank DEF Join
      <3> QED
        BY <2>1, <2>2, <3>1, <1>2, <1>3
    <2>3. CASE h # g
      BY <2>1, <2>3, <1>2 DEF IInv, RanksDecrease
    <2> QED
      BY <2>2, <2>3
  <1> QED
    BY <1>5, <1>6, <1>7, <1>8, <1>9, <1>10, <1>11 DEF IInv

LEMMA WakeKeepsIInv ==
    ASSUME IInv, NEW g \in Goroutines, Wake(g)
    PROVE  IInv'
  <1> DEFINE a == awaits[g]
  <1>1. /\ TypeOK
        /\ m' = m /\ stack' = stack
        /\ pc[g] = "wait" /\ ~call[a].open
    BY DEF IInv, Wake
  <1>2. /\ pc'[g] = "run" /\ awaits'[g] = Nil
        /\ \A h \in Goroutines : h # g => pc'[h] = pc[h] /\ awaits'[h] = awaits[h]
    BY <1>1 DEF Wake, TypeOK
  <1>3. a \in Calls
    BY <1>1 DEF IInv, StagesFit, TypeOK
  <1>4. /\ call'[a] = IF Waiters(a) = {g} THEN Nil ELSE call[a]
        /\ \A d \in Calls : d # a => call'[d] = call[d]
    BY <1>1, <1>3 DEF Wake, TypeOK
  \* The call left for good is on no stack and nobody else waits for it.
  <1>5. \A h \in Goroutines : \A i \in 1..Len(stack[h]) :
           stack[h][i] \in Calls /\ stack[h][i] # a
    BY <1>1, FrameTypes DEF IInv, FramesOpen
  <1>6. \A j \in Keys : m[j] # Nil => m[j] \in Calls /\ m[j] # a
    BY <1>1, <1>5 DEF IInv, EntriesLinked, TypeOK
  <1>7. \A h \in Goroutines : h # g /\ pc[h] = "wait" =>
           awaits[h] \in Calls /\ call'[awaits[h]] = call[awaits[h]]
    <2> SUFFICES ASSUME NEW h \in Goroutines, h # g, pc[h] = "wait"
                 PROVE  awaits[h] \in Calls /\ call'[awaits[h]] = call[awaits[h]]
      OBVIOUS
    <2>1. awaits[h] \in Calls
      BY <1>1 DEF IInv, StagesFit, TypeOK
    <2>2. awaits[h] = a => Waiters(a) # {g}
      BY DEF Waiters
    <2> QED
      BY <2>1, <2>2, <1>4
  <1>8. \A h \in Goroutines : \A i : Linked(h, i)' <=> Linked(h, i)
    BY <1>1, <1>2 DEF Linked
  <1> HIDE DEF a
  <1>9. TypeOK'
    <2>1. call' \in [Calls -> CallRecord \cup {Nil}]
      BY <1>1 DEF Wake, TypeOK
    <2> QED
      BY <1>1, <2>1 DEF Wake, TypeOK
  <1>10. FramesOpen'
    BY <1>1, <1>4, <1>5 DEF IInv, FramesOpen
  <1>11. OpenIsLed'
    <2> SUFFICES ASSUME NEW d \in Calls, call'[d] # Nil, call'[d].open
                 PROVE  d \in Leading(call'[d].leader)
      BY <1>1 DEF OpenIsLed, Leading
    <2>1. d # a
      BY <1>1, <1>4 DEF a
    <2> QED
      BY <2>1, <1>4 DEF IInv, OpenIsLed
  <1>12. OneFlightPerKey'
    BY <1>1, <1>4, <1>5, <1>8 DEF IInv, OneFlightPerKey
  <1>13. EntriesLinked'
    BY <1>1, <1>4, <1>6, <1>8 DEF IInv, EntriesLinked
  <1>14. StagesFit'
    <2> SUFFICES ASSUME NEW h \in Goroutines
                 PROVE  /\ pc'[h] = "wait" <=> awaits'[h] # Nil
                        /\ pc'[h] \in {"unlink", "notify"} =>
                              stack[h] # <<>> /\ call'[Top(h)].res # "nil"
      BY <1>1 DEF StagesFit, Top
    <2>1. CASE h = g
      BY <2>1, <1>2
    <2>2. CASE h # g
      <3>1. stack[h] # <<>> => call'[Top(h)] = call[Top(h)]
        BY <1>1, <1>4, <1>5, FrameTypes
      <3> QED
        BY <2>2, <3>1, <1>2 DEF IInv, StagesFit
    <2> QED
      BY <2>1, <2>2
  <1>15. WaitersHold'
    BY <1>2, <1>7 DEF IInv, WaitersHold
  <1>16. ClosedHasResult'
    BY <1>4 DEF IInv, ClosedHasResult
  <1>17. RanksDecrease'
    BY <1>1, <1>2, <1>4, <1>5, <1>7 DEF IInv, RanksDecrease
  <1> QED
    BY <1>9, <1>10, <1>11, <1>12, <1>13, <1>14, <1>15, <1>16, <1>17 DEF IInv

-----------------------------------------------------------------------------
(* Finish, Unlink and Notify *)

\* No call object is on two stacks, or twice on one.
LEMMA FramesDiffer ==
    ASSUME FramesOpen,
           NEW g \in Goroutines, NEW i \in 1..Len(stack[g]),
           NEW h \in Goroutines, NEW j \in 1..Len(stack[h]),
           stack[g][i] = stack[h][j]
    PROVE  g = h /\ i = j
  <1>1. g = h
    BY DEF FramesOpen
  <1> QED
    BY <1>1 DEF FramesOpen

LEMMA FinishKeepsIInv ==
    ASSUME IInv, NEW g \in Goroutines, Finish(g)
    PROVE  IInv'
  <1> DEFINE t == Top(g)
  <1>1. /\ TypeOK
        /\ m' = m /\ stack' = stack /\ awaits' = awaits
        /\ pc[g] = "run" /\ stack[g] # <<>>
    BY DEF IInv, Finish
  <1>2. /\ Len(stack[g]) \in 1..Len(stack[g])
        /\ t = stack[g][Len(stack[g])] /\ t \in Calls
    BY <1>1, FrameTypes
  <1>3. /\ call[t] # Nil /\ call[t] \in CallRecord /\ call[t].open
    BY <1>1, <1>2 DEF IInv, FramesOpen, TypeOK
  <1>4. PICK r \in {"returned", "panicked"} : call' = [call EXCEPT ![t].res = r]
    BY DEF Finish, ResultOf
  <1>5. /\ pc'[g] = "unlink"
        /\ \A h \in Goroutines : h # g => pc'[h] = pc[h]
    BY <1>1 DEF Finish, TypeOK
  <1> HIDE DEF t
  <1>6. /\ call'[t] \in CallRecord /\ call'[t] # Nil
        /\ call'[t].key = call[t].key /\ call'[t].leader = call[t].leader
        /\ call'[t].open /\ call'[t].res # "nil"
        /\ \A d \in Calls : d # t => call'[d] = call[d]
        /\ call' \in [Calls -> CallRecord \cup {Nil}]
    <2>1. call'[t] = [call[t] EXCEPT !.res = r]
      BY <1>1, <1>2, <1>4 DEF TypeOK
    <2>2. /\ call'[t] \in CallRecord
          /\ call'[t].key = call[t].key /\ call'[t].leader = call[t].leader
          /\ call'[t].open = call[t].open /\ call'[t].res = r
      BY <1>3, <2>1 DEF CallRecord, Results
    <2>3. \A d \in Calls : d # t => call'[d] = call[d]
      BY <1>1, <1>4 DEF TypeOK
    <2>4. call' \in [Calls -> CallRecord \cup {Nil}]
      BY <1>1, <1>2, <1>4, <2>1, <2>2 DEF TypeOK
    <2> QED
      BY <1>3, <2>2, <2>3, <2>4, NilAssumption
  \* Only the result of the call changes.
  <1>7. \A d \in Calls : /\ call'[d] = Nil <=> call[d] = Nil
                         /\ call[d] # Nil => /\ call'[d].key = call[d].key
                                             /\ call'[d].leader = call[d].leader
                                             /\ call'[d].open = call[d].open
    <2> TAKE d \in Calls
    <2>1. CASE d = t
      BY <2>1, <1>3, <1>6
    <2>2. CASE d # t
      BY <2>2, <1>6
    <2> QED
      BY <2>1, <2>2
  <1>8. \A h \in Goroutines : \A i : Linked(h, i)' <=> Linked(h, i)
    BY <1>1, <1>5 DEF Linked
  <1>9. \A h \in Goroutines : \A i \in 1..Len(stack[h]) : stack[h][i] \in Calls
    BY <1>1, FrameTypes
  <1>10. TypeOK'
    BY <1>1, <1>6 DEF Finish, TypeOK
  <1>11. FramesOpen'
    BY <1>1, <1>7, <1>9 DEF IInv, FramesOpen
  <1>12. OneFlightPerKey'
    BY <1>1, <1>7, <1>8, <1>9 DEF IInv, OneFlightPerKey, FramesOpen
  <1>13. OpenIsLed'
    BY <1>1, <1>7 DEF IInv, OpenIsLed, Leading
  <1>14. EntriesLinked'
    BY <1>1, <1>7, <1>8 DEF IInv, EntriesLinked, TypeOK
  <1>15. StagesFit'
    <2> SUFFICES ASSUME NEW h \in Goroutines
                 PROVE  /\ pc'[h] = "wait" <=> awaits[h] # Nil
                        /\ pc'[h] \in {"unlink", "notify"} =>
                              stack[h] # <<>> /\ call'[Top(h)].res # "nil"
      BY <1>1 DEF StagesFit, Top
    <2>1. CASE h = g
      BY <2>1, <1>1, <1>5, <1>6 DEF IInv, StagesFit, t
    <2>2. CASE h # g
      <3>1. stack[h] # <<>> => Top(h) \in Calls /\ Top(h) # t
        BY <2>2, <1>1, <1>2, FrameTypes, FramesDiffer DEF IInv
      <3> QED
        BY <2>2, <3>1, <1>5, <1>6 DEF IInv, StagesFit
    <2> QED
      BY <2>1, <2>2
  <1>16. \A h \in Goroutines : pc'[h] = "wait" =>
            pc[h] = "wait" /\ awaits[h] \in Calls /\ call[awaits[h]] # Nil
    BY <1>1, <1>5 DEF IInv, StagesFit, WaitersHold, TypeOK
  <1>17. WaitersHold'
    BY <1>1, <1>7, <1>16 DEF IInv, WaitersHold
  <1>18. ClosedHasResult'
    BY <1>6, <1>7 DEF IInv, ClosedHasResult
  <1>19. RanksDecrease'
    <2>1. \A h \in Goroutines : \A i \in 1..Len(stack[h]) :
             call'[stack[h][i]].key = call[stack[h][i]].key
      BY <1>7, <1>9 DEF IInv, FramesOpen
    <2>2. \A h \in Goroutines : pc'[h] = "wait" =>
             call'[awaits[h]].key = call[awaits[h]].key
      BY <1>7, <1>16
    <2> QED
      BY <2>1, <2>2, <1>1, <1>16 DEF IInv, RanksDecrease
  <1> QED
    BY <1>10, <1>11, <1>12, <1>13, <1>14, <1>15, <1>17, <1>18, <1>19 DEF IInv

LEMMA UnlinkKeepsIInv ==
    ASSUME IInv, NEW g \in Goroutines, Unlink(g)
    PROVE  IInv'
  <1> DEFINE t == Top(g)
             k == call[t].key
  <1>1. /\ TypeOK
        /\ call' = call /\ stack' = stack /\ awaits' = awaits
        /\ pc[g] = "unlink" /\ stack[g] # <<>> /\ call[t].res # "nil"
    BY DEF IInv, Unlink, StagesFit
  <1>2. /\ Len(stack[g]) \in 1..Len(stack[g])
        /\ t = stack[g][Len(stack[g])] /\ t \in Calls
    BY <1>1, FrameTypes
  <1>3. k \in Keys
    BY <1>1, <1>2 DEF IInv, FramesOpen, TypeOK, CallRecord
  <1>4. m[k] = t
    BY <1>1, <1>2 DEF IInv, OneFlightPerKey, Linked
  <1>5. m'[k] = Nil /\ \A j \in Keys : j # k => m'[j] = m[j]
    BY <1>1, <1>3 DEF Unlink, TypeOK
  <1>6. /\ pc'[g] = "notify"
        /\ \A h \in Goroutines : h # g => pc'[h] = pc[h]
    BY <1>1 DEF Unlink, TypeOK
  <1> HIDE DEF t, k
  <1>7. TypeOK'
    BY <1>1, <1>5 DEF Unlink, TypeOK, k
  <1>8. FramesOpen' /\ OpenIsLed' /\ ClosedHasResult'
    BY <1>1 DEF IInv, FramesOpen, OpenIsLed, ClosedHasResult, Leading
  \* The frames other than the one whose call was deleted stay linked.
  <1>9. \A h \in Goroutines : \A i \in 1..Len(stack[h]) :
           stack[h][i] # t => (Linked(h, i)' <=> Linked(h, i))
    BY <1>1, <1>2, <1>6, FrameTypes DEF Linked
  <1>10. \A i : Linked(g, i)' => i < Len(stack[g])
    BY <1>1, <1>6 DEF Linked
  <1>11. OneFlightPerKey'
    <2> SUFFICES ASSUME NEW h \in Goroutines, NEW i \in 1..Len(stack[h]), Linked(h, i)'
                 PROVE  m'[call[stack[h][i]].key] = stack[h][i]
      BY <1>1 DEF OneFlightPerKey
    <2>1. stack[h][i] # t
      <3>1. SUFFICES ASSUME stack[h][i] = t PROVE FALSE
        OBVIOUS
      <3>2. h = g /\ i = Len(stack[g])
        BY <3>1, <1>2, FramesDiffer DEF IInv
      <3> QED
        BY <3>2, <1>1, <1>2, <1>10, FrameTypes
    <2>2. m[call[stack[h][i]].key] = stack[h][i]
      BY <2>1, <1>9 DEF IInv, OneFlightPerKey
    <2>3. call[stack[h][i]].key \in Keys
      BY <1>1, FrameTypes DEF IInv, FramesOpen, TypeOK, CallRecord
    <2> QED
      BY <2>1, <2>2, <2>3, <1>4, <1>5
  <1>12. EntriesLinked'
    <2> SUFFICES ASSUME NEW j \in Keys, m'[j] # Nil
                 PROVE  /\ call[m'[j]] # Nil
                        /\ call[m'[j]].key = j
                        /\ \E h \in Goroutines : \E i \in 1..Len(stack[h]) :
                              stack[h][i] = m'[j] /\ Linked(h, i)'
      BY <1>1 DEF EntriesLinked
    <2>1. j # k /\ m'[j] = m[j]
      BY <1>5
    <2>2. /\ call[m[j]] # Nil
          /\ call[m[j]].key = j
          /\ \E h \in Goroutines : \E i \in 1..Len(stack[h]) :
                stack[h][i] = m[j] /\ Linked(h, i)
      BY <2>1 DEF IInv, EntriesLinked
    <2>3. m[j] # t
      BY <2>1, <2>2 DEF k
    <2> QED
      BY <2>1, <2>2, <2>3, <1>9
  <1>13. StagesFit'
    BY <1>1, <1>6 DEF IInv, StagesFit, Top, t
  <1>14. WaitersHold' /\ RanksDecrease'
    BY <1>1, <1>6 DEF IInv, WaitersHold, RanksDecrease
  <1> QED
    BY <1>7, <1>8, <1>11, <1>12, <1>13, <1>14 DEF IInv

LEMMA NotifyKeepsIInv ==
    ASSUME IInv, NEW g \in Goroutines, Notify(g)
    PROVE  IInv'
  <1> DEFINE t == Top(g)
             n == Len(stack[g])
  <1>1. /\ TypeOK
        /\ m' = m /\ awaits' = awaits
        /\ pc[g] = "notify" /\ stack[g] # <<>> /\ call[t].res # "nil"
    BY DEF IInv, Notify, StagesFit
  <1>2. n \in Nat /\ n \in 1..n /\ t = stack[g][n] /\ t \in Calls
    BY <1>1, FrameTypes
  <1>3. call[t] # Nil /\ call[t] \in CallRecord /\ call[t].leader = g
    BY <1>1, <1>2 DEF IInv, FramesOpen, TypeOK
  <1>4. /\ pc'[g] = "run"
        /\ \A h \in Goroutines : h # g => pc'[h] = pc[h]
    BY <1>1 DEF Notify, TypeOK
  \* The stack of g loses its innermost call, the other stacks stay.
  <1>5. /\ stack'[g] \in Seq(Calls)
        /\ Len(stack'[g]) = n - 1
        /\ \A i \in 1..(n - 1) : stack'[g][i] = stack[g][i]
        /\ \A h \in Goroutines : h # g => stack'[h] = stack[h]
    <2>1. /\ stack'[g] = SubSeq(stack[g], 1, Len(stack[g]) - 1)
          /\ \A h \in Goroutines : h # g => stack'[h] = stack[h]
      BY <1>1 DEF Notify, TypeOK
    <2>2. stack[g] \in Seq(Calls)
      BY <1>1, FrameTypes
    <2> QED
      BY <2>1, <2>2, <1>1, PopFacts
  \* The call is freed, or closed if somebody waits for it.
  <1>6. /\ \A d \in Calls : d # t => call'[d] = call[d]
        /\ call'[t] = Nil \/ (/\ call'[t] \in CallRecord /\ ~call'[t].open
                              /\ call'[t].key = call[t].key
                              /\ call'[t].leader = g
                              /\ call'[t].res # "nil")
        /\ Waiters(t) # {} => call'[t] # Nil
        /\ call' \in [Calls -> CallRecord \cup {Nil}]
    <2>1. call'[t] = IF Waiters(t) = {} THEN Nil ELSE Done(call[t])
      BY <1>1, <1>2 DEF Notify, TypeOK
    <2>2. \A d \in Calls : d # t => call'[d] = call[d]
      BY <1>1 DEF Notify, TypeOK
    <2>3. /\ Done(call[t]) \in CallRecord /\ ~Done(call[t]).open
          /\ Done(call[t]).key = call[t].key /\ Done(call[t]).leader = call[t].leader
          /\ Done(call[t]).res = call[t].res
      BY <1>3 DEF Done, CallRecord
    <2>4. call'[t] \in CallRecord \cup {Nil}
      BY <2>1, <2>3
    <2>5. call' \in [Calls -> CallRecord \cup {Nil}]
      BY <1>1, <2>2, <2>4 DEF Notify, TypeOK
    <2> HIDE DEF t
    <2>6. CASE Waiters(t) = {}
      BY <2>1, <2>2, <2>5, <2>6
    <2>7. CASE Waiters(t) # {}
      BY <1>1, <1>3, <2>1, <2>2, <2>3, <2>5, <2>7, NilAssumption
    <2> QED
      BY <2>6, <2>7
  <1> HIDE DEF t, n
  <1>7. \A h \in Goroutines : \A i \in 1..Len(stack'[h]) :
           /\ i \in 1..Len(stack[h])
           /\ stack'[h][i] = stack[h][i]
           /\ stack[h][i] \in Calls /\ stack[h][i] # t
           /\ Linked(h, i)' => Linked(h, i)
    <2> TAKE h \in Goroutines
    <2> TAKE i \in 1..Len(stack'[h])
    <2>1. CASE h = g
      <3>1. i \in 1..(n - 1) /\ n = Len(stack[g])
        BY <2>1, <1>2, <1>5 DEF n
      <3>2. i \in 1..Len(stack[g]) /\ i # n /\ i < Len(stack[g])
        BY <3>1, <1>2
      <3>3. stack[g][i] \in Calls
        BY <3>2, <1>1, FrameTypes
      <3>4. stack[g][i] # t
        BY <3>1, <3>2, <1>2, FramesDiffer DEF IInv
      <3> QED
        BY <2>1, <3>1, <3>2, <3>3, <3>4, <1>5 DEF Linked
    <2>2. CASE h # g
      <3>1. stack'[h] = stack[h] /\ stack[h][i] \in Calls
        BY <2>2, <1>1, <1>5, FrameTypes
      <3>2. stack[h][i] # t
        BY <2>2, <3>1, <1>2, FramesDiffer DEF IInv, n
      <3> QED
        BY <2>2, <3>1, <3>2, <1>4 DEF Linked
    <2> QED
      BY <2>1, <2>2
  <1>8. \A h \in Goroutines : \A i \in 1..Len(stack[h]) : stack[h][i] # t =>
           /\ i \in 1..Len(stack'[h])
           /\ stack'[h][i] = stack[h][i]
           /\ Linked(h, i) => Linked(h, i)'
    <2> TAKE h \in Goroutines
    <2> TAKE i \in 1..Len(stack[h])
    <2>1. CASE h = g
      <3>1. stack[h][i] # t => i \in 1..(n - 1)
        BY <2>1, <1>2 DEF n
      <3> QED
        BY <2>1, <3>1, <1>2, <1>4, <1>5 DEF Linked
    <2>2. CASE h # g
      BY <2>2, <1>4, <1>5 DEF Linked
    <2> QED
      BY <2>1, <2>2
  \* Its key was deleted from the map before.
  <1>9. \A j \in Keys : m[j] # Nil => m[j] \in Calls /\ m[j] # t
    <2> SUFFICES ASSUME NEW j \in Keys, m[j] = t PROVE FALSE
      BY <1>1 DEF TypeOK
    <2>1. t # Nil
      BY <1>2, NilAssumption
    <2>2. PICK h \in Goroutines : \E i \in 1..Len(stack[h]) : stack[h][i] = t /\ Linked(h, i)
      BY <2>1 DEF IInv, EntriesLinked
    <2>3. PICK i \in 1..Len(stack[h]) : stack[h][i] = t /\ Linked(h, i)
      BY <2>2
    <2>4. h = g /\ i = n
      BY <2>3, <1>2, FramesDiffer DEF IInv, n
    <2> QED
      BY <2>3, <2>4, <1>1, <1>2 DEF Linked, n
  <1>10. \A h \in Goroutines : pc'[h] = "wait" =>
            /\ h # g /\ pc[h] = "wait" /\ awaits[h] \in Calls
            /\ call[awaits[h]] # Nil /\ call'[awaits[h]] # Nil
            /\ call'[awaits[h]].leader = call[awaits[h]].leader
            /\ call'[awaits[h]].key = call[awaits[h]].key
    <2> SUFFICES ASSUME NEW h \in Goroutines, pc'[h] = "wait"
                 PROVE  /\ h # g /\ pc[h] = "wait" /\ awaits[h] \in Calls
                        /\ call[awaits[h]] # Nil /\ call'[awaits[h]] # Nil
                        /\ call'[awaits[h]].leader = call[awaits[h]].leader
                        /\ call'[awaits[h]].key = call[awaits[h]].key
      OBVIOUS
    <2>1. h # g /\ pc[h] = "wait"
      BY <1>4
    <2>2. awaits[h] \in Calls /\ call[awaits[h]] # Nil
      BY <2>1, <1>1 DEF IInv, StagesFit, WaitersHold, TypeOK
    <2>3. awaits[h] = t => Waiters(t) # {}
      BY DEF Waiters
    <2> QED
      BY <2>1, <2>2, <2>3, <1>3, <1>6
  <1>11. TypeOK'
    BY <1>1, <1>5, <1>6 DEF Notify, TypeOK
  <1>12. FramesOpen'
    <2>1. ASSUME NEW h \in Goroutines, NEW i \in 1..Len(stack'[h])
          PROVE  /\ call'[stack'[h][i]] # Nil
                 /\ call'[stack'[h][i]].leader = h
                 /\ call'[stack'[h][i]].open
      BY <1>6, <1>7 DEF IInv, FramesOpen
    <2>2. ASSUME NEW h \in Goroutines, NEW i \in 1..Len(stack'[h]),
                 NEW j \in 1..Len(stack'[h]), stack'[h][i] = stack'[h][j]
          PROVE  i = j
      <3>1. /\ i \in 1..Len(stack[h]) /\ j \in 1..Len(stack[h])
            /\ stack[h][i] = stack[h][j]
        BY <2>2, <1>7
      <3> QED
        BY <3>1, FramesDiffer DEF IInv
    <2> QED
      BY <2>1, <2>2 DEF FramesOpen
  <1>13. OneFlightPerKey'
    BY <1>1, <1>6, <1>7 DEF IInv, OneFlightPerKey
  <1>14. OpenIsLed'
    <2> SUFFICES ASSUME NEW d \in Calls, call'[d] # Nil, call'[d].open
                 PROVE  \E i \in 1..Len(stack'[call'[d].leader]) :
                           stack'[call'[d].leader][i] = d
      BY DEF OpenIsLed, Leading
    <2>1. d # t /\ call'[d] = call[d]
      BY <1>6
    <2>2. call[d].leader \in Goroutines
      BY <2>1, <1>1 DEF TypeOK, CallRecord
    <2>3. \E i \in 1..Len(stack[call[d].leader]) : stack[call[d].leader][i] = d
      BY <2>1 DEF IInv, OpenIsLed, Leading
    <2> QED
      BY <2>1, <2>2, <2>3, <1>8
  <1>15. EntriesLinked'
    <2> SUFFICES ASSUME NEW j \in Keys, m[j] # Nil
                 PROVE  /\ call'[m[j]] # Nil
                        /\ call'[m[j]].key = j
                        /\ \E h \in Goroutines : \E i \in 1..Len(stack'[h]) :
                              stack'[h][i] = m[j] /\ Linked(h, i)'
      BY <1>1 DEF EntriesLinked
    <2>1. /\ call[m[j]] # Nil
          /\ call[m[j]].key = j
          /\ \E h \in Goroutines : \E i \in 1..Len(stack[h]) :
                stack[h][i] = m[j] /\ Linked(h, i)
      BY DEF IInv, EntriesLinked
    <2> QED
      BY <2>1, <1>6, <1>8, <1>9
  <1>16. StagesFit'
    <2> SUFFICES ASSUME NEW h \in Goroutines
                 PROVE  /\ pc'[h] = "wait" <=> awaits[h] # Nil
                        /\ pc'[h] \in {"unlink", "notify"} =>
                              stack'[h] # <<>> /\ call'[Top(h)'].res # "nil"
      BY <1>1 DEF StagesFit
    <2>1. CASE h = g
      BY <2>1, <1>1, <1>4 DEF IInv, StagesFit
    <2>2. CASE h # g
      <3>1. stack'[h] = stack[h] /\ Top(h)' = Top(h)
        BY <2>2, <1>5 DEF Top
      <3>2. stack[h] # <<>> => call'[Top(h)] = call[Top(h)]
        BY <3>1, <1>1, <1>6, <1>7, FrameTypes
      <3> QED
        BY <2>2, <3>1, <3>2, <1>4 DEF IInv, StagesFit
    <2> QED
      BY <2>1, <2>2
  <1>17. WaitersHold'
    BY <1>1, <1>10 DEF IInv, WaitersHold
  <1>18. ClosedHasResult'
    BY <1>6 DEF IInv, ClosedHasResult
  <1>19. RanksDecrease'
    <2> SUFFICES ASSUME NEW h \in Goroutines, NEW i \in 1..Len(stack'[h])
                 PROVE  /\ \A j \in 1..Len(stack'[h]) : i < j =>
                              Rank[call'[stack'[h][j]].key] < Rank[call'[stack'[h][i]].key]
                        /\ pc'[h] = "wait" =>
                              Rank[call'[awaits[h]].key] < Rank[call'[stack'[h][i]].key]
      BY <1>1 DEF RanksDecrease
    <2>1. \A j \in 1..Len(stack'[h]) :
             j \in 1..Len(stack[h]) /\ call'[stack'[h][j]] = call[stack[h][j]]
      BY <1>6, <1>7
    <2> QED
      BY <2>1, <1>10 DEF IInv, RanksDecrease
  <1> QED
    BY <1>11, <1>12, <1>13, <1>14, <1>15, <1>16, <1>17, <1>18, <1>19 DEF IInv

-----------------------------------------------------------------------------
(* The theorems *)

\* The inductive invariant holds in every reachable state.
THEOREM FlightInvariant == Spec => []IInv
  <1>1. IInv /\ [Next]_vars => IInv'
    <2> SUFFICES ASSUME IInv, [Next]_vars PROVE IInv'
      OBVIOUS
    <2>1. ASSUME NEW g \in Goroutines, NEW k \in Keys, Lead(g, k) PROVE IInv'
      BY <2>1, LeadKeepsIInv
    <2>2. ASSUME NEW g \in Goroutines, NEW k \in Keys, Reentrant(g, k) PROVE IInv'
      BY <2>2, ReentrantKeepsIInv DEF Reentrant
    <2>3. ASSUME NEW g \in Goroutines, NEW k \in Keys, Join(g, k) PROVE IInv'
      BY <2>3, JoinKeepsIInv
    <2>4. ASSUME NEW g \in Goroutines, Wake(g) PROVE IInv'
      BY <2>4, WakeKeepsIInv
    <2>5. ASSUME NEW g \in Goroutines, Finish(g) PROVE IInv'
      BY <2>5, FinishKeepsIInv
    <2>6. ASSUME NEW g \in Goroutines, Unlink(g) PROVE IInv'
      BY <2>6, UnlinkKeepsIInv
    <2>7. ASSUME NEW g \in Goroutines, Notify(g) PROVE IInv'
      BY <2>7, NotifyKeepsIInv
    <2>8. CASE UNCHANGED vars
      BY <2>8, ReentrantKeepsIInv
    <2> QED
      BY <2>1, <2>2, <2>3, <2>4, <2>5, <2>6, <2>7, <2>8 DEF Next
  <1> QED
    BY <1>1, InitIInv, PTL DEF Spec

\* A goroutine never runs fn for a key that another flight is loading, and the
\* map entry of a key is the call of its only flight (Do and doCall).
THEOREM FlightsAreSingle == Spec => []OneFlightPerKey
  <1>1. IInv => OneFlightPerKey
    BY DEF IInv
  <1> QED
    BY <1>1, FlightInvariant, PTL

\* A Do that finds an entry gets a call that is not over yet.
THEOREM EntriesAreOpen == Spec => []EntryIsOpen
  <1>1. IInv => EntryIsOpen
    BY DEF IInv, EntryIsOpen, EntriesLinked, FramesOpen
  <1> QED
    BY <1>1, FlightInvariant, PTL

\* Every waiter on an open call waits for another goroutine, which holds the
\* call and has yet to release it, whatever panics on the way.
THEOREM WaitersAreHeld == Spec => []NoLostWaiter
  <1>1. ASSUME IInv, NEW g \in Goroutines, pc[g] = "wait", call[awaits[g]].open
        PROVE  BlockedOn(g) \ {g} # {}
    <2>1. awaits[g] \in Calls /\ call[awaits[g]] # Nil /\ call[awaits[g]].leader # g
      BY <1>1 DEF IInv, StagesFit, WaitersHold, TypeOK
    <2>2. call[awaits[g]].leader \in Goroutines
      <3>1. call[awaits[g]] \in CallRecord
        BY <1>1, <2>1 DEF IInv, TypeOK
      <3> QED
        BY <3>1 DEF CallRecord
    <2>3. awaits[g] \in Leading(call[awaits[g]].leader)
      BY <1>1, <2>1 DEF IInv, OpenIsLed
    <2> QED
      BY <2>1, <2>2, <2>3 DEF BlockedOn
  <1>2. IInv => NoLostWaiter
    BY <1>1 DEF NoLostWaiter
  <1> QED
    BY <1>2, FlightInvariant, PTL

\* No waiter takes the (nil, nil) of a call whose fn has not returned for a
\* result, even when fn panicked.
THEOREM ResultsAreReal == Spec => []NeverEmptyResult
  <1>1. IInv => NeverEmptyResult
    BY DEF IInv, NeverEmptyResult, ClosedHasResult, WaitersHold, StagesFit, TypeOK
  <1> QED
    BY <1>1, FlightInvariant, PTL

\* A non-empty set of natural numbers has a least element.
LEMMA LeastNumber ==
    ASSUME NEW N \in SUBSET Nat, N # {}
    PROVE  \E x \in N : \A y \in N : ~(y < x)
  <1> DEFINE Less == {p \in Nat \X Nat : p[1] < p[2]}
  <1>1. IsWellFoundedOn(Less, Nat)
    BY NatLessThanWellFounded DEF OpToRel
  <1>2. PICK x \in N : \A y \in N : ~(<<y, x>> \in Less)
    <2> HIDE DEF Less
    <2> QED
      BY <1>1, WFMin, Zenon
  <1> QED
    BY <1>2

\* As long as keys do not need each other cyclically, no goroutines wait for
\* one another in a circle: the call of least rank that is awaited in the circle
\* would be led by a goroutine that waits for a call of still lower rank.
THEOREM NeverDeadlocked == Spec => []NoDeadlock
  <1>1. ASSUME IInv, NEW S \in SUBSET Goroutines, S # {},
               \A g \in S : pc[g] = "wait" /\ BlockedOn(g) \cap S # {}
        PROVE  FALSE
    <2> DEFINE R(g) == Rank[call[awaits[g]].key]
    <2>1. ASSUME NEW g \in S
          PROVE  R(g) \in Nat
      <3>1. awaits[g] \in Calls /\ call[awaits[g]] # Nil
        BY <1>1, <2>1 DEF IInv, StagesFit, WaitersHold, TypeOK
      <3>2. call[awaits[g]].key \in Keys
        BY <1>1, <3>1 DEF IInv, TypeOK, CallRecord
      <3> QED
        BY <3>2, RankAssumption
    <2> HIDE DEF R
    <2> DEFINE N == {R(g) : g \in S}
    <2>2. \E x \in N : \A y \in N : ~(y < x)
      <3>1. N \in SUBSET Nat /\ N # {}
        BY <1>1, <2>1
      <3> HIDE DEF N
      <3> QED
        BY <3>1, LeastNumber
    <2>3. PICK g \in S : \A h \in S : ~(R(h) < R(g))
      BY <2>2
    <2>4. PICK h \in S : awaits[g] \in Leading(h)
      BY <1>1 DEF BlockedOn
    <2>5. PICK i \in 1..Len(stack[h]) : stack[h][i] = awaits[g]
      BY <2>4 DEF Leading
    <2>6. R(h) < R(g)
      BY <1>1, <2>5 DEF IInv, RanksDecrease, R
    <2> QED
      BY <2>3, <2>6
  <1>2. IInv => NoDeadlock
    <2> SUFFICES ASSUME IInv, NEW S \in (SUBSET Goroutines) \ {{}}
                 PROVE  \E g \in S : ~(pc[g] = "wait" /\ BlockedOn(g) \cap S # {})
      BY DEF NoDeadlock
    <2>1. S \in SUBSET Goroutines /\ S # {}
      OBVIOUS
    <2> QED
      BY <1>1, <2>1
  <1> QED
    BY <1>2, FlightInvariant, PTL
=============================================================================
