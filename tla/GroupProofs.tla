------------------------------ MODULE GroupProofs ------------------------------
(***************************************************************************)
(* Proofs about Group.Get, for any callers, keys and TTLs, and for peers   *)
(* that panic as well as for peers that do not.                            *)
(***************************************************************************)
EXTENDS Group, Cluster, TLAPS

Final == {"value", "config", "sourceFailure", "panicked"}

\* What a load has come to agrees with where it is.
ErrorsAgree ==
    \A c \in Callers :
       /\ pc[c] \in {"unlink", "notify", "return"} => err[c] \in Final
       /\ pc[c] \in {"ttl", "add"} => err[c] = "value"

\* Only a waiter belongs to somebody else's flight.
WaitersWait == \A c \in Callers : awaits[c] # Nil => pc[c] = "wait"

\* After a TTL change and a purge nothing has another TTL, neither the entries nor
\* the writes back that are half done.
TTLsAgree ==
    purged => /\ \A k \in Keys : entries[k] \in {defaultTTL, Nil}
              /\ \A c \in Callers : pc[c] = "add" => ttl[c] = defaultTTL

IInv == TypeOK /\ ErrorsAgree /\ WaitersWait /\ NoAbandonedTicket /\ TTLsAgree

USE DEF group, gate, load, Go, Outcome, Stages, Outcomes, Final

\* The group starts within the invariant.
LEMMA InitIInv == Init => IInv
<1> SUFFICES ASSUME Init PROVE IInv
  OBVIOUS
<1>1. TypeOK
  <2>1. (CHOOSE k \in Keys : TRUE) \in Keys
    BY KeysAssumption
  <2> QED
    BY <2>1 DEF Init, TypeOK, Gate!Init
<1>2. NoAbandonedTicket
  BY DEF Init, NoAbandonedTicket, Gate!Init
<1> QED
  BY <1>1, <1>2 DEF Init, IInv, ErrorsAgree, WaitersWait, TTLsAgree

\* A step of Get before the flight's end that changes only where the caller is, and
\* what Get has so far.
LEMMA BeginIInv ==
    ASSUME IInv, NEW c \in Callers,
           (\E k \in Keys : Miss(c, k)) \/ Lead(c) \/ Join(c) \/ Pick(c)
    PROVE  IInv'
<1> USE DEF IInv
<1>1. ASSUME NEW k \in Keys, Miss(c, k) PROVE IInv'
  BY <1>1 DEF Miss, TypeOK, ErrorsAgree, WaitersWait, NoAbandonedTicket, TTLsAgree
<1>2. ASSUME Lead(c) PROVE IInv'
  BY <1>2 DEF Lead, TypeOK, ErrorsAgree, WaitersWait, NoAbandonedTicket, TTLsAgree
<1>3. ASSUME Join(c) PROVE IInv'
  <2>1. TypeOK'
    BY <1>3 DEF Join, TypeOK
  <2>2. (ErrorsAgree /\ WaitersWait)'
    BY <1>3 DEF Join, TypeOK, ErrorsAgree, WaitersWait
  <2> QED
    BY <1>3, <2>1, <2>2 DEF Join, TypeOK, NoAbandonedTicket, TTLsAgree
<1>4. ASSUME Pick(c) PROVE IInv'
  BY <1>4 DEF Pick, TypeOK, ErrorsAgree, WaitersWait, NoAbandonedTicket, TTLsAgree
<1> QED
  BY <1>1, <1>2, <1>3, <1>4

\* getFromPeer: whoever is let through calls the peer, and whatever the answer,
\* the ticket is given back.
LEMMA PeerIInv ==
    ASSUME IInv, NEW c \in Callers,
           Admitted(c) \/ Rejected(c) \/ PeerAnswers(c) \/ PeerPanic(c)
    PROVE  IInv'
<1> USE DEF IInv
<1>1. ASSUME Admitted(c) PROVE IInv'
  <2>1. (TypeOK /\ ErrorsAgree /\ WaitersWait /\ TTLsAgree)'
    BY <1>1 DEF Admitted, Gate!Admit, Gate!Probe, TypeOK, ErrorsAgree, WaitersWait, TTLsAgree
  <2>2. NoAbandonedTicket'
    BY <1>1 DEF Admitted, Gate!Admit, Gate!Probe, TypeOK, NoAbandonedTicket
  <2> QED
    BY <2>1, <2>2
<1>2. ASSUME Rejected(c) PROVE IInv'
  BY <1>2 DEF Rejected, AfterPeerError, FallsBack, TypeOK, ErrorsAgree, WaitersWait,
              NoAbandonedTicket, TTLsAgree
<1>3. ASSUME PeerAnswers(c) PROVE IInv'
  <2>1. mode' \in {"Closed", "Open", "HalfOpen"} /\ live' \subseteq live \ {c}
    BY <1>3 DEF PeerAnswers, RecordSuccess, RecordNeutral, RecordFailure, TypeOK,
                Gate!Close, Gate!Settle, Gate!Trip
  <2>2. PICK from \in Stages, to \in Stages, e \in Outcomes :
           /\ Go(c, from, to) /\ Outcome(c, e)
           /\ \/ to = "ttl" /\ e = "value"
              \/ to = "local"
              \/ to = "unlink" /\ e = "config"
    BY <1>3 DEF PeerAnswers, AfterPeerError, FallsBack
  <2>3. UNCHANGED <<peers, defaultTTL, purged, entries, m, key, awaits, ttl, lost>>
    BY <1>3 DEF PeerAnswers
  <2>4. pc[c] = "rpc"
    BY <1>3 DEF PeerAnswers, AfterPeerError
  <2>5. (TypeOK /\ ErrorsAgree /\ WaitersWait /\ TTLsAgree)'
    BY <2>1, <2>2, <2>3, <2>4 DEF TypeOK, ErrorsAgree, WaitersWait, TTLsAgree
  <2>6. NoAbandonedTicket'
    BY <2>1, <2>2, <2>3, <2>4 DEF TypeOK, NoAbandonedTicket
  <2> QED
    BY <2>5, <2>6
<1>4. ASSUME PeerPanic(c) PROVE IInv'
  BY <1>4 DEF PeerPanic, TypeOK, ErrorsAgree, WaitersWait, NoAbandonedTicket, TTLsAgree
<1> QED
  BY <1>1, <1>2, <1>3, <1>4

\* getLocal and populateCache: a value is added with the TTL read last.
LEMMA LocalIInv ==
    ASSUME IInv, NEW c \in Callers, Local(c) \/ ReadTTL(c) \/ Add(c)
    PROVE  IInv'
<1> USE DEF IInv
<1>1. ASSUME Local(c) PROVE IInv'
  BY <1>1 DEF Local, TypeOK, ErrorsAgree, WaitersWait, NoAbandonedTicket, TTLsAgree
<1>2. ASSUME ReadTTL(c) PROVE IInv'
  BY <1>2 DEF ReadTTL, TTLRead, TypeOK, ErrorsAgree, WaitersWait, NoAbandonedTicket, TTLsAgree
<1>3. ASSUME Add(c) PROVE IInv'
  BY <1>3 DEF Add, TypeOK, ErrorsAgree, WaitersWait, NoAbandonedTicket, TTLsAgree
<1> QED
  BY <1>1, <1>2, <1>3

\* The end of a flight gives its waiters what its leader has.
LEMMA EndIInv ==
    ASSUME IInv, NEW c \in Callers, Unlink(c) \/ Notify(c) \/ Return(c)
    PROVE  IInv'
<1> USE DEF IInv
<1>1. ASSUME Unlink(c) PROVE IInv'
  BY <1>1 DEF Unlink, TypeOK, ErrorsAgree, WaitersWait, NoAbandonedTicket, TTLsAgree
<1>2. ASSUME Notify(c) PROVE IInv'
  <2>1. \A w \in Members(c) : pc[w] \in {"notify", "wait"}
    BY <1>2, NilAssumption DEF Notify, Members, WaitersWait
  <2>2. TypeOK'
    BY <1>2 DEF Notify, TypeOK
  <2>3. (ErrorsAgree /\ WaitersWait)'
    BY <1>2 DEF Notify, TypeOK, ErrorsAgree, WaitersWait
  <2>4. (NoAbandonedTicket /\ TTLsAgree)'
    BY <1>2, <2>1 DEF Notify, TypeOK, NoAbandonedTicket, TTLsAgree
  <2> QED
    BY <2>2, <2>3, <2>4
<1>3. ASSUME Return(c) PROVE IInv'
  BY <1>3 DEF Return, TypeOK, ErrorsAgree, WaitersWait, NoAbandonedTicket, TTLsAgree
<1> QED
  BY <1>1, <1>2, <1>3

\* The other operations of the group.
LEMMA GroupIInv ==
    ASSUME IInv, RegisterPeers \/ SetTTL \/ Purge \/ \E k \in Keys : Drop(k)
    PROVE  IInv'
<1> USE DEF IInv
<1>1. ASSUME RegisterPeers PROVE IInv'
  BY <1>1 DEF RegisterPeers, TypeOK, ErrorsAgree, WaitersWait, NoAbandonedTicket, TTLsAgree
<1>2. ASSUME SetTTL PROVE IInv'
  BY <1>2 DEF SetTTL, TypeOK, ErrorsAgree, WaitersWait, NoAbandonedTicket, TTLsAgree
<1>3. ASSUME Purge PROVE IInv'
  BY <1>3 DEF Purge, TypeOK, ErrorsAgree, WaitersWait, NoAbandonedTicket, TTLsAgree
<1>4. ASSUME NEW k \in Keys, Drop(k) PROVE IInv'
  BY <1>4 DEF Drop, TypeOK, ErrorsAgree, WaitersWait, NoAbandonedTicket, TTLsAgree
<1> QED
  BY <1>1, <1>2, <1>3, <1>4

\* The inductive invariant of the group.
THEOREM GroupInvariant == Spec => []IInv
<1>1. IInv /\ [Next]_vars => IInv'
  <2> SUFFICES ASSUME IInv, [Next]_vars PROVE IInv'
    OBVIOUS
  <2>1. CASE UNCHANGED vars
    BY <2>1 DEF vars, IInv, TypeOK, ErrorsAgree, WaitersWait, NoAbandonedTicket, TTLsAgree
  <2>2. ASSUME NEW c \in Callers, Step(c) \/ \E k \in Keys : Miss(c, k) PROVE IInv'
    BY <2>2, BeginIInv, PeerIInv, LocalIInv, EndIInv DEF Step
  <2>3. CASE RegisterPeers \/ SetTTL \/ Purge \/ \E k \in Keys : Drop(k)
    BY <2>3, GroupIInv
  <2> QED
    BY <2>1, <2>2, <2>3 DEF Next
<1> QED
  BY <1>1, InitIInv, PTL DEF Spec

\* Type correctness, for any callers, keys and TTLs.
THEOREM GroupTypeOK == Spec => []TypeOK
BY GroupInvariant, PTL DEF IInv

\* No path through getFromPeer (geecache.go:217-255) keeps a ticket that the breaker
\* counts on, unless the peer panics.
THEOREM TicketsComeBack == Spec => []NoAbandonedTicket
BY GroupInvariant, PTL DEF IInv

\* Only configuration errors and failures of one's own source reach the caller
\* (geecache.go:180-195), for the leader and for its waiters.
THEOREM TroubleStaysHidden == Spec => []PeerTroubleIsHidden
<1>1. IInv => PeerTroubleIsHidden
  BY DEF IInv, ErrorsAgree, PeerTroubleIsHidden
<1> QED
  BY <1>1, GroupInvariant, PTL

\* After SetTTL and Purge no entry has another TTL (geecache.go:275-281, 291-318).
THEOREM TTLChangesHold == Spec => []TTLChangeTakesHold
<1>1. IInv => TTLChangeTakesHold
  BY DEF IInv, TTLsAgree, TTLChangeTakesHold
<1> QED
  BY <1>1, GroupInvariant, PTL

-----------------------------------------------------------------------------
(* The nodes of a cluster, whose groups forward to one another: Cluster.tla.  *)

USE TasksAssumption, NodesAssumption
USE DEF Move, ComesTo, Kept, AfterCall, Reply, TaskOutcomes, Tasks

\* The node that stands for no node is one.
LEMMA SomewhereIsNode == Somewhere \in Nodes
BY Zenon DEF Somewhere

\* Nobody calls, nothing is settled or refused yet: the invariant holds.
LEMMA ClusterStarts == ClusterInit => ClusterIInv
<1> SUFFICES ASSUME ClusterInit
             PROVE  ClusterIInv
  OBVIOUS
<1>1. ClusterTypeOK
  BY SomewhereIsNode DEF ClusterInit, ClusterTypeOK
<1>2. CallsMatch
  BY DEF ClusterInit, CallsMatch, TasksAreDistinct
<1>3. SettledAgree
  BY DEF ClusterInit, SettledAgree
<1>4. OutcomesAgree
  BY DEF ClusterInit, OutcomesAgree
<1> QED
  BY <1>1, <1>2, <1>3, <1>4 DEF ClusterIInv

\* A step of a task on its own node, up to and including the choice of a peer.
LEMMA StepOnNode ==
    ASSUME ClusterIInv, NEW t \in Tasks,
           (\E n \in Nodes : t \in Clients /\ Call(t, n)) \/ Hit(t) \/ LeadFlight(t)
              \/ JoinFlight(t) \/ PickPeer(t) \/ NoPeer(t) \/ LoadLocally(t)
    PROVE  ClusterIInv'
<1> USE DEF ClusterIInv
<1>1. ASSUME NEW n \in Nodes, t \in Clients, Call(t, n) PROVE ClusterIInv'
  <2>1. ClusterTypeOK'
    BY <1>1 DEF Call, ClusterTypeOK
  <2>2. CallsMatch'
    BY <1>1 DEF Call, ClusterTypeOK, CallsMatch
  <2>3. SettledAgree'
    BY <1>1 DEF Call, ClusterTypeOK, SettledAgree, Agreeing, TasksAreDistinct
  <2>4. OutcomesAgree'
    BY <1>1 DEF Call, ClusterTypeOK, OutcomesAgree
  <2> QED
    BY <2>1, <2>2, <2>3, <2>4
<1>2. ASSUME Hit(t) \/ LeadFlight(t) \/ JoinFlight(t) \/ NoPeer(t) \/ LoadLocally(t)
      PROVE  ClusterIInv'
  <2> USE DEF Hit, LeadFlight, JoinFlight, NoPeer, LoadLocally
  <2>1. ClusterTypeOK'
    BY <1>2 DEF ClusterTypeOK
  <2>2. CallsMatch'
    BY <1>2 DEF ClusterTypeOK, CallsMatch
  <2>3. SettledAgree'
    BY <1>2 DEF ClusterTypeOK, SettledAgree, Agreeing
  <2>4. OutcomesAgree'
    BY <1>2 DEF ClusterTypeOK, OutcomesAgree
  <2> QED
    BY <2>1, <2>2, <2>3, <2>4
<1>3. ASSUME PickPeer(t) PROVE ClusterIInv'
  <2>1. ClusterTypeOK'
    BY <1>3 DEF PickPeer, ClusterTypeOK
  <2>2. CallsMatch'
    BY <1>3 DEF PickPeer, ClusterTypeOK, CallsMatch
  <2>3. SettledAgree'
    BY <1>3 DEF PickPeer, Foreign, ClusterTypeOK, SettledAgree, Agreeing
  <2>4. OutcomesAgree'
    BY <1>3 DEF PickPeer, ClusterTypeOK, OutcomesAgree
  <2> QED
    BY <2>1, <2>2, <2>3, <2>4
<1> QED
  BY <1>1, <1>2, <1>3

\* The end of a flight, for its leader and for those who wait.
LEMMA FlightEnds ==
    ASSUME ClusterIInv, NEW t \in Tasks, Finish(t)
    PROVE  ClusterIInv'
<1> USE DEF ClusterIInv
<1>1. FlightMembers(t) \subseteq Tasks
      /\ \A w \in FlightMembers(t) : where[w] \in {"finish", "wait"} /\ at[w] = at[t]
  BY DEF Finish, FlightMembers
<1> HIDE DEF FlightMembers
<1>2. ClusterTypeOK'
  BY DEF Finish, ClusterTypeOK
<1>3. CallsMatch'
  BY <1>1 DEF Finish, ClusterTypeOK, CallsMatch
<1>4. SettledAgree'
  BY <1>1 DEF Finish, ClusterTypeOK, SettledAgree, Agreeing
<1>5. OutcomesAgree'
  BY <1>1 DEF Finish, ClusterTypeOK, OutcomesAgree
<1> QED
  BY <1>2, <1>3, <1>4, <1>5

\* A call of another node: it is accepted, refused or fails.
LEMMA CallOfPeer ==
    ASSUME ClusterIInv, NEW t \in Tasks,
           (\E c \in Handlers : Accept(t, c)) \/ Refuse(t) \/ Fail(t)
    PROVE  ClusterIInv'
<1> USE DEF ClusterIInv
<1>1. ASSUME NEW c \in Handlers, Accept(t, c) PROVE ClusterIInv'
  <2>1. ClusterTypeOK'
    BY <1>1 DEF Accept, ClusterTypeOK
  <2>2. CallsMatch'
    BY <1>1 DEF Accept, ClusterTypeOK, CallsMatch, TasksAreDistinct
  <2>3. SettledAgree'
    BY <1>1 DEF Accept, ClusterTypeOK, SettledAgree, Agreeing
  <2>4. OutcomesAgree'
    BY <1>1 DEF Accept, ClusterTypeOK, OutcomesAgree
  <2> QED
    BY <2>1, <2>2, <2>3, <2>4
<1>2. ASSUME Refuse(t) PROVE ClusterIInv'
  <2>1. ClusterTypeOK'
    BY <1>2, SomewhereIsNode DEF Refuse, ClusterTypeOK
  <2>2. CallsMatch'
    BY <1>2 DEF Refuse, ClusterTypeOK, CallsMatch, TasksAreDistinct
  <2>3. SettledAgree'
    BY <1>2 DEF Refuse, ClusterTypeOK, SettledAgree, Agreeing
  <2>4. OutcomesAgree'
    BY <1>2 DEF Refuse, ClusterTypeOK, OutcomesAgree
  <2> QED
    BY <2>1, <2>2, <2>3, <2>4
<1>3. ASSUME Fail(t) PROVE ClusterIInv'
  <2>1. ClusterTypeOK'
    BY <1>3, SomewhereIsNode DEF Fail, ClusterTypeOK
  <2>2. CallsMatch'
    BY <1>3 DEF Fail, ClusterTypeOK, CallsMatch, TasksAreDistinct
  <2>3. SettledAgree'
    BY <1>3 DEF Fail, ClusterTypeOK, SettledAgree, Agreeing
  <2>4. OutcomesAgree'
    BY <1>3 DEF Fail, ClusterTypeOK, OutcomesAgree
  <2> QED
    BY <2>1, <2>2, <2>3, <2>4
<1> QED
  BY <1>1, <1>2, <1>3

\* What Settle leaves: settled lists have been so, or nobody has a request.
LEMMA SettledBefore ==
    ASSUME NEW changed \in BOOLEAN, unsettled \in BOOLEAN, Settle(changed)
    PROVE  /\ unsettled' \in BOOLEAN
           /\ ~unsettled' => (~unsettled /\ ~changed) \/ (Resting' /\ Agreeing')
           /\ refused' = refused \/ (Resting' /\ refused' = {})
<1>1. unsettled' \in BOOLEAN
  BY Zenon DEF Settle
<1>2. ~unsettled' => (~unsettled /\ ~changed) \/ (Resting' /\ Agreeing')
  BY Zenon DEF Settle
<1>3. refused' = refused \/ (Resting' /\ refused' = {})
  BY Zenon DEF Settle
<1> QED
  BY <1>1, <1>2, <1>3

\* Get returns to the application, or the handler to its caller.
LEMMA CallReturns ==
    ASSUME ClusterIInv, NEW t \in Tasks, Answer(t)
    PROVE  ClusterIInv'
<1> USE DEF ClusterIInv
<1>1. /\ unsettled' \in BOOLEAN
      /\ ~unsettled' => ~unsettled \/ (Resting' /\ Agreeing')
      /\ refused' = refused \/ (Resting' /\ refused' = {})
  BY SettledBefore DEF Answer, ClusterTypeOK
<1>2. ClusterTypeOK'
  BY <1>1, SomewhereIsNode DEF Answer, ClusterTypeOK
<1>3. CallsMatch'
  BY DEF Answer, ClusterTypeOK, CallsMatch, TasksAreDistinct
<1>4. SettledAgree'
  <2>1. CASE Resting' /\ Agreeing'
    BY <2>1, <1>2 DEF Resting, SettledAgree, ClusterTypeOK
  <2>2. CASE ~unsettled
    BY <2>2, <1>1 DEF Answer, ClusterTypeOK, SettledAgree, CallsMatch, Agreeing
  <2> QED
    BY <1>1, <2>1, <2>2 DEF SettledAgree
<1>5. OutcomesAgree'
  <2>1. CASE Resting'
    BY <2>1 DEF Answer, ClusterTypeOK, OutcomesAgree, Resting
  <2>2. CASE refused' = refused
    BY <2>2 DEF Answer, ClusterTypeOK, OutcomesAgree
  <2> QED
    BY <1>1, <2>1, <2>2
<1> QED
  BY <1>2, <1>3, <1>4, <1>5

\* A list changes.
LEMMA ListChanges ==
    ASSUME ClusterIInv, NEW n \in Nodes, NEW q \in Nodes, Set(n, q)
    PROVE  ClusterIInv'
<1> USE DEF ClusterIInv
<1>1. /\ unsettled' \in BOOLEAN
      /\ ~unsettled' => (~unsettled /\ q = owner[n]) \/ (Resting' /\ Agreeing')
      /\ refused' = refused \/ (Resting' /\ refused' = {})
  BY SettledBefore DEF Set, ClusterTypeOK
<1>2. ClusterTypeOK'
  BY <1>1 DEF Set, ClusterTypeOK
<1>3. CallsMatch'
  BY DEF Set, CallsMatch
<1>4. SettledAgree'
  <2>1. CASE Resting' /\ Agreeing'
    BY <2>1, <1>2 DEF Resting, SettledAgree, ClusterTypeOK
  <2>2. CASE ~unsettled /\ q = owner[n]
    BY <2>2 DEF Set, ClusterTypeOK, SettledAgree, Agreeing
  <2> QED
    BY <1>1, <2>1, <2>2 DEF SettledAgree
<1>5. OutcomesAgree'
  <2>1. CASE Resting'
    BY <2>1 DEF Set, ClusterTypeOK, OutcomesAgree, Resting
  <2>2. CASE refused' = refused
    BY <2>2 DEF Set, ClusterTypeOK, OutcomesAgree
  <2> QED
    BY <1>1, <2>1, <2>2
<1> QED
  BY <1>2, <1>3, <1>4, <1>5

\* A node loses its tasks.
LEMMA NodeCrashes ==
    ASSUME ClusterIInv, NEW n \in Nodes, Crash(n)
    PROVE  ClusterIInv'
<1> USE DEF ClusterIInv
<1>1. /\ unsettled' \in BOOLEAN
      /\ ~unsettled' => ~unsettled \/ (Resting' /\ Agreeing')
      /\ refused' = refused \/ (Resting' /\ refused' = {})
  BY SettledBefore DEF Crash, ClusterTypeOK
<1>2. ClusterTypeOK'
  BY <1>1, SomewhereIsNode DEF Crash, ClusterTypeOK
<1>3. CallsMatch'
  BY DEF Crash, ClusterTypeOK, CallsMatch, TasksAreDistinct
<1>4. SettledAgree'
  <2>1. CASE Resting' /\ Agreeing'
    BY <2>1, <1>2 DEF Resting, SettledAgree, ClusterTypeOK
  <2>2. CASE ~unsettled
    <3>1. /\ owner' = owner
          /\ \A t \in Tasks : where'[t] \in {where[t], "idle", "local"}
          /\ \A t \in Tasks : where'[t] \notin {"idle", "local"} =>
                                at'[t] = at[t] /\ target'[t] = target[t]
          /\ \A t \in Tasks : where'[t] # "idle" => where[t] # "idle" /\ at'[t] = at[t]
      BY DEF Crash, ClusterTypeOK, CallsMatch
    <3> QED
      BY <2>2, <3>1 DEF ClusterTypeOK, SettledAgree, Agreeing
  <2> QED
    BY <1>1, <2>1, <2>2 DEF SettledAgree
<1>5. OutcomesAgree'
  <2>1. CASE Resting'
    BY <2>1 DEF Crash, ClusterTypeOK, OutcomesAgree, Resting
  <2>2. CASE refused' = refused
    BY <2>2 DEF Crash, ClusterTypeOK, OutcomesAgree
  <2> QED
    BY <1>1, <2>1, <2>2
<1> QED
  BY <1>2, <1>3, <1>4, <1>5

\* The inductive invariant of the cluster.
THEOREM ClusterInvariant == ClusterSpec => []ClusterIInv
<1>1. ClusterInit => ClusterIInv
  BY ClusterStarts
<1>2. ClusterIInv /\ [ClusterNext]_clusterVars => ClusterIInv'
  <2> SUFFICES ASSUME ClusterIInv, [ClusterNext]_clusterVars PROVE ClusterIInv'
    OBVIOUS
  <2>1. CASE UNCHANGED clusterVars
    BY <2>1 DEF clusterVars, tasks, ClusterIInv, ClusterTypeOK, CallsMatch, SettledAgree,
                OutcomesAgree, Agreeing
  <2>2. ASSUME NEW t \in Tasks, TaskStep(t) \/ \E c \in Handlers : Accept(t, c)
        PROVE  ClusterIInv'
    BY <2>2, StepOnNode, FlightEnds, CallOfPeer, CallReturns DEF TaskStep
  <2>3. ASSUME NEW t \in Clients, NEW n \in Nodes, Call(t, n) PROVE ClusterIInv'
    BY <2>3, StepOnNode
  <2>4. ASSUME NEW n \in Nodes, Crash(n) \/ \E q \in Nodes : Set(n, q)
        PROVE  ClusterIInv'
    BY <2>4, NodeCrashes, ListChanges
  <2> QED
    BY <2>1, <2>2, <2>3, <2>4 DEF ClusterNext
<1> QED
  BY <1>1, <1>2, PTL DEF ClusterSpec

\* While the lists agree a handler never forwards (geecache.go:200-215, http.go:363-380):
\* every request that goes from node to node is an application's own.
THEOREM ForwardingEnds == ClusterSpec => []ForwardedOnce
<1>1. ClusterIInv => ForwardedOnce
  BY DEF ClusterIInv, SettledAgree, ForwardedOnce
<1> QED
  BY <1>1, ClusterInvariant, PTL

\* A configuration error reaches an application only from a node that refused its own
\* (geecache.go:178-197), and a peer's failure never.
THEOREM ErrorsStayLocal == ClusterSpec => []ConfigErrorHasCause
<1>1. ClusterIInv => ConfigErrorHasCause
  BY DEF ClusterIInv, OutcomesAgree, ConfigErrorHasCause
<1> QED
  BY <1>1, ClusterInvariant, PTL
===============================================================================
