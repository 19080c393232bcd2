------------------------------- MODULE PoolProofs -------------------------------
(***************************************************************************)
(* Proofs about the clients of the two pools, for any peers, TLS           *)
(* configurations, tokens, requests and goroutines that configure, serve   *)
(* and stop the pool.                                                      *)
(***************************************************************************)
EXTENDS Pool, TLAPS

-----------------------------------------------------------------------------
(* The inductive invariant *)

\* Only a goroutine that is closing has clients left to close, which nobody has
\* closed before.
StaleAreOpen ==
    \A a \in Admins : /\ stale[a] \subseteq Open
                      /\ pc[a] # "closing" => stale[a] = {}

\* Where a Shutdown is tells what has become of the server; HTTP has neither.
ShutdownAgrees ==
    /\ transport = "http" =>
          server = "none" /\ ~stopped /\ \A a \in Admins : pc[a] = "idle"
    /\ \A a \in Admins :
          /\ pc[a] \in {"draining", "taking"} => stopped
          /\ pc[a] = "draining" => server \in {"draining", "down"}
          /\ pc[a] = "taking" => server \in {"none", "down"}

\* While the server is down no handler runs that was not cut off.
HandlersCutOff ==
    transport = "grpc" /\ server \in {"none", "down"} =>
        \A r \in Handlers : r \in excused

\* A client that is in use leaves the table only for a cause, even before it is closed.
DropsForCause ==
    /\ \A r \in Requests : held[r] # Nil => request[r] # "none"
    /\ transport = "grpc" =>
          \A r \in Requests :
             held[r] # Nil =>
                \/ held[r] \in InTable
                \/ r \in excused
                \/ (stopped /\ request[r] = "local")

IInv ==
    /\ TypeOK
    /\ ConnectionsAccounted
    /\ StaleAreOpen
    /\ GettersCurrent
    /\ ShutdownAgrees
    /\ HandlersCutOff
    /\ DropsForCause

\* A new pool satisfies the invariant.
LEMMA InitIInv == Init => IInv
<1> SUFFICES ASSUME Init
             PROVE  IInv
  OBVIOUS
<1>1. TypeOK
  BY DEF Init, TypeOK
<1>2. InTable = {} /\ Open = {}
  BY DEF Init, InTable, Open, Range
<1>3. ConnectionsAccounted /\ StaleAreOpen
  BY <1>2 DEF Init, ConnectionsAccounted, StaleAreOpen
<1>4. GettersCurrent
  BY DEF Init, GettersCurrent, Listed
<1>5. ShutdownAgrees /\ HandlersCutOff /\ DropsForCause
  BY DEF Init, ShutdownAgrees, HandlersCutOff, DropsForCause, Handlers
<1> QED
  BY <1>1, <1>3, <1>4, <1>5 DEF IInv

\* The members of the table.
LEMMA TableMembers ==
    ASSUME TypeOK
    PROVE  \A i : i \in InTable <=> i # Nil /\ \E p \in Peers : getters[p] = i
BY DEF TypeOK, InTable, Range

-----------------------------------------------------------------------------
(* Rebuilding the table *)

\* One rebuild, spelled out: the peers of keep keep their clients, those of dialled
\* get new ones, and the old clients that are in no use any more are to be closed
\* by a, or are closed at once.
RebuiltTo(a, list, keep, dialled, tls, token) ==
    /\ getters' \in [Peers -> Ids \cup {Nil}]
    /\ getter' \in [Ids -> Getter \cup {Nil}]
    /\ \A p \in dialled :
          /\ getters'[p] \in Ids
          /\ getter[getters'[p]] = Nil
          /\ getter'[getters'[p]] = [peer |-> p, tls |-> tls, token |-> token, closed |-> FALSE]
    /\ \A p \in keep : getters'[p] = getters[p]
    /\ \A p \in Peers : p \notin dialled /\ p \notin keep => getters'[p] = Nil
    /\ \A p \in list : p \in dialled \/ p \in keep \/ p = Self \/ p \in undialled'
    /\ undialled' \subseteq Peers
    /\ peersList' = list
    /\ \A i \in Ids : getter[i] = Nil =>
          getter'[i] = Nil \/ \E p \in dialled : getters'[p] = i
    /\ transport = "grpc" =>
          /\ \A i \in Ids : getter[i] # Nil => getter'[i] = getter[i]
          /\ stale' = [stale EXCEPT ![a] = InTable \ Range(getters')]
          /\ pc' = [pc EXCEPT ![a] = IF InTable \ Range(getters') = {} THEN "idle" ELSE "closing"]
    /\ transport = "http" =>
          /\ \A i \in Ids : getter[i] # Nil =>
                \/ getter'[i] = getter[i] /\ ~(i \in InTable /\ i \notin Range(getters'))
                \/ getter'[i] = Nil /\ (getter[i].closed \/ i \in InTable \ Range(getters'))
                \/ getter'[i] \in Getter /\ getter'[i].closed /\ i \in InTable \ Range(getters')
          /\ UNCHANGED <<stale, pc>>

\* That is what Rebuild does.
LEMMA RebuildEffect ==
    ASSUME TypeOK, NEW a \in Admins, NEW list \in SUBSET (Peers \cup {Self}),
           NEW keep \in SUBSET (list \cap Peers), \A p \in keep : getters[p] # Nil,
           \A i \in InTable : getter[i] # Nil,
           NEW tls \in TLSConfigs \cup {Plain}, NEW token \in Tokens,
           Rebuild(a, list, keep, tls, token)
    PROVE  \E dialled \in SUBSET (list \cap Peers) : RebuiltTo(a, list, keep, dialled, tls, token)
<1>1. Self \notin Peers
  BY NodesAssumption
<1>2. PICK failed, ids :
         /\ failed \in SUBSET (list \ (keep \cup {Self}))
         /\ ids \in [list \ (keep \cup failed \cup {Self}) -> {i \in Ids : getter[i] = Nil}]
         /\ IsInjective(ids)
         /\ undialled' = failed
         /\ Install(a, list, keep, ids, tls, token)
  BY Zenon DEF Rebuild
<1> DEFINE dialled == DOMAIN ids
           new == [p \in Peers |-> IF p \in dialled THEN ids[p]
                                   ELSE IF p \in keep THEN getters[p] ELSE Nil]
           fresh(p) == [peer |-> p, tls |-> tls, token |-> token, closed |-> FALSE]
           objects == [i \in Ids |->
               IF \E p \in dialled : ids[p] = i
               THEN [peer |-> CHOOSE p \in dialled : ids[p] = i,
                     tls |-> tls, token |-> token, closed |-> FALSE]
               ELSE getter[i]]
           dropped == InTable \ Range(new)
<1>3. /\ failed \in SUBSET (list \ (keep \cup {Self}))
      /\ ids \in [list \ (keep \cup failed \cup {Self}) -> {i \in Ids : getter[i] = Nil}]
      /\ IsInjective(ids)
      /\ getters' = new
      /\ peersList' = list
      /\ undialled' = failed
      /\ transport = "http" =>
            getter' = Collected(Close(objects, dropped), Range(held)) /\ UNCHANGED <<pc, stale>>
      /\ transport # "http" =>
            /\ getter' = objects
            /\ stale' = [stale EXCEPT ![a] = dropped]
            /\ pc' = [pc EXCEPT ![a] = IF dropped = {} THEN "idle" ELSE "closing"]
  BY <1>2, Zenon DEF Install, Dropped
<1>4. /\ dialled = list \ (keep \cup failed \cup {Self})
      /\ \A p \in dialled : ids[p] \in Ids /\ getter[ids[p]] = Nil
      /\ dialled \in SUBSET (list \cap Peers)
      /\ \A p \in keep : p \notin dialled /\ p \in Peers
  BY <1>3
<1>5. \A p, q \in dialled : ids[p] = ids[q] => p = q
  BY <1>3 DEF IsInjective
<1> HIDE DEF dialled
<1>6. /\ new \in [Peers -> Ids \cup {Nil}]
      /\ \A p \in dialled : new[p] = ids[p]
      /\ \A p \in keep : new[p] = getters[p]
      /\ \A p \in Peers : p \notin dialled /\ p \notin keep => new[p] = Nil
  BY <1>4 DEF TypeOK
<1>7. ASSUME NEW p \in dialled
      PROVE  objects[ids[p]] = fresh(p)
  <2>1. (CHOOSE q \in dialled : ids[q] = ids[p]) = p
    BY <1>5
  <2>2. ids[p] \in Ids
    BY <1>4
  <2> QED
    BY <2>1, <2>2
<1>8. ASSUME NEW i \in Ids, \A p \in dialled : ids[p] # i
      PROVE  objects[i] = getter[i]
  BY <1>8
<1>9. \A p \in dialled : fresh(p) \in Getter /\ ~fresh(p).closed
  BY <1>4 DEF Getter
<1>10. objects \in [Ids -> Getter \cup {Nil}]
  <2>1. ASSUME NEW i \in Ids
        PROVE  objects[i] \in Getter \cup {Nil}
    <3>1. CASE \E p \in dialled : ids[p] = i
      BY <1>7, <1>9, <3>1
    <3>2. CASE ~\E p \in dialled : ids[p] = i
      BY <1>8, <3>2 DEF TypeOK
    <3> QED
      BY <3>1, <3>2
  <2>2. objects = [i \in Ids |-> objects[i]]
    OBVIOUS
  <2> HIDE DEF objects
  <2> QED
    BY <2>1, <2>2
<1>11. /\ \A p \in dialled : objects[ids[p]] = fresh(p) /\ ids[p] \in Ids
       /\ \A i \in Ids : getter[i] = Nil => objects[i] = Nil \/ \E p \in dialled : ids[p] = i
       /\ \A i \in Ids : getter[i] # Nil => objects[i] = getter[i]
  <2>1. \A p \in dialled : objects[ids[p]] = fresh(p) /\ ids[p] \in Ids
    BY <1>4, <1>7
  <2>2. \A i \in Ids : getter[i] # Nil => objects[i] = getter[i]
    BY <1>4, <1>8
  <2>3. \A i \in Ids : getter[i] = Nil => objects[i] = Nil \/ \E p \in dialled : ids[p] = i
    BY <1>8
  <2> QED
    BY <2>1, <2>2, <2>3
<1> HIDE DEF objects, new
<1>12. /\ \A p \in list : p \in dialled \/ p \in keep \/ p = Self \/ p \in undialled'
       /\ undialled' \subseteq Peers
  BY <1>3, <1>4
<1>13. dropped = InTable \ Range(getters')
  BY <1>3
<1> SUFFICES RebuiltTo(a, list, keep, dialled, tls, token)
  BY <1>4
<1>14. CASE transport = "grpc"
  <2>1. /\ getter' = objects
        /\ stale' = [stale EXCEPT ![a] = InTable \ Range(getters')]
        /\ pc' = [pc EXCEPT ![a] = IF InTable \ Range(getters') = {} THEN "idle" ELSE "closing"]
    BY <1>3, <1>14
  <2> QED
    BY <1>3, <1>4, <1>6, <1>10, <1>11, <1>12, <1>14, <2>1 DEF RebuiltTo
<1>15. CASE transport = "http"
  <2> DEFINE closed == Close(objects, dropped)
  <2>1. getter' = Collected(closed, Range(held)) /\ UNCHANGED <<pc, stale>>
    BY <1>3, <1>15
  <2>2. \A i \in InTable : i \in Ids /\ getter[i] # Nil /\ objects[i] = getter[i] /\ objects[i] \in Getter
    BY <1>11 DEF InTable, Range, TypeOK
  <2>3. ASSUME NEW i \in Ids, i \in dropped
        PROVE  closed[i] \in Getter /\ closed[i].closed
    BY <2>2, <2>3 DEF Close, Getter
  <2>4. \A i \in Ids : i \notin dropped => closed[i] = objects[i]
    BY DEF Close
  <2> HIDE DEF closed
  <2>5. ASSUME NEW i \in Ids
        PROVE  \/ getter'[i] = closed[i]
               \/ getter'[i] = Nil /\ closed[i] # Nil /\ closed[i].closed
    BY <2>1 DEF Collected
  <2>6. getter' \in [Ids -> Getter \cup {Nil}]
    <3>1. getter' = [i \in Ids |-> getter'[i]]
      BY <2>1 DEF Collected
    <3>2. \A i \in Ids : getter'[i] \in Getter \cup {Nil}
      BY <1>10, <2>3, <2>4, <2>5
    <3> QED
      BY <3>1, <3>2
  <2>7. ASSUME NEW p \in dialled
        PROVE  getter'[ids[p]] = fresh(p)
    <3>1. ids[p] \in Ids /\ ids[p] \notin dropped
      BY <1>4, <2>2
    <3>2. closed[ids[p]] = fresh(p)
      BY <1>11, <2>4, <3>1
    <3>3. ~closed[ids[p]].closed
      BY <1>9, <3>2
    <3> QED
      BY <2>5, <3>1, <3>2, <3>3
  <2>8. \A i \in Ids : getter[i] = Nil =>
           getter'[i] = Nil \/ \E p \in dialled : ids[p] = i
    BY <1>11, <2>2, <2>4, <2>5
  <2>9. ASSUME NEW i \in Ids, getter[i] # Nil
        PROVE  \/ getter'[i] = getter[i] /\ i \notin dropped
               \/ getter'[i] = Nil /\ (getter[i].closed \/ i \in dropped)
               \/ getter'[i] \in Getter /\ getter'[i].closed /\ i \in dropped
    BY <1>11, <2>3, <2>4, <2>5, <2>9
  <2> HIDE DEF dropped
  <2>10. getters' \in [Peers -> Ids \cup {Nil}] /\ \A p \in dialled : getters'[p] = ids[p]
    BY <1>3, <1>6
  <2>11. \A p \in dialled :
           /\ getters'[p] \in Ids
           /\ getter[getters'[p]] = Nil
           /\ getter'[getters'[p]] = fresh(p)
    BY <1>4, <2>7, <2>10
  <2>12. \A i \in Ids : getter[i] = Nil =>
           getter'[i] = Nil \/ \E p \in dialled : getters'[p] = i
    BY <2>8, <2>10
  <2>13. /\ \A p \in keep : getters'[p] = getters[p]
         /\ \A p \in Peers : p \notin dialled /\ p \notin keep => getters'[p] = Nil
    BY <1>3, <1>6
  <2>14. transport # "grpc"
    BY <1>15
  <2> QED
    BY <1>3, <1>12, <1>13, <2>1, <2>6, <2>9, <2>10, <2>11, <2>12, <2>13, <2>14, Zenon DEF RebuiltTo
<1> QED
  BY <1>14, <1>15 DEF TypeOK

\* A rebuild keeps the invariant, if the clients that are kept fit the new
\* configuration and there is a cause to drop those in use that are dropped.
LEMMA RebuildIInv ==
    ASSUME IInv, NEW a \in Admins, pc[a] = "idle",
           NEW list \in SUBSET (Peers \cup {Self}),
           NEW keep \in SUBSET (list \cap Peers), NEW dialled \in SUBSET (list \cap Peers),
           RebuiltTo(a, list, keep, dialled, clientTLS', sharedToken'),
           clientTLS' \in TLSConfigs \cup {Plain}, sharedToken' \in Tokens,
           \A p \in keep : /\ getters[p] # Nil
                           /\ getter[getters[p]].tls = clientTLS'
                           /\ transport = "http" => getter[getters[p]].token = sharedToken',
           UNCHANGED <<transport, serving, requests>>,
           server = "up" => clientTLS' = clientTLS,
           excused' \in SUBSET Requests, excused \subseteq excused',
           transport = "grpc" =>
              \A r \in Requests : held[r] \in InTable /\ held[r] \notin InTable' => r \in excused'
    PROVE  IInv'
<1>u. /\ transport' = transport /\ server' = server /\ serverTLS' = serverTLS
      /\ stopped' = stopped /\ request' = request /\ held' = held
  BY DEF serving, requests
<1>t. TypeOK
  BY DEF IInv
<1>1. /\ InTable \subseteq Ids
      /\ InTable' \subseteq Ids
      /\ \A i \in InTable' : \E p \in Peers : getters'[p] = i
      /\ \A p \in Peers : getters[p] # Nil => getters[p] \in InTable
      /\ \A p \in Peers : getters'[p] # Nil => getters'[p] \in InTable'
      /\ InTable \ Range(getters') = InTable \ InTable'
      /\ Nil \notin Ids
  BY <1>t, IdsAssumption DEF TypeOK, RebuiltTo, InTable, Range
<1>2. \A i \in InTable : i \in Ids /\ getter[i] # Nil /\ ~getter[i].closed
  BY <1>1 DEF IInv, ConnectionsAccounted, Open
<1>3. /\ stale[a] = {}
      /\ \A b \in Admins : /\ stale[b] \subseteq Open
                            /\ stale[b] \cap InTable = {}
                            /\ \A c \in Admins \ {b} : stale[b] \cap stale[c] = {}
  BY DEF IInv, StaleAreOpen, ConnectionsAccounted
<1>4. \A i \in Open : i \in Ids /\ getter[i] # Nil /\ ~getter[i].closed
  BY DEF Open
<1>5. \A p \in Peers : getters'[p] # Nil => p \in dialled \/ p \in keep
  BY DEF RebuiltTo
<1>6. \A p \in dialled :
         /\ getters'[p] \in Ids /\ getter[getters'[p]] = Nil
         /\ getter'[getters'[p]] \in Getter
         /\ ~getter'[getters'[p]].closed
         /\ getter'[getters'[p]].peer = p
         /\ getter'[getters'[p]].tls = clientTLS'
         /\ getter'[getters'[p]].token = sharedToken'
  <2> SUFFICES ASSUME NEW p \in dialled
               PROVE  /\ getters'[p] \in Ids /\ getter[getters'[p]] = Nil
                      /\ getter'[getters'[p]] \in Getter
                      /\ ~getter'[getters'[p]].closed
                      /\ getter'[getters'[p]].peer = p
                      /\ getter'[getters'[p]].tls = clientTLS'
                      /\ getter'[getters'[p]].token = sharedToken'
    OBVIOUS
  <2> DEFINE fresh == [peer |-> p, tls |-> clientTLS', token |-> sharedToken', closed |-> FALSE]
  <2>1. /\ getters'[p] \in Ids /\ getter[getters'[p]] = Nil
        /\ getter'[getters'[p]] = fresh
    BY DEF RebuiltTo
  <2>2. fresh \in Getter /\ ~fresh.closed /\ fresh.peer = p
        /\ fresh.tls = clientTLS' /\ fresh.token = sharedToken'
    BY DEF Getter
  <2> HIDE DEF fresh
  <2> QED
    BY <2>1, <2>2
<1>7. \A p \in keep : /\ getters'[p] = getters[p] /\ p \in Peers
                      /\ getters[p] \in InTable /\ getters[p] \in InTable'
                      /\ getter'[getters[p]] = getter[getters[p]]
  <2> SUFFICES ASSUME NEW p \in keep
               PROVE  /\ getters'[p] = getters[p] /\ p \in Peers
                      /\ getters[p] \in InTable /\ getters[p] \in InTable'
                      /\ getter'[getters[p]] = getter[getters[p]]
    OBVIOUS
  <2>1. getters'[p] = getters[p] /\ p \in Peers /\ getters[p] \in InTable /\ getters[p] \in InTable'
    BY <1>1 DEF RebuiltTo
  <2>2. PICK i \in InTable : i = getters[p] /\ i \in InTable' /\ i \in Ids
    BY <1>1, <2>1
  <2>3. getter'[i] = getter[i]
    <3>1. getter[i] # Nil /\ ~getter[i].closed /\ ~(i \in InTable \ Range(getters'))
      BY <1>1, <1>2, <2>2
    <3> QED
      BY <1>t, <2>2, <3>1 DEF RebuiltTo, TypeOK
  <2> QED
    BY <2>1, <2>2, <2>3
<1>8. \A b \in Admins : stale'[b] = IF b = a /\ transport = "grpc"
                                    THEN InTable \ InTable' ELSE stale[b]
  <2>1. CASE transport = "grpc"
    <3>1. stale' = [stale EXCEPT ![a] = InTable \ InTable']
      BY <1>1, <2>1 DEF RebuiltTo
    <3> QED
      BY <1>t, <2>1, <3>1 DEF TypeOK
  <2>2. CASE transport = "http"
    BY <2>2 DEF RebuiltTo
  <2> QED
    BY <1>t, <2>1, <2>2 DEF TypeOK
<1>9. \A b \in Admins : \/ pc'[b] = pc[b] /\ (b # a \/ transport = "http")
                        \/ /\ b = a /\ transport = "grpc"
                           /\ pc'[b] \in {"idle", "closing"}
                           /\ pc'[b] = "idle" => InTable \ InTable' = {}
  BY <1>t, <1>1 DEF RebuiltTo, TypeOK
<1>10. TypeOK'
  <2>1. /\ getters' \in [Peers -> Ids \cup {Nil}]
        /\ getter' \in [Ids -> Getter \cup {Nil}]
        /\ peersList' \subseteq Peers \cup {Self}
        /\ undialled' \subseteq Peers
    BY DEF RebuiltTo
  <2>2. pc' \in [Admins -> {"idle", "closing", "listening", "serving", "draining", "taking"}]
    BY <1>t DEF RebuiltTo, TypeOK
  <2>3. stale' \in [Admins -> SUBSET Ids]
    BY <1>t, <1>1 DEF RebuiltTo, TypeOK
  <2> QED
    BY <1>t, <1>u, <2>1, <2>2, <2>3 DEF TypeOK
<1>11. ConnectionsAccounted'
  <2>1. ASSUME NEW i \in Open'
        PROVE  i \in InTable' \/ \E b \in Admins : i \in stale'[b]
    <3>1. i \in Ids /\ getter'[i] # Nil /\ ~getter'[i].closed
      BY DEF Open
    <3>2. CASE getter[i] = Nil
      BY <1>1, <3>1, <3>2 DEF RebuiltTo
    <3>3. CASE getter[i] # Nil
      <4>1. getter'[i] = getter[i] /\ (transport = "http" => i \notin InTable \ InTable')
        BY <1>t, <1>1, <3>1, <3>3 DEF RebuiltTo, TypeOK
      <4>2. i \in Open
        BY <3>1, <4>1 DEF Open
      <4>3. i \in InTable \/ \E b \in Admins : i \in stale[b]
        BY <4>2 DEF IInv, ConnectionsAccounted
      <4> QED
        BY <1>t, <1>3, <1>8, <4>1, <4>3 DEF TypeOK
    <3> QED
      BY <3>2, <3>3
  <2>2. ASSUME NEW i \in InTable'
        PROVE  i \in Open'
    <3>1. PICK p \in Peers : getters'[p] = i /\ i \in Ids /\ i # Nil
      BY <1>1
    <3>2. CASE p \in dialled
      BY <1>6, <3>1, <3>2, NilAssumption DEF Open
    <3>3. CASE p \in keep
      BY <1>2, <1>7, <3>1, <3>3 DEF Open
    <3> QED
      BY <1>5, <3>1, <3>2, <3>3
  <2>3. ASSUME NEW b \in Admins
        PROVE  stale'[b] \cap InTable' = {}
    <3>1. ASSUME NEW i \in stale[b], i \in InTable'
          PROVE  FALSE
      <4>1. i \in Ids /\ i \notin InTable /\ getter[i] # Nil
        BY <1>3, <1>4
      <4>2. PICK p \in Peers : getters'[p] = i /\ getters'[p] # Nil
        BY <1>1, <3>1
      <4> QED
        BY <1>5, <1>6, <1>7, <4>1, <4>2
    <3> QED
      BY <1>8, <3>1
  <2>4. ASSUME NEW b \in Admins, NEW c \in Admins \ {b}
        PROVE  stale'[b] \cap stale'[c] = {}
    BY <1>3, <1>8
  <2> QED
    BY <2>1, <2>2, <2>3, <2>4 DEF ConnectionsAccounted
<1>12. StaleAreOpen'
  <2>1. ASSUME NEW b \in Admins, NEW i \in stale'[b]
        PROVE  i \in Open'
    <3>1. i \in Ids /\ getter[i] # Nil /\ ~getter[i].closed
      BY <1>2, <1>3, <1>4, <1>8
    <3>2. transport = "http" => i \notin InTable
      BY <1>3, <1>8
    <3>3. getter'[i] = getter[i]
      BY <1>t, <3>1, <3>2 DEF RebuiltTo, TypeOK
    <3> QED
      BY <3>1, <3>3 DEF Open
  <2>2. ASSUME NEW b \in Admins, pc'[b] # "closing"
        PROVE  stale'[b] = {}
    BY <1>3, <1>8, <1>9, <2>2 DEF IInv, StaleAreOpen
  <2> QED
    BY <2>1, <2>2 DEF StaleAreOpen
<1>13. GettersCurrent'
  <2>1. ASSUME NEW p \in Peers, getters'[p] # Nil
        PROVE  /\ p \in peersList'
               /\ getter'[getters'[p]].peer = p
               /\ getter'[getters'[p]].tls = clientTLS'
               /\ transport = "http" => getter'[getters'[p]].token = sharedToken'
    <3>1. CASE p \in dialled
      BY <1>6, <3>1 DEF RebuiltTo
    <3>2. CASE p \in keep
      BY <1>7, <3>2 DEF RebuiltTo, IInv, GettersCurrent
    <3> QED
      BY <1>5, <2>1, <3>1, <3>2
  <2>2. ASSUME NEW p \in Listed', p \notin undialled'
        PROVE  getters'[p] # Nil
    <3>1. p \in list /\ p # Self
      BY DEF Listed, RebuiltTo
    <3>2. p \in dialled \/ p \in keep
      BY <2>2, <3>1 DEF RebuiltTo
    <3> QED
      BY <1>1, <1>6, <1>7, <3>2
  <2>3. server' = "up" => serverTLS' = clientTLS'
    BY <1>u DEF IInv, GettersCurrent
  <2> QED
    BY <1>u, <2>1, <2>2, <2>3 DEF GettersCurrent
<1>14. ShutdownAgrees'
  BY <1>u, <1>9 DEF IInv, ShutdownAgrees
<1>15. HandlersCutOff'
  BY <1>u DEF IInv, HandlersCutOff, Handlers
<1>16. DropsForCause'
  BY <1>u DEF IInv, DropsForCause
<1> QED
  BY <1>10, <1>11, <1>12, <1>13, <1>14, <1>15, <1>16 DEF IInv

-----------------------------------------------------------------------------
(* Every step keeps the invariant *)

\* Set drops a gRPC client in use only if its peer has left the list.
LEMMA SetIInv ==
    ASSUME IInv, NEW a \in Admins, NEW list \in SUBSET (Peers \cup {Self}), Set(a, list)
    PROVE  IInv'
<1> DEFINE keep == Reused(list, clientTLS, sharedToken)
<1>1. /\ pc[a] = "idle"
      /\ Rebuild(a, list, keep, clientTLS, sharedToken)
      /\ excused' = excused \cup Abandoned(list)
      /\ clientTLS' = clientTLS /\ sharedToken' = sharedToken
      /\ UNCHANGED <<transport, serving, requests>>
  BY DEF Set, config
<1>2. TypeOK
  BY DEF IInv
<1>3. keep \in SUBSET (list \cap Peers)
  BY DEF Reused
<1>4. \A p \in keep : /\ getters[p] # Nil
                      /\ getter[getters[p]].tls = clientTLS'
                      /\ transport = "http" => getter[getters[p]].token = sharedToken'
  BY <1>1 DEF Reused, Matches
<1>5. \A i \in InTable : getter[i] # Nil
  BY DEF IInv, ConnectionsAccounted, Open
<1>6. clientTLS \in TLSConfigs \cup {Plain} /\ sharedToken \in Tokens
  BY <1>2 DEF TypeOK
<1>7. PICK dialled \in SUBSET (list \cap Peers) :
         RebuiltTo(a, list, keep, dialled, clientTLS', sharedToken')
  <2> HIDE DEF keep
  <2> QED
    BY <1>1, <1>2, <1>3, <1>4, <1>5, <1>6, RebuildEffect
<1>8. ASSUME transport = "grpc", NEW r \in Requests, held[r] \in InTable, held[r] \notin InTable'
      PROVE  r \in Abandoned(list)
  <2>1. PICK p \in Peers : getters[p] = held[r] /\ held[r] # Nil
    BY <1>2, <1>8, TableMembers
  <2>2. getter[held[r]].peer = p /\ getter[held[r]].tls = clientTLS
    BY <2>1 DEF IInv, GettersCurrent
  <2>3. p \notin keep
    <3>1. ASSUME p \in keep
          PROVE  FALSE
      <4>1. getters'[p] = held[r] /\ getters' \in [Peers -> Ids \cup {Nil}]
        BY <1>7, <2>1, <3>1 DEF RebuiltTo
      <4> QED
        BY <1>8, <2>1, <4>1 DEF InTable, Range
    <3> QED
      BY <3>1
  <2>4. p \notin list
    BY <1>8, <2>1, <2>2, <2>3, NodesAssumption DEF Reused, Matches
  <2> QED
    BY <2>1, <2>2, <2>4 DEF Abandoned
<1>9. excused' \in SUBSET Requests /\ excused \subseteq excused'
  BY <1>1, <1>2 DEF TypeOK, Abandoned
<1>10. transport = "grpc" =>
          \A r \in Requests : held[r] \in InTable /\ held[r] \notin InTable' => r \in excused'
  BY <1>1, <1>8
<1> HIDE DEF keep
<1> QED
  BY <1>1, <1>3, <1>4, <1>6, <1>7, <1>9, <1>10, RebuildIInv

\* Switching TLS replaces all clients; by gRPC it is refused while a server runs.
LEMMA EnableTLSIInv ==
    ASSUME IInv, NEW a \in Admins, NEW tls \in TLSConfigs, EnableTLS(a, tls)
    PROVE  IInv'
<1>1. /\ pc[a] = "idle"
      /\ Rebuild(a, peersList, {}, tls, sharedToken)
      /\ excused' = excused \cup {r \in Requests : held[r] # Nil}
      /\ clientTLS' = tls /\ sharedToken' = sharedToken
      /\ UNCHANGED <<transport, serving, requests>>
      /\ transport = "grpc" => server = "none"
  BY DEF EnableTLS
<1>2. TypeOK
  BY DEF IInv
<1>3. \A i \in InTable : getter[i] # Nil
  BY DEF IInv, ConnectionsAccounted, Open
<1>4. /\ clientTLS' \in TLSConfigs \cup {Plain} /\ sharedToken' \in Tokens
      /\ peersList \in SUBSET (Peers \cup {Self})
  BY <1>1, <1>2 DEF TypeOK
<1>5. PICK dialled \in SUBSET (peersList \cap Peers) :
         RebuiltTo(a, peersList, {}, dialled, clientTLS', sharedToken')
  BY <1>1, <1>2, <1>3, <1>4, RebuildEffect
<1>6. server = "none"
  BY <1>1, <1>2 DEF IInv, ShutdownAgrees, TypeOK
<1>7. excused' \in SUBSET Requests /\ excused \subseteq excused'
  BY <1>1, <1>2 DEF TypeOK
<1>8. \A r \in Requests : held[r] \in InTable => r \in excused'
  BY <1>1 DEF InTable
<1> QED
  BY <1>1, <1>4, <1>5, <1>6, <1>7, <1>8, RebuildIInv

\* A new token replaces the clients of HTTP; a gRPC client reads it at each call.
LEMMA SetSharedTokenIInv ==
    ASSUME IInv, NEW a \in Admins, NEW token \in Tokens, SetSharedToken(a, token)
    PROVE  IInv'
<1>t. TypeOK
  BY DEF IInv
<1>1. /\ pc[a] = "idle" /\ sharedToken' = token /\ clientTLS' = clientTLS
      /\ excused' = excused /\ UNCHANGED <<transport, serving, requests>>
  BY DEF SetSharedToken
<1>2. CASE transport = "http" /\ ~Current(clientTLS, token)
  <2> DEFINE keep == Reused(peersList, clientTLS, token)
  <2>1. Rebuild(a, peersList, keep, clientTLS, token)
    BY <1>2 DEF SetSharedToken
  <2>2. keep \in SUBSET (peersList \cap Peers) /\ peersList \in SUBSET (Peers \cup {Self})
    BY <1>t DEF Reused, TypeOK
  <2>3. \A p \in keep : /\ getters[p] # Nil
                        /\ getter[getters[p]].tls = clientTLS'
                        /\ transport = "http" => getter[getters[p]].token = sharedToken'
    BY <1>1 DEF Reused, Matches
  <2>4. \A i \in InTable : getter[i] # Nil
    BY DEF IInv, ConnectionsAccounted, Open
  <2>5. clientTLS \in TLSConfigs \cup {Plain}
    BY <1>t DEF TypeOK
  <2> HIDE DEF keep
  <2>6. PICK dialled \in SUBSET (peersList \cap Peers) :
           RebuiltTo(a, peersList, keep, dialled, clientTLS', sharedToken')
    BY <1>t, <1>1, <2>1, <2>2, <2>3, <2>4, <2>5, RebuildEffect
  <2>7. excused' \in SUBSET Requests /\ transport # "grpc"
    BY <1>t, <1>1, <1>2 DEF TypeOK
  <2> QED
    BY <1>1, <2>2, <2>3, <2>5, <2>6, <2>7, RebuildIInv
<1>3. CASE ~(transport = "http" /\ ~Current(clientTLS, token))
  <2>1. /\ UNCHANGED <<table, pc, stale>> /\ transport' = transport
        /\ UNCHANGED <<server, serverTLS, stopped, request, held>>
    BY <1>1, <1>3 DEF SetSharedToken, serving, requests
  <2>2. TypeOK'
    BY <1>t, <1>1, <2>1 DEF TypeOK, table
  <2>3. Open' = Open /\ InTable' = InTable
    BY <2>1 DEF Open, InTable, table
  <2>4. ConnectionsAccounted' /\ StaleAreOpen'
    BY <2>1, <2>3 DEF IInv, ConnectionsAccounted, StaleAreOpen
  <2>5. ASSUME transport = "http", NEW p \in Peers, getters[p] # Nil
        PROVE  getter[getters[p]].token = token
    <3>1. p \in Listed
      BY <2>5, NodesAssumption DEF IInv, GettersCurrent, Listed
    <3> QED
      BY <1>3, <2>5, <3>1 DEF Current, Matches
  <2>6. GettersCurrent'
    BY <1>1, <2>1, <2>5 DEF IInv, GettersCurrent, Listed, table
  <2>7. ShutdownAgrees' /\ HandlersCutOff' /\ DropsForCause'
    BY <1>1, <2>1, <2>3
    DEF IInv, ShutdownAgrees, HandlersCutOff, Handlers, DropsForCause
  <2> QED
    BY <2>2, <2>4, <2>6, <2>7 DEF IInv
<1> QED
  BY <1>2, <1>3

\* Collecting closed clients that nobody holds leaves the open ones alone.
LEMMA CollectedEffect ==
    ASSUME TypeOK, NEW closing \in SUBSET Open, NEW requestsHold,
           getter' = Collected(Close(getter, closing), requestsHold)
    PROVE  /\ getter' \in [Ids -> Getter \cup {Nil}]
           /\ Open' = Open \ closing
           /\ \A i \in Open' : getter'[i] = getter[i]
<1> DEFINE objects == Close(getter, closing)
<1>1. \A i \in closing : i \in Ids /\ getter[i] \in Getter
  BY DEF Open, TypeOK
<1>2. ASSUME NEW i \in closing
      PROVE  objects[i] \in Getter /\ objects[i] # Nil /\ objects[i].closed
  BY <1>1, NilAssumption DEF Close, Getter
<1>3. \A i \in Ids : i \notin closing => objects[i] = getter[i]
  BY DEF Close
<1> HIDE DEF objects
<1>4. /\ getter' = [i \in Ids |-> getter'[i]]
      /\ \A i \in Ids : \/ getter'[i] = objects[i]
                        \/ getter'[i] = Nil /\ objects[i] # Nil /\ objects[i].closed
  <2>1. getter' = [i \in Ids |-> IF objects[i] # Nil /\ objects[i].closed /\ i \notin requestsHold
                                 THEN Nil ELSE objects[i]]
    BY DEF Collected, objects
  <2>2. getter' = [i \in Ids |-> getter'[i]]
    BY <2>1
  <2>3. \A i \in Ids : getter'[i] = IF objects[i] # Nil /\ objects[i].closed /\ i \notin requestsHold
                                   THEN Nil ELSE objects[i]
    BY <2>1
  <2> QED
    BY <2>2, <2>3
<1>5. \A i \in Ids : getter'[i] \in Getter \cup {Nil}
  BY <1>2, <1>3, <1>4 DEF TypeOK
<1>6. ASSUME NEW i \in Ids
      PROVE  /\ i \in Open' <=> i \in Open /\ i \notin closing
             /\ i \in Open' => getter'[i] = getter[i]
  <2>1. CASE i \in closing
    BY <1>2, <1>4, <2>1 DEF Open
  <2>2. CASE i \notin closing
    BY <1>3, <1>4, <2>2 DEF Open
  <2> QED
    BY <2>1, <2>2
<1>7. Open' \subseteq Ids /\ Open \subseteq Ids
  BY DEF Open
<1> QED
  BY <1>4, <1>5, <1>6, <1>7

\* closeGetters closes one after the other.
LEMMA CloseOneIInv ==
    ASSUME IInv, NEW a \in Admins, CloseOne(a)
    PROVE  IInv'
<1>t. TypeOK
  BY DEF IInv
<1>1. PICK i \in stale[a] :
         /\ pc[a] = "closing"
         /\ getter' = Collected(Close(getter, {i}), Range(held))
         /\ stale' = [stale EXCEPT ![a] = @ \ {i}]
         /\ pc' = [pc EXCEPT ![a] = IF stale[a] = {i} THEN "idle" ELSE "closing"]
  BY DEF CloseOne
<1>2. /\ UNCHANGED <<transport, peersList, getters, undialled, clientTLS, sharedToken>>
      /\ UNCHANGED <<server, serverTLS, stopped, request, held, excused>>
  BY DEF CloseOne, config, serving, requests
<1>3. /\ \A b \in Admins : /\ stale[b] \subseteq Open
                            /\ stale[b] \cap InTable = {}
                            /\ \A c \in Admins \ {b} : stale[b] \cap stale[c] = {}
      /\ InTable \subseteq Open
  BY DEF IInv, StaleAreOpen, ConnectionsAccounted
<1>4. {i} \in SUBSET Open
  BY <1>3
<1>5. /\ getter' \in [Ids -> Getter \cup {Nil}]
      /\ Open' = Open \ {i}
      /\ \A j \in Open' : getter'[j] = getter[j]
  BY <1>t, <1>1, <1>4, CollectedEffect
<1>6. InTable' = InTable /\ InTable \subseteq Open'
  BY <1>2, <1>3, <1>5 DEF InTable
<1>7. \A b \in Admins : /\ stale'[b] = IF b = a THEN stale[a] \ {i} ELSE stale[b]
                        /\ pc'[b] = IF b = a THEN IF stale[a] = {i} THEN "idle" ELSE "closing"
                                             ELSE pc[b]
  BY <1>t, <1>1 DEF TypeOK
<1>8. TypeOK'
  <2>1. stale' \in [Admins -> SUBSET Ids]
    BY <1>t, <1>1 DEF TypeOK
  <2>2. pc' \in [Admins -> {"idle", "closing", "listening", "serving", "draining", "taking"}]
    BY <1>t, <1>1 DEF TypeOK
  <2> QED
    BY <1>t, <1>2, <1>5, <2>1, <2>2 DEF TypeOK
<1>9. ConnectionsAccounted'
  <2>1. \A j \in Open : j \in InTable \/ \E b \in Admins : j \in stale[b]
    BY DEF IInv, ConnectionsAccounted
  <2>2. \A j \in Open' : j \in InTable' \/ \E b \in Admins : j \in stale'[b]
    BY <1>5, <1>6, <1>7, <2>1
  <2> QED
    BY <1>3, <1>6, <1>7, <2>2 DEF ConnectionsAccounted
<1>10. StaleAreOpen'
  BY <1>3, <1>5, <1>7 DEF IInv, StaleAreOpen
<1>11. GettersCurrent'
  <2>1. \A p \in Peers : getters[p] # Nil => getter'[getters[p]] = getter[getters[p]]
    BY <1>t, <1>5, <1>6, TableMembers
  <2> QED
    BY <1>2, <2>1 DEF IInv, GettersCurrent, Listed
<1>12. ShutdownAgrees'
  BY <1>1, <1>2, <1>7 DEF IInv, ShutdownAgrees
<1>13. HandlersCutOff' /\ DropsForCause'
  BY <1>2, <1>6 DEF IInv, HandlersCutOff, Handlers, DropsForCause
<1> QED
  BY <1>8, <1>9, <1>10, <1>11, <1>12, <1>13 DEF IInv

\* A request that ends gives its client back and needs no excuse any more.
LEMMA EndIInv ==
    ASSUME IInv, NEW r \in Requests, End(r)
    PROVE  IInv'
<1>t. TypeOK
  BY DEF IInv
<1>1. /\ request' = [request EXCEPT ![r] = "none"]
      /\ held' = [held EXCEPT ![r] = Nil]
      /\ getter' = Collected(getter, Range(held'))
      /\ excused' = excused \ {r}
      /\ UNCHANGED <<transport, peersList, getters, undialled, clientTLS, sharedToken>>
      /\ UNCHANGED <<server, serverTLS, stopped, pc, stale>>
  BY DEF End, config, serving
<1>2. getter = Close(getter, {})
  BY <1>t DEF Close, TypeOK
<1>3. /\ getter' \in [Ids -> Getter \cup {Nil}]
      /\ Open' = Open
      /\ \A j \in Open' : getter'[j] = getter[j]
  <2>1. getter' = Collected(Close(getter, {}), Range(held'))
    BY <1>1, <1>2
  <2>2. {} \in SUBSET Open
    OBVIOUS
  <2>3. Open' = Open \ {}
    BY <1>t, <2>1, <2>2, CollectedEffect
  <2> QED
    BY <1>t, <2>1, <2>2, <2>3, CollectedEffect
<1>4. InTable' = InTable /\ InTable \subseteq Open'
  BY <1>1, <1>3 DEF InTable, IInv, ConnectionsAccounted
<1>5. TypeOK'
  BY <1>t, <1>1, <1>3 DEF TypeOK
<1>6. ConnectionsAccounted' /\ StaleAreOpen'
  BY <1>1, <1>3, <1>4 DEF IInv, ConnectionsAccounted, StaleAreOpen
<1>7. GettersCurrent'
  <2>1. \A p \in Peers : getters[p] # Nil => getter'[getters[p]] = getter[getters[p]]
    BY <1>t, <1>3, <1>4, TableMembers
  <2> QED
    BY <1>1, <2>1 DEF IInv, GettersCurrent, Listed
<1>8. ShutdownAgrees'
  BY <1>1 DEF IInv, ShutdownAgrees
<1>9. \A q \in Requests : /\ request'[q] = IF q = r THEN "none" ELSE request[q]
                         /\ held'[q] = IF q = r THEN Nil ELSE held[q]
  BY <1>t, <1>1 DEF TypeOK
<1>10. HandlersCutOff'
  BY <1>1, <1>9 DEF IInv, HandlersCutOff, Handlers
<1>11. DropsForCause'
  <2>1. ASSUME NEW q \in Requests, held'[q] # Nil
        PROVE  q # r /\ request'[q] = request[q] /\ held'[q] = held[q]
    BY <1>9, <2>1
  <2>2. transport' = transport /\ stopped' = stopped /\ \A q \in excused : q # r => q \in excused'
    BY <1>1
  <2> QED
    BY <1>4, <2>1, <2>2 DEF IInv, DropsForCause
<1> QED
  BY <1>5, <1>6, <1>7, <1>8, <1>10, <1>11 DEF IInv

\* A step that changes neither clients nor configuration keeps what is said of them.
LEMMA TableUntouched ==
    ASSUME IInv, UNCHANGED <<table, config, transport>>,
           ~stopped' => ~stopped, server' = "up" => serverTLS' = clientTLS,
           UNCHANGED stale, \A a \in Admins : pc'[a] # pc[a] => stale[a] = {}
    PROVE  /\ ConnectionsAccounted' /\ StaleAreOpen' /\ GettersCurrent'
           /\ InTable' = InTable
<1> USE DEF table, config
<1>1. Open' = Open /\ InTable' = InTable
  BY DEF Open, InTable
<1>2. ConnectionsAccounted'
  BY <1>1 DEF IInv, ConnectionsAccounted
<1>3. StaleAreOpen'
  BY <1>1 DEF IInv, StaleAreOpen
<1>4. GettersCurrent'
  BY DEF IInv, GettersCurrent, Listed
<1> QED
  BY <1>1, <1>2, <1>3, <1>4

\* A request arrives, and picks a client from the table.
LEMMA RequestIInv ==
    ASSUME IInv, NEW r \in Requests,
           \/ \E from \in {"local", "inbound"} : Arrive(r, from)
           \/ \E p \in Peers : PickPeer(r, p)
    PROVE  IInv'
<1>t. TypeOK
  BY DEF IInv
<1>1. /\ UNCHANGED <<table, config, transport, pc, stale, excused>>
      /\ UNCHANGED <<server, serverTLS, stopped>>
  BY DEF Arrive, PickPeer, serving
<1>2. ConnectionsAccounted' /\ StaleAreOpen' /\ GettersCurrent' /\ InTable' = InTable
  BY <1>1, TableUntouched DEF IInv, GettersCurrent
<1>3. ShutdownAgrees'
  BY <1>1 DEF IInv, ShutdownAgrees
<1>4. ASSUME NEW from \in {"local", "inbound"}, Arrive(r, from)
      PROVE  TypeOK' /\ HandlersCutOff' /\ DropsForCause'
  <2>1. /\ request[r] = "none" /\ request' = [request EXCEPT ![r] = from]
        /\ held' = held
        /\ from = "inbound" => transport = "http" \/ server = "up"
    BY <1>4 DEF Arrive, Accepting
  <2>2. TypeOK'
    BY <1>t, <1>1, <2>1 DEF TypeOK, table, config
  <2>3. \A q \in Requests : /\ q = r => request'[q] = from
                           /\ q # r => request'[q] = request[q]
    BY <1>t, <2>1 DEF TypeOK
  <2>4. HandlersCutOff'
    BY <1>1, <2>1, <2>3 DEF IInv, HandlersCutOff, Handlers
  <2>5. DropsForCause'
    BY <1>1, <1>2, <2>1, <2>3 DEF IInv, DropsForCause
  <2> QED
    BY <2>2, <2>4, <2>5
<1>5. ASSUME NEW p \in Peers, PickPeer(r, p)
      PROVE  TypeOK' /\ HandlersCutOff' /\ DropsForCause'
  <2>1. /\ request[r] # "none" /\ request' = request /\ getters[p] # Nil
        /\ held' = [held EXCEPT ![r] = getters[p]]
    BY <1>5 DEF PickPeer
  <2>2. TypeOK'
    BY <1>t, <1>1, <2>1 DEF TypeOK, table, config
  <2>3. HandlersCutOff'
    BY <1>1, <2>1 DEF IInv, HandlersCutOff, Handlers
  <2>4. getters[p] \in InTable
    BY <1>t, <2>1, TableMembers
  <2>5. \A q \in Requests : /\ q = r => held'[q] = getters[p]
                           /\ q # r => held'[q] = held[q]
    BY <1>t, <2>1 DEF TypeOK
  <2>6. DropsForCause'
    BY <1>1, <1>2, <2>1, <2>4, <2>5 DEF IInv, DropsForCause
  <2> QED
    BY <2>2, <2>3, <2>6
<1> QED
  BY <1>2, <1>3, <1>4, <1>5 DEF IInv

\* What a goroutine of the gRPC server does before it takes the table.
ServerStep(a) ==
    Bind(a) \/ ServeListener(a) \/ ServeReturns(a) \/ Shutdown(a) \/ Drained(a) \/ Forced(a)

\* A goroutine moves on from where it has nothing to close.
LEMMA GoEffect ==
    ASSUME IInv, NEW a \in Admins, NEW from, NEW to, Go(a, from, to), from # "closing",
           to \in {"idle", "closing", "listening", "serving", "draining", "taking"}
    PROVE  /\ pc[a] = from /\ stale[a] = {}
           /\ pc' \in [Admins -> {"idle", "closing", "listening", "serving", "draining", "taking"}]
           /\ \A b \in Admins : pc'[b] = IF b = a THEN to ELSE pc[b]
BY DEF IInv, TypeOK, StaleAreOpen, Go

\* The server goes up only before the pool is stopped, and down when every handler has
\* ended or been cut off.
LEMMA ServerIInv ==
    ASSUME IInv, NEW a \in Admins, ServerStep(a)
    PROVE  IInv'
<1>t. TypeOK
  BY DEF IInv
<1>1. /\ UNCHANGED <<table, config, transport, stale, request, held>>
      /\ excused \subseteq excused' /\ excused' \subseteq Requests
  BY <1>t DEF ServerStep, Bind, ServeListener, ServeReturns, Shutdown, Drained, Forced,
              requests, TypeOK, Handlers
<1>2. PICK from, to :
         /\ Go(a, from, to) /\ from # "closing"
         /\ to \in {"idle", "listening", "serving", "draining", "taking"}
         /\ \/ /\ to \in {"idle", "listening", "serving"}
               /\ UNCHANGED <<server, serverTLS, stopped>>
               /\ from # "idle" \/ transport = "grpc"
            \/ /\ from = "listening" /\ to = "serving" /\ ~stopped
               /\ server' = "up" /\ serverTLS' = clientTLS /\ stopped' = stopped
            \/ /\ from = "idle" /\ ~stopped /\ stopped' /\ transport = "grpc"
               /\ \/ server = "none" /\ to = "taking" /\ server' = server
                  \/ to = "draining" /\ server' = "draining"
            \/ /\ from = "draining" /\ to = "taking" /\ stopped' = stopped
               /\ server' = "down" /\ \A r \in Handlers : r \in excused'
  <2>1. CASE Bind(a)
    <3>1. Go(a, "idle", "listening")
      BY <2>1 DEF Bind
    <3> QED
      BY <2>1, <3>1 DEF Bind, serving
  <2>2. CASE ServeListener(a)
    <3>1. CASE stopped \/ server # "none"
      <4>1. Go(a, "listening", "idle")
        BY <2>2, <3>1 DEF ServeListener
      <4> QED
        BY <2>2, <3>1, <4>1 DEF ServeListener
    <3>2. CASE ~(stopped \/ server # "none")
      <4>1. Go(a, "listening", "serving")
        BY <2>2, <3>2 DEF ServeListener
      <4> QED
        BY <2>2, <3>2, <4>1 DEF ServeListener
    <3> QED
      BY <3>1, <3>2
  <2>3. CASE ServeReturns(a)
    <3>1. Go(a, "serving", "idle")
      BY <2>3 DEF ServeReturns
    <3> QED
      BY <2>3, <3>1 DEF ServeReturns, serving
  <2>4. CASE Shutdown(a)
    <3>1. CASE server = "none"
      <4>1. Go(a, "idle", "taking")
        BY <2>4, <3>1 DEF Shutdown
      <4> QED
        BY <2>4, <3>1, <4>1 DEF Shutdown
    <3>2. CASE server # "none"
      <4>1. Go(a, "idle", "draining")
        BY <2>4, <3>2 DEF Shutdown
      <4> QED
        BY <2>4, <3>2, <4>1 DEF Shutdown
    <3> QED
      BY <3>1, <3>2
  <2>5. CASE Drained(a)
    <3>1. Go(a, "draining", "taking")
      BY <2>5 DEF Drained
    <3> QED
      BY <2>5, <3>1 DEF Drained, HandlersDone
  <2>6. CASE Forced(a)
    <3>1. Go(a, "draining", "taking")
      BY <2>6 DEF Forced
    <3> QED
      BY <2>6, <3>1 DEF Forced
  <2> QED
    BY <2>1, <2>2, <2>3, <2>4, <2>5, <2>6 DEF ServerStep
<1>3. /\ pc[a] = from /\ stale[a] = {}
      /\ pc' \in [Admins -> {"idle", "closing", "listening", "serving", "draining", "taking"}]
      /\ \A b \in Admins : pc'[b] = IF b = a THEN to ELSE pc[b]
  <2>1. to \in {"idle", "closing", "listening", "serving", "draining", "taking"}
    BY <1>2
  <2> QED
    BY <1>2, <2>1, GoEffect
<1>4. TypeOK'
  <2>1. /\ server' \in {"none", "up", "draining", "down"} /\ stopped' \in BOOLEAN
        /\ serverTLS' \in TLSConfigs \cup {Plain}
    BY <1>t DEF ServerStep, Bind, ServeListener, ServeReturns, Shutdown, Drained, Forced,
                serving, TypeOK
  <2> QED
    BY <1>t, <1>1, <1>3, <2>1 DEF TypeOK, table, config
<1>5. ConnectionsAccounted' /\ StaleAreOpen' /\ GettersCurrent' /\ InTable' = InTable
  <2>1. server' = "up" => serverTLS' = clientTLS
    BY <1>2 DEF IInv, GettersCurrent
  <2>2. ~stopped' => ~stopped
    BY <1>2
  <2> QED
    BY <1>1, <1>3, <2>1, <2>2, TableUntouched
<1>6. transport = "grpc"
  BY <1>t, <1>2, <1>3 DEF IInv, ShutdownAgrees, TypeOK
<1>7. ShutdownAgrees'
  BY <1>1, <1>2, <1>3, <1>6 DEF IInv, ShutdownAgrees
<1>8. HandlersCutOff'
  <2>1. Handlers' = Handlers
    BY <1>1 DEF Handlers
  <2>2. \/ server' \in {"up", "draining"}
        \/ \A r \in Handlers : r \in excused'
        \/ server' = server
    BY <1>2
  <2> QED
    BY <1>1, <2>1, <2>2 DEF IInv, HandlersCutOff
<1>9. DropsForCause'
  BY <1>1, <1>2, <1>5 DEF IInv, DropsForCause
<1> QED
  BY <1>4, <1>5, <1>7, <1>8, <1>9 DEF IInv

\* Shutdown takes the table when no handler is left that may still forward.
LEMMA TakeIInv ==
    ASSUME IInv, NEW a \in Admins, Take(a)
    PROVE  IInv'
<1>t. TypeOK
  BY DEF IInv
<1>1. /\ pc[a] = "taking"
      /\ stale' = [stale EXCEPT ![a] = InTable]
      /\ pc' = [pc EXCEPT ![a] = IF InTable = {} THEN "idle" ELSE "closing"]
      /\ getters' = [p \in Peers |-> Nil]
      /\ UNCHANGED <<transport, peersList, getter, undialled, clientTLS, sharedToken>>
      /\ UNCHANGED <<server, serverTLS, stopped, request, held, excused>>
  BY DEF Take, Go, config, serving, requests
<1>2. /\ Open' = Open /\ InTable' = {}
      /\ InTable \subseteq Ids
  BY <1>t, <1>1 DEF Open, InTable, Range, TypeOK
<1>3. \A b \in Admins : /\ stale'[b] = IF b = a THEN InTable ELSE stale[b]
                        /\ pc'[b] = IF b = a THEN IF InTable = {} THEN "idle" ELSE "closing"
                                             ELSE pc[b]
  BY <1>t, <1>1 DEF TypeOK
<1>4. stale[a] = {}
  BY <1>1 DEF IInv, StaleAreOpen
<1>5. stopped /\ server \in {"none", "down"} /\ transport = "grpc"
  BY <1>t, <1>1 DEF IInv, ShutdownAgrees, TypeOK
<1>6. TypeOK'
  <2>1. /\ getters' \in [Peers -> Ids \cup {Nil}]
        /\ stale' \in [Admins -> SUBSET Ids]
        /\ pc' \in [Admins -> {"idle", "closing", "listening", "serving", "draining", "taking"}]
    BY <1>t, <1>1, <1>2 DEF TypeOK
  <2> QED
    BY <1>t, <1>1, <2>1 DEF TypeOK
<1>7. ConnectionsAccounted'
  <2>1. \A i \in Open : i \in InTable \/ \E b \in Admins : i \in stale[b]
    BY DEF IInv, ConnectionsAccounted
  <2>2. \A i \in Open' : \E b \in Admins : i \in stale'[b]
    BY <1>2, <1>3, <1>4, <2>1
  <2>3. \A b \in Admins : /\ stale[b] \cap InTable = {}
                          /\ \A c \in Admins \ {b} : stale[b] \cap stale[c] = {}
    BY DEF IInv, ConnectionsAccounted
  <2>4. \A b \in Admins : \A c \in Admins \ {b} : stale'[b] \cap stale'[c] = {}
    BY <1>3, <2>3
  <2> QED
    BY <1>2, <2>2, <2>4 DEF ConnectionsAccounted
<1>8. StaleAreOpen'
  BY <1>2, <1>3, <1>4 DEF IInv, StaleAreOpen, ConnectionsAccounted
<1>9. GettersCurrent'
  BY <1>1, <1>5 DEF IInv, GettersCurrent
<1>10. ShutdownAgrees'
  BY <1>1, <1>3, <1>5 DEF IInv, ShutdownAgrees
<1>11. HandlersCutOff'
  BY <1>1 DEF IInv, HandlersCutOff, Handlers
<1>12. DropsForCause'
  <2>1. ASSUME NEW r \in Requests, held[r] # Nil
        PROVE  r \in excused \/ request[r] = "local"
    <3>1. request[r] \in {"local", "inbound"}
      BY <1>t, <2>1 DEF IInv, DropsForCause, TypeOK
    <3>2. request[r] = "inbound" => r \in excused
      BY <1>5 DEF IInv, HandlersCutOff, Handlers
    <3> QED
      BY <3>1, <3>2
  <2> QED
    BY <1>1, <1>5, <2>1 DEF IInv, DropsForCause
<1> QED
  BY <1>6, <1>7, <1>8, <1>9, <1>10, <1>11, <1>12 DEF IInv

\* The invariant is inductive.
LEMMA NextIInv == IInv /\ [Next]_vars => IInv'
<1> SUFFICES ASSUME IInv, [Next]_vars
             PROVE  IInv'
  OBVIOUS
<1>1. ASSUME NEW a \in Admins, NEW list \in SUBSET (Peers \cup {Self}), Set(a, list)
      PROVE  IInv'
  BY <1>1, SetIInv
<1>2. ASSUME NEW a \in Admins, NEW tls \in TLSConfigs, EnableTLS(a, tls)
      PROVE  IInv'
  BY <1>2, EnableTLSIInv
<1>3. ASSUME NEW a \in Admins, NEW token \in Tokens, SetSharedToken(a, token)
      PROVE  IInv'
  BY <1>3, SetSharedTokenIInv
<1>4. ASSUME NEW a \in Admins, CloseOne(a)
      PROVE  IInv'
  BY <1>4, CloseOneIInv
<1>5. ASSUME NEW a \in Admins, ServerStep(a)
      PROVE  IInv'
  BY <1>5, ServerIInv
<1>6. ASSUME NEW a \in Admins, Take(a)
      PROVE  IInv'
  BY <1>6, TakeIInv
<1>7. ASSUME NEW r \in Requests,
             \/ \E from \in {"local", "inbound"} : Arrive(r, from)
             \/ \E p \in Peers : PickPeer(r, p)
      PROVE  IInv'
  BY <1>7, RequestIInv
<1>8. ASSUME NEW r \in Requests, End(r)
      PROVE  IInv'
  BY <1>8, EndIInv
<1>9. CASE UNCHANGED vars
  <2>1. /\ UNCHANGED <<transport, peersList, getters, getter, undialled, clientTLS, sharedToken>>
        /\ UNCHANGED <<server, serverTLS, stopped, pc, stale, request, held, excused>>
    BY <1>9 DEF vars, table, config, serving, requests
  <2>2. Open' = Open /\ InTable' = InTable /\ Handlers' = Handlers
    BY <2>1 DEF Open, InTable, Handlers
  <2>3. TypeOK'
    BY <2>1 DEF IInv, TypeOK
  <2>4. ConnectionsAccounted' /\ StaleAreOpen'
    BY <2>1, <2>2 DEF IInv, ConnectionsAccounted, StaleAreOpen
  <2>5. GettersCurrent'
    BY <2>1 DEF IInv, GettersCurrent, Listed
  <2>6. ShutdownAgrees' /\ HandlersCutOff' /\ DropsForCause'
    BY <2>1, <2>2 DEF IInv, ShutdownAgrees, HandlersCutOff, DropsForCause
  <2> QED
    BY <2>3, <2>4, <2>5, <2>6 DEF IInv
<1> QED
  BY <1>1, <1>2, <1>3, <1>4, <1>5, <1>6, <1>7, <1>8, <1>9 DEF Next, ServerStep

\* The invariant holds in every execution of either pool.
THEOREM PoolInvariant == Spec => []IInv
BY InitIInv, NextIInv, PTL DEF Spec

\* Type correctness of the pool.
THEOREM PoolTypeOK == Spec => []TypeOK
<1>1. IInv => TypeOK
  BY DEF IInv
<1> QED
  BY <1>1, PoolInvariant, PTL

\* However many goroutines set peers, switch TLS, change the token and stop the
\* pool at once, every open client is in the table or is about to be closed by
\* exactly one of them, and the table has no closed one.
THEOREM NoConnectionLeaks == Spec => []ConnectionsAccounted
<1>1. IInv => ConnectionsAccounted
  BY DEF IInv
<1> QED
  BY <1>1, PoolInvariant, PTL

\* A pick always gets a client of a listed peer with the present configuration, and
\* a server that runs has the configuration of the clients.
THEOREM ClientsAreCurrent == Spec => []GettersCurrent
<1>1. IInv => GettersCurrent
  BY DEF IInv
<1> QED
  BY <1>1, PoolInvariant, PTL

\* No gRPC client is closed under a request without a cause: closing outside the
\* lock never hits a client that is in use again, and a graceful stop closes none
\* under a handler.
THEOREM NothingBreaksUncaused == Spec => []BreaksForCause
<1>1. ASSUME IInv
      PROVE  BreaksForCause
  <2> SUFFICES ASSUME NEW r \in Requests, held[r] # Nil, getter[held[r]].closed,
                      transport = "grpc"
               PROVE  r \in excused \/ (stopped /\ request[r] = "local")
    BY DEF BreaksForCause
  <2>1. held[r] \notin InTable
    BY <1>1 DEF IInv, ConnectionsAccounted, Open
  <2> QED
    BY <1>1, <2>1 DEF IInv, DropsForCause
<1> QED
  BY <1>1, PoolInvariant, PTL
=============================================================================
