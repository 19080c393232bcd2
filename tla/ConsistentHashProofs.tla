------------------------ MODULE ConsistentHashProofs ------------------------
(***************************************************************************)
(* Proofs about the hash ring, for any finite set of nodes, any number of  *)
(* virtual nodes and any hash function, collisions included.               *)
(***************************************************************************)
EXTENDS ConsistentHash, FiniteSetTheorems, WellFoundedInduction, TLAPS

-----------------------------------------------------------------------------
(* The search for the least element and for the successor on the ring *)

\* Smallest returns the least element of a non-empty set of numbers: the binary
\* search of Get and the "first come" rule of Add are well defined.
LEMMA SmallestIsLeast ==
    ASSUME NEW S \in SUBSET Nat, S # {}
    PROVE  /\ Smallest(S) \in S
           /\ \A y \in S : Smallest(S) <= y
<1> DEFINE Less == {p \in Nat \X Nat : p[1] < p[2]}
<1>1. IsWellFoundedOn(Less, Nat)
  BY NatLessThanWellFounded DEF OpToRel
<1>2. \E x \in S : \A y \in S : ~(<<y, x>> \in Less)
  <2> HIDE DEF Less
  <2> QED
    BY <1>1, WFMin, Zenon
<1>3. PICK x \in S : \A y \in S : ~(<<y, x>> \in Less)
  BY <1>2
<1>4. ASSUME NEW y \in S
      PROVE  x <= y
  <2>1. ~(<<y, x>> \in Less)
    BY <1>3
  <2>2. x \in Nat /\ y \in Nat
    OBVIOUS
  <2> QED
    BY <2>1, <2>2
<1> QED
  BY <1>4 DEF Smallest

\* Hash values are natural numbers.
LEMMA HashesAreNaturals == Hashes \subseteq Nat
BY MaxHashAssumption DEF Hashes

\* s is the first slot at or after h, or else the first slot of all.
IsSuccessor(ks, h, s) ==
    /\ s \in ks
    /\ \A k \in ks : \/ s >= h /\ (k >= h => s <= k)
                     \/ s < h /\ k < h /\ s <= k

\* Get's binary search with wrap-around finds that slot (consistenthash.go:113-118).
LEMMA SuccessorFound ==
    ASSUME NEW ks \in SUBSET Hashes, ks # {}, NEW h \in Hashes
    PROVE  IsSuccessor(ks, h, Successor(ks, h))
<1> DEFINE after == {k \in ks : k >= h}
<1>1. ks \in SUBSET Nat /\ after \in SUBSET Nat /\ h \in Nat
  BY HashesAreNaturals
<1>2. CASE after = {}
  <2>1. Successor(ks, h) = Smallest(ks)
    BY <1>2 DEF Successor
  <2>2. Smallest(ks) \in ks /\ \A y \in ks : Smallest(ks) <= y
    BY <1>1, SmallestIsLeast
  <2>3. \A k \in ks : k < h
    BY <1>1, <1>2
  <2> HIDE DEF after
  <2> QED
    BY <2>1, <2>2, <2>3 DEF IsSuccessor
<1>3. CASE after # {}
  <2>1. Successor(ks, h) = Smallest(after)
    BY <1>3 DEF Successor
  <2>2. Smallest(after) \in after /\ \A y \in after : Smallest(after) <= y
    <3> HIDE DEF after
    <3> QED
      BY <1>1, <1>3, SmallestIsLeast
  <2> QED
    BY <2>1, <2>2 DEF IsSuccessor
<1> QED
  BY <1>2, <1>3

\* If the successors of h in two rings are slots of both, they are the same.
LEMMA SuccessorUnique ==
    ASSUME NEW ks \in SUBSET Nat, NEW kt \in SUBSET Nat, NEW h \in Nat, NEW s, NEW t,
           IsSuccessor(ks, h, s), IsSuccessor(kt, h, t), s \in kt, t \in ks
    PROVE  s = t
BY DEF IsSuccessor

-----------------------------------------------------------------------------
(* What Add does to the arriving peers *)

\* The members of a normalized list are nodes.
LEMMA MembersAreNodes ==
    ASSUME NEW list \in PeerLists
    PROVE  /\ Len(list) \in Nat
           /\ \A i \in 1..Len(list) : list[i] \in Nodes
           /\ Members(list) \subseteq Nodes
<1>1. Cardinality(Nodes) \in Nat
  BY NodesAssumption, FS_CardinalityType
<1>2. PICK n \in 0..Cardinality(Nodes) : list \in [1..n -> Nodes]
  BY DEF PeerLists
<1>3. n \in Nat
  BY <1>1, <1>2
<1>4. Len(list) = n
  BY <1>2, <1>3
<1> QED
  BY <1>2, <1>3, <1>4 DEF Members

\* A slot that is newly given away goes to a peer that arrives and hashes there.
LEMMA WinnerArrives ==
    ASSUME NEW list \in PeerLists, NEW taken, NEW h \in NewSlots(list, taken)
    PROVE  /\ h \notin taken
           /\ Winner(list, h) \in Arriving(list)
           /\ Winner(list, h) \in Nodes
           /\ h \in hash[Winner(list, h)]
<1>1. PICK n \in Arriving(list) : h \in hash[n]
  BY DEF NewSlots, Virtual
<1>2. h \notin taken
  BY DEF NewSlots, Free
<1>3. Len(list) \in Nat /\ Members(list) \subseteq Nodes
  BY MembersAreNodes
<1>4. PICK i \in 1..Len(list) : list[i] = n
  BY <1>1 DEF Arriving, Members
<1>5. i \in Claims(list, h)
  BY <1>1, <1>4 DEF Claims, Virtual, Arriving
<1>6. Claims(list, h) \in SUBSET Nat
  BY <1>3 DEF Claims
<1>7. Smallest(Claims(list, h)) \in Claims(list, h)
  BY <1>5, <1>6, SmallestIsLeast
<1> QED
  BY <1>2, <1>3, <1>7 DEF Winner, Claims, Virtual, Arriving, Members

-----------------------------------------------------------------------------
(* The inductive invariant *)

\* An empty ring satisfies the invariant.
LEMMA InitIInv == Init => IInv
BY DEF Init, IInv, TypeOK, RingConsistent, OwnersPresent

\* Remove of the departed peers gives up exactly their slots.
LEMMA OwnedIsKept ==
    ASSUME IInv, NEW gone \in SUBSET Nodes
    PROVE  /\ OwnedAfter(gone) = {h \in keys : hashMap[h] \notin gone}
           /\ OwnedAfter(gone) = keys \ UNION {nodeHashes[n] : n \in gone}
<1>1. keys = DOMAIN hashMap
  BY DEF IInv, RingConsistent
<1>2. \A h \in keys : hashMap[h] \in Nodes
  BY <1>1 DEF IInv, TypeOK
<1>3. \A h : (h \in UNION {nodeHashes[n] : n \in gone}) <=> (h \in keys /\ hashMap[h] \in gone)
  BY <1>2 DEF IInv, RingConsistent
<1> QED
  BY <1>1, <1>3 DEF OwnedAfter

\* One Set, spelled out: it keeps the slots in owned and gives those in fresh to
\* peers that arrive.
SetTo(list, owned, fresh) ==
    /\ owned = {h \in keys : hashMap[h] \notin Departed(list)}
    /\ fresh = NewSlots(list, owned)
    /\ \A h \in fresh : /\ h \notin owned
                        /\ Winner(list, h) \in Arriving(list)
                        /\ Winner(list, h) \in Nodes
                        /\ h \in hash[Winner(list, h)]
    /\ keys' = owned \cup fresh
    /\ hashMap' = [h \in owned \cup fresh |->
                      IF h \in fresh THEN Winner(list, h) ELSE hashMap[h]]
    /\ nodeHashes' =
          [n \in Nodes |-> (IF n \in Departed(list) THEN {} ELSE nodeHashes[n])
                           \cup {h \in fresh : Winner(list, h) = n}]
    /\ peersList' = Members(list)
    /\ hash' = hash

\* That is what Set does.
LEMMA SetEffect ==
    ASSUME IInv, NEW list \in PeerLists, Set(list)
    PROVE  \E owned, fresh \in SUBSET Hashes : SetTo(list, owned, fresh)
<1> DEFINE gone == Departed(list)
           owned == OwnedAfter(gone)
           fresh == NewSlots(list, owned)
<1>1. gone \in SUBSET Nodes
  BY DEF Departed, IInv, TypeOK
<1>2. /\ owned = {h \in keys : hashMap[h] \notin gone}
      /\ owned = keys \ UNION {nodeHashes[n] : n \in gone}
  BY <1>1, OwnedIsKept
<1>3. owned \in SUBSET Hashes
  BY <1>2 DEF IInv, TypeOK
<1>4. fresh \in SUBSET Hashes
  BY MembersAreNodes DEF NewSlots, Virtual, Arriving, IInv, TypeOK
<1>5. \A h \in fresh : /\ h \notin owned
                       /\ Winner(list, h) \in Arriving(list)
                       /\ Winner(list, h) \in Nodes
                       /\ h \in hash[Winner(list, h)]
  <2> HIDE DEF owned
  <2> QED
    BY WinnerArrives
<1>6. /\ keys' = (keys \ UNION {nodeHashes[n] : n \in gone}) \cup fresh
      /\ hashMap' = [h \in owned \cup fresh |->
                        IF h \in fresh THEN Winner(list, h) ELSE hashMap[h]]
      /\ nodeHashes' = [n \in Nodes |-> (IF n \in gone THEN {} ELSE nodeHashes[n])
                                        \cup {h \in fresh : Winner(list, h) = n}]
      /\ peersList' = Members(list)
      /\ hash' = hash
  BY DEF Set
<1>7. keys' = owned \cup fresh
  BY <1>2, <1>6
<1>8. fresh = NewSlots(list, owned)
  OBVIOUS
<1> HIDE DEF owned, fresh
<1> QED
  BY <1>2, <1>3, <1>4, <1>5, <1>6, <1>7, <1>8 DEF SetTo

\* A Set keeps the invariant.
LEMMA SetIInv ==
    ASSUME IInv, NEW list \in PeerLists, Set(list)
    PROVE  IInv'
<1>1. PICK owned \in SUBSET Hashes, fresh \in SUBSET Hashes : SetTo(list, owned, fresh)
  BY SetEffect
<1> USE DEF SetTo
<1>2. \A h \in owned : /\ h \in keys
                       /\ hashMap[h] \in peersList \ Departed(list)
                       /\ hashMap[h] \in Nodes
  BY <1>1 DEF IInv, TypeOK, OwnersPresent
<1>3. \A h \in owned : h \notin fresh /\ hashMap'[h] = hashMap[h]
  BY <1>1
<1>4. \A h \in fresh : hashMap'[h] = Winner(list, h)
  BY <1>1
<1>5. DOMAIN hashMap' = keys' /\ keys' \subseteq Hashes
  BY <1>1
<1>6. TypeOK'
  <2>1. hashMap' \in [DOMAIN hashMap' -> Nodes]
    BY <1>1, <1>2
  <2>2. nodeHashes' \in [Nodes -> SUBSET Hashes]
    BY <1>1 DEF IInv, TypeOK
  <2>3. hash' \in [Nodes -> SUBSET Hashes] /\ peersList' \subseteq Nodes
    BY <1>1, MembersAreNodes DEF IInv, TypeOK
  <2> QED
    BY <1>5, <2>1, <2>2, <2>3 DEF TypeOK, Hashes
<1>7. RingConsistent'
  <2>1. ASSUME NEW n \in Nodes
        PROVE  nodeHashes'[n] = {h \in keys' : hashMap'[h] = n}
    <3>1. nodeHashes[n] = {h \in keys : hashMap[h] = n}
      BY DEF IInv, RingConsistent
    <3>2. nodeHashes'[n] = (IF n \in Departed(list) THEN {} ELSE nodeHashes[n])
                           \cup {h \in fresh : Winner(list, h) = n}
      BY <1>1
    <3>3. {h \in keys' : hashMap'[h] = n} =
             {h \in owned : hashMap[h] = n} \cup {h \in fresh : Winner(list, h) = n}
      BY <1>1, <1>3, <1>4
    <3>4. {h \in owned : hashMap[h] = n} =
             (IF n \in Departed(list) THEN {} ELSE nodeHashes[n])
      BY <1>1, <3>1
    <3> QED
      BY <3>2, <3>3, <3>4
  <2> QED
    BY <1>5, <2>1 DEF RingConsistent
<1>8. OwnersPresent'
  BY <1>1, <1>2, <1>3, <1>4 DEF OwnersPresent, Departed, Arriving
<1> QED
  BY <1>6, <1>7, <1>8 DEF IInv

\* The invariant holds in every execution, whatever lists are set.
THEOREM RingInvariant == Spec => []IInv
<1>1. ASSUME IInv, [Next]_vars
      PROVE  IInv'
  <2>1. CASE Next
    BY <1>1, <2>1, SetIInv DEF Next
  <2>2. CASE UNCHANGED vars
    BY <1>1, <2>2 DEF vars, IInv, TypeOK, RingConsistent, OwnersPresent
  <2> QED
    BY <1>1, <2>1, <2>2
<1> QED
  BY InitIInv, <1>1, PTL DEF Spec

\* Type correctness of the ring, for every hash function.
THEOREM RingTypeOK == Spec => []TypeOK
<1>1. IInv => TypeOK
  BY DEF IInv
<1> QED
  BY <1>1, RingInvariant, PTL

\* The hash list, the owners and the slots of each owner agree in every
\* execution, whatever virtual nodes have collided.
THEOREM RingStaysConsistent == Spec => []RingConsistent
<1>1. IInv => RingConsistent
  BY DEF IInv
<1> QED
  BY <1>1, RingInvariant, PTL

-----------------------------------------------------------------------------
(* Routing *)

\* The owner of a hash value on a ring that is not empty is the owner of its
\* successor.
LEMMA OwnerFound ==
    ASSUME IInv, NEW h \in Hashes, keys # {}
    PROVE  /\ IsSuccessor(keys, h, Successor(keys, h))
           /\ Owner(h) = hashMap[Successor(keys, h)]
           /\ Owner(h) \in peersList
           /\ Owner(h) \in Nodes
<1>1. keys \in SUBSET Hashes
  BY DEF IInv, TypeOK
<1>2. IsSuccessor(keys, h, Successor(keys, h))
  BY <1>1, SuccessorFound
<1>3. Successor(keys, h) \in keys
  BY <1>2 DEF IsSuccessor
<1>4. Owner(h) = hashMap[Successor(keys, h)]
  BY DEF Owner, Get
<1> QED
  BY <1>2, <1>3, <1>4 DEF IInv, OwnersPresent, TypeOK

\* No key is ever routed to a peer that has left.
THEOREM RoutesToMembers == Spec => []RoutedToMembers
<1>1. IInv => RoutedToMembers
  <2>1. ASSUME IInv, NEW h \in Hashes
        PROVE  Owner(h) \in peersList \cup {Nil}
    <3>1. CASE keys = {}
      BY <3>1 DEF Owner, Get
    <3>2. CASE keys # {}
      BY <2>1, <3>2, OwnerFound
    <3> QED
      BY <3>1, <3>2
  <2> QED
    BY <2>1 DEF RoutedToMembers
<1> QED
  BY <1>1, RingInvariant, PTL

\* One Set moves a key only away from a peer that leaves, or to one that arrives.
LEMMA SetMovesLittle ==
    ASSUME IInv, NEW list \in PeerLists, Set(list), NEW h \in Hashes,
           Owner(h)' # Owner(h), Owner(h) \in peersList'
    PROVE  Owner(h)' \in peersList' \ peersList
<1>1. PICK owned \in SUBSET Hashes, fresh \in SUBSET Hashes : SetTo(list, owned, fresh)
  BY SetEffect
<1> USE DEF SetTo
<1> DEFINE s == Successor(keys, h)
           t == Successor(keys, h)'
<1>2. Members(list) \subseteq Nodes
  BY MembersAreNodes
\* The key had an owner, and this owner keeps its slot.
<1>3. keys # {}
  BY <1>1, <1>2, NilAssumption DEF Owner, Get
<1>4. IsSuccessor(keys, h, s) /\ Owner(h) = hashMap[s] /\ Owner(h) \in peersList
  BY <1>3, OwnerFound
<1>5. s \in owned
  BY <1>1, <1>4 DEF IsSuccessor, Departed
\* The slot that the key has now.
<1>6. IInv'
  BY SetIInv
<1>7. keys' # {} /\ keys' \in SUBSET Hashes
  BY <1>1, <1>5
<1>8. t = Successor(keys', h)
  BY DEF Successor
<1>9. IsSuccessor(keys', h, t)
  BY <1>7, <1>8, SuccessorFound
<1>10. Owner(h)' = hashMap'[t]
  BY <1>7 DEF Owner, Get
<1>11. CASE t \in fresh
  <2>1. hashMap'[t] = Winner(list, t)
    BY <1>1, <1>11
  <2>2. Winner(list, t) \in Arriving(list)
    BY <1>1, <1>11
  <2> QED
    BY <1>1, <1>10, <2>1, <2>2 DEF Arriving
<1>12. CASE t \notin fresh
  <2>1. t \in owned /\ t \in keys /\ s \in keys'
    BY <1>1, <1>5, <1>9, <1>12 DEF IsSuccessor
  <2>2. keys \in SUBSET Nat /\ keys' \in SUBSET Nat /\ h \in Nat
    BY <1>7, HashesAreNaturals DEF IInv, TypeOK
  <2>3. s = t
    <3> HIDE DEF s, t
    <3> QED
      BY <1>4, <1>9, <2>1, <2>2, SuccessorUnique
  <2>4. hashMap'[t] = hashMap[t]
    BY <1>1, <1>12, <2>1
  <2> QED
    BY <1>4, <1>10, <2>3, <2>4
<1> QED
  BY <1>11, <1>12

\* In every execution a change of the list moves a key only away from a peer
\* that leaves or to one that arrives, as consistent hashing promises, even when
\* virtual nodes collide.
THEOREM MovesStayMinimal == Spec => MovesAreMinimal
<1>1. ASSUME IInv, [Next]_vars
      PROVE  [\A h \in Hashes :
                 Owner(h)' # Owner(h) =>
                    \/ Owner(h) \notin peersList'
                    \/ Owner(h)' \in peersList' \ peersList]_vars
  <2>1. CASE UNCHANGED vars
    BY <2>1
  <2>2. ASSUME Next, NEW h \in Hashes,
               Owner(h)' # Owner(h), Owner(h) \in peersList'
        PROVE  Owner(h)' \in peersList' \ peersList
    BY <1>1, <2>2, SetMovesLittle DEF Next
  <2> QED
    BY <1>1, <2>1, <2>2
<1> QED
  BY <1>1, RingInvariant, PTL DEF Spec, MovesAreMinimal

-----------------------------------------------------------------------------
(* Two nodes with different histories *)

\* Without collisions a slot of a peer that arrives is not owned by another.
LEMMA ArrivingSlotsFree ==
    ASSUME IInv, AllPlaced, NoCollisions, NEW n \in Nodes, n \notin peersList,
           NEW h \in hash[n]
    PROVE  h \notin keys
<1>1. SUFFICES ASSUME h \in keys
               PROVE  FALSE
  OBVIOUS
<1>2. PICK m \in Nodes : m = hashMap[h] /\ m \in peersList
  BY <1>1 DEF IInv, TypeOK, RingConsistent, OwnersPresent
<1>3. h \in nodeHashes[m]
  BY <1>1, <1>2 DEF IInv, RingConsistent
<1>4. h \in hash[m]
  BY <1>2, <1>3 DEF AllPlaced
<1> QED
  BY <1>2, <1>4 DEF NoCollisions

\* Without collisions every present peer owns all its virtual nodes after a Set.
LEMMA SetAllPlaced ==
    ASSUME IInv, AllPlaced, NEW list \in PeerLists, Set(list)
    PROVE  AllPlaced'
<1>1. PICK owned \in SUBSET Hashes, fresh \in SUBSET Hashes : SetTo(list, owned, fresh)
  BY SetEffect
<1> SUFFICES ASSUME NoCollisions', NEW n \in Nodes
             PROVE  nodeHashes'[n] = IF n \in peersList' THEN hash'[n] ELSE {}
  BY DEF AllPlaced
<1>2. NoCollisions /\ hash' = hash /\ peersList' = Members(list)
  BY <1>1 DEF SetTo, NoCollisions
<1> DEFINE won == {h \in fresh : Winner(list, h) = n}
<1>3. nodeHashes'[n] = (IF n \in Departed(list) THEN {} ELSE nodeHashes[n]) \cup won
  BY <1>1 DEF SetTo
<1>4. nodeHashes[n] = IF n \in peersList THEN hash[n] ELSE {}
  BY <1>2 DEF AllPlaced
<1>5. CASE n \in Arriving(list)
  <2>1. n \notin peersList /\ n \in Members(list)
    BY <1>5 DEF Arriving
  <2>2. won \subseteq hash[n]
    BY <1>1 DEF SetTo
  <2>3. ASSUME NEW h \in hash[n]
        PROVE  h \in won
    <3>1. h \notin owned
      BY <1>1, <1>2, <2>1, ArrivingSlotsFree DEF SetTo
    <3>2. h \in fresh
      BY <1>1, <1>5, <3>1 DEF SetTo, NewSlots, Virtual, Free
    <3>3. Winner(list, h) \in Nodes /\ h \in hash[Winner(list, h)]
      BY <1>1, <3>2 DEF SetTo
    <3>4. Winner(list, h) = n
      BY <1>2, <3>3 DEF NoCollisions
    <3> QED
      BY <3>2, <3>4
  <2>4. won = hash[n]
    BY <2>2, <2>3
  <2> QED
    BY <1>2, <1>3, <1>4, <2>1, <2>4
<1>6. CASE n \notin Arriving(list)
  <2>1. won = {}
    BY <1>1, <1>6 DEF SetTo
  <2> QED
    BY <1>2, <1>3, <1>4, <1>6, <2>1 DEF Arriving, Departed
<1> QED
  BY <1>5, <1>6

\* In every execution, as long as nothing collides, no virtual node is missing.
LEMMA PlacedInvariant == Spec => [](IInv /\ AllPlaced)
<1>1. Init => AllPlaced
  BY DEF Init, AllPlaced
<1>2. ASSUME IInv, AllPlaced, [Next]_vars
      PROVE  AllPlaced'
  <2>1. CASE Next
    BY <1>2, <2>1, SetAllPlaced DEF Next
  <2>2. CASE UNCHANGED vars
    BY <1>2, <2>2 DEF vars, AllPlaced, NoCollisions
  <2> QED
    BY <1>2, <2>1, <2>2
<1> QED
  BY <1>1, <1>2, RingInvariant, PTL DEF Spec

\* A ring on which nothing is missing has the slots and the owners that it would
\* have if it were built from the present peers at once, in any order.
LEMMA PlacedIsRebuilt ==
    ASSUME IInv, AllPlaced, NoCollisions, NEW list \in PeerLists,
           Members(list) = peersList, NEW h \in Hashes
    PROVE  Owner(h) = RebuiltOwner(list, h)
<1> DEFINE slots == UNION {hash[n] : n \in Members(list)}
           indices(s) == {i \in 1..Len(list) : s \in hash[list[i]]}
           map == [s \in slots |-> list[Smallest(indices(s))]]
<1>1. /\ Len(list) \in Nat
      /\ \A i \in 1..Len(list) : list[i] \in Nodes
      /\ Members(list) \subseteq Nodes
  BY MembersAreNodes
<1>2. ASSUME NEW s \in keys
      PROVE  /\ hashMap[s] \in Members(list)
             /\ s \in hash[hashMap[s]]
  BY DEF IInv, TypeOK, RingConsistent, OwnersPresent, AllPlaced
<1>3. ASSUME NEW n \in Members(list), NEW s \in hash[n]
      PROVE  s \in keys
  <2>1. s \in nodeHashes[n]
    BY <1>1 DEF AllPlaced
  <2> QED
    BY <1>1, <2>1 DEF IInv, RingConsistent
<1>4. slots = keys
  BY <1>2, <1>3
<1>5. ASSUME NEW s \in keys
      PROVE  map[s] = hashMap[s]
  <2>1. PICK i \in 1..Len(list) : list[i] = hashMap[s]
    BY <1>2 DEF Members
  <2>2. indices(s) \in SUBSET Nat /\ i \in indices(s)
    BY <1>1, <1>2, <2>1
  <2>3. Smallest(indices(s)) \in indices(s)
    <3> HIDE DEF indices
    <3> QED
      BY <2>2, SmallestIsLeast
  <2>4. PICK j \in 1..Len(list) : j = Smallest(indices(s)) /\ s \in hash[list[j]]
    BY <2>3
  <2>5. list[j] = hashMap[s]
    BY <1>1, <1>2, <2>4 DEF NoCollisions
  <2>6. map[s] = list[Smallest(indices(s))]
    <3> HIDE DEF slots, indices
    <3> QED
      BY <1>4
  <2> QED
    BY <2>4, <2>5, <2>6
<1>6. RebuiltOwner(list, h) = Get(keys, map, h)
  <2>1. RebuiltOwner(list, h) = Get(slots, map, h)
    BY DEF RebuiltOwner
  <2> HIDE DEF slots, map
  <2> QED
    BY <1>4, <2>1
<1> HIDE DEF map
<1>7. CASE keys = {}
  BY <1>6, <1>7 DEF Owner, Get
<1>8. CASE keys # {}
  <2>1. Successor(keys, h) \in keys /\ Owner(h) = hashMap[Successor(keys, h)]
    BY <1>8, OwnerFound DEF IsSuccessor
  <2> QED
    BY <1>5, <1>6, <1>8, <2>1 DEF Get
<1> QED
  BY <1>7, <1>8

\* Two nodes that have come to the same set of peers through different lists, in
\* different orders, route every key to the same owner, in every execution in
\* which no virtual nodes of two peers collide: Remove and the incremental Add
\* leave no trace of the history (consistenthash.go:47-100).
THEOREM HistoriesAgree == Spec => []NodesAgreeUnlessCollision
<1>1. IInv /\ AllPlaced => NodesAgreeUnlessCollision
  BY PlacedIsRebuilt DEF NodesAgreeUnlessCollision, RoutesLike
<1> QED
  BY <1>1, PlacedInvariant, PTL
=============================================================================
