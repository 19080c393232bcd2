--------------------------- MODULE ConsistentHash ---------------------------
(***************************************************************************)
(* The hash ring of consistenthash/consistenthash.go and updateRing of     *)
(* ring.go, through which both pools apply a new list of peers to it.      *)
(*                                                                         *)
(* The hash function is any function: hash[n] is the set of values of n's  *)
(* virtual nodes, in which those of two nodes may collide (with crc32 they *)
(* seldom do).  `keys' is the set the code keeps as an ascending list.     *)
(* A pool whose ring is still nil is one with an empty ring.               *)
(***************************************************************************)
EXTENDS Integers, Sequences, FiniteSets

CONSTANTS
    Nodes,
    MaxHash,    \* 2^32 - 1
    Nil         \* the empty name that Get returns on an empty ring

ASSUME NodesAssumption == IsFiniteSet(Nodes)
ASSUME MaxHashAssumption == MaxHash \in Nat
ASSUME NilAssumption == Nil \notin Nodes

VARIABLES
    hash, keys, hashMap, nodeHashes,    \* consistenthash.Map
    peersList                           \* the pool's list, whose order is of no use

vars == <<hash, keys, hashMap, nodeHashes, peersList>>

Hashes == 0..MaxHash
Members(list) == {list[i] : i \in 1..Len(list)}

\* Duplicate-free lists of peers, as the pools' setLocked normalizes them.
PeerLists ==
    {l \in UNION {[1..n -> Nodes] : n \in 0..Cardinality(Nodes)} :
        \A i, j \in 1..Len(l) : l[i] = l[j] => i = j}

TypeOK ==
    /\ hash \in [Nodes -> SUBSET Hashes]
    /\ keys \subseteq Hashes
    /\ hashMap \in [DOMAIN hashMap -> Nodes]
    /\ DOMAIN hashMap \subseteq Hashes
    /\ nodeHashes \in [Nodes -> SUBSET Hashes]
    /\ peersList \subseteq Nodes

Init ==
    /\ hash \in [Nodes -> (SUBSET Hashes) \ {{}}]
    /\ keys = {}
    /\ hashMap = [h \in {} |-> Nil]
    /\ nodeHashes = [n \in Nodes |-> {}]
    /\ peersList = {}

-----------------------------------------------------------------------------
(* Map.Get *)

Smallest(S) == CHOOSE x \in S : \A y \in S : x <= y

\* The first virtual node at or after h, or else the first of the ring.
Successor(ks, h) ==
    LET after == {k \in ks : k >= h}
    IN  Smallest(IF after = {} THEN ks ELSE after)

Get(ks, map, h) == IF ks = {} THEN Nil ELSE map[Successor(ks, h)]

Owner(h) == Get(keys, hashMap, h)

-----------------------------------------------------------------------------
(* updateRing: Map.Remove of the departed peers, Map.Add of the new ones *)

Departed(list) == peersList \ Members(list)

Virtual(n) == hash[n]

\* Mutant: a colliding virtual node takes the slot over.
FreeAlways(taken, h) == TRUE

\* A colliding virtual node is skipped: who came first keeps the slot.
Free(taken, h) == h \notin taken

\* Mutant: Remove leaves the owners in hashMap.
OwnedForever(gone) == DOMAIN hashMap

\* The slots that are still owned once Remove has deleted the owners in gone.
OwnedAfter(gone) == DOMAIN hashMap \ UNION {nodeHashes[n] : n \in gone}

\* What Add of the arriving peers, in the order of the list, gives to whom.
Arriving(list) == Members(list) \ peersList
NewSlots(list, taken) ==
    {h \in UNION {Virtual(n) : n \in Arriving(list)} : Free(taken, h)}
Claims(list, h) == {i \in 1..Len(list) : list[i] \notin peersList /\ h \in Virtual(list[i])}
Winner(list, h) == list[Smallest(Claims(list, h))]

\* Set of a pool.  With the same peers as before it returns early or changes
\* nothing of the ring; an empty list empties it.
Set(list) ==
    LET gone  == Departed(list)
        lost  == UNION {nodeHashes[n] : n \in gone}
        owned == OwnedAfter(gone)
        fresh == NewSlots(list, owned)
    IN  /\ keys' = (keys \ lost) \cup fresh
        /\ hashMap' = [h \in owned \cup fresh |->
                          IF h \in fresh THEN Winner(list, h) ELSE hashMap[h]]
        /\ nodeHashes' =
              [n \in Nodes |-> (IF n \in gone THEN {} ELSE nodeHashes[n])
                               \cup {h \in fresh : Winner(list, h) = n}]
        /\ peersList' = Members(list)
        /\ UNCHANGED hash

Next == \E list \in PeerLists : Set(list)

Spec == Init /\ [][Next]_vars

-----------------------------------------------------------------------------
(* Properties *)

\* The three structures of the Map agree: every slot in the list has an owner
\* and every owner knows exactly its slots, so that a later Remove deletes these
\* and no other, whatever collided before (consistenthash.go:55-64, 82-100).
RingConsistent ==
    /\ keys = DOMAIN hashMap
    /\ \A n \in Nodes : nodeHashes[n] = {h \in keys : hashMap[h] = n}

\* No key is routed to a peer that has left, after any sequence of lists.
RoutedToMembers == \A h \in Hashes : Owner(h) \in peersList \cup {Nil}

\* The inductive invariant: the structures agree and only present peers own slots.
OwnersPresent == \A h \in keys : hashMap[h] \in peersList

IInv == TypeOK /\ RingConsistent /\ OwnersPresent

\* A change of the list moves a key only away from a peer that leaves or to one
\* that arrives (README.md:12); two peers that stay exchange nothing.
MovesAreMinimal ==
    [][\A h \in Hashes :
          Owner(h)' # Owner(h) =>
             \/ Owner(h) \notin peersList'
             \/ Owner(h)' \in peersList' \ peersList]_vars

\* The ring a pool would build from the present peers alone, in some order.
RebuiltOwner(list, h) ==
    LET slots == UNION {hash[n] : n \in Members(list)}
    IN  Get(slots, [s \in slots |->
                       list[Smallest({i \in 1..Len(list) : s \in hash[list[i]]})]], h)

RoutesLike(list) == \A h \in Hashes : Owner(h) = RebuiltOwner(list, h)

\* Does not hold when two virtual nodes collide, although http_test.go:148 says
\* it: whatever lists a pool has gone through, it routes like a ring built from
\* the present peers at once.  A virtual node that was skipped stays away when
\* the owner of its slot leaves.
RoutesAsRebuilt ==
    \E list \in PeerLists : Members(list) = peersList /\ RoutesLike(list)

NoCollisions == \A n, p \in Nodes : n # p => hash[n] \cap hash[p] = {}

\* Two nodes with different histories of the list agree on the owner of every
\* key, as long as no virtual nodes of two peers collide.
NodesAgreeUnlessCollision ==
    NoCollisions =>
       \A list \in PeerLists : Members(list) = peersList => RoutesLike(list)

\* The inductive invariant of that: without collisions nothing is ever skipped.
AllPlaced ==
    NoCollisions =>
       \A n \in Nodes : nodeHashes[n] = IF n \in peersList THEN hash[n] ELSE {}
=============================================================================
