------------------------------- MODULE Cache -------------------------------
(***************************************************************************)
(* The locked cache of cache.go around one LRU.  get, add, purge and one   *)
(* batch of the background cleanup each run under c.mu and are one action. *)
(* Which entries expire when is left open.                                 *)
(***************************************************************************)
EXTENDS Lru

CONSTANTS
    Sizes,              \* the sizes an entry can have
    cleanupBatchSize,   \* nodes scanned per background batch
    addExpiryScanLimit  \* nodes scanned by every write

ASSUME SizesAssumption == Sizes \subseteq Nat \ {0}
ASSUME LimitsAssumption ==
    cleanupBatchSize \in Nat \ {0} /\ addExpiryScanLimit \in Nat \ {0}

VARIABLE lru

vars == <<lru>>

TypeOK ==
    /\ lru \in LruType
    /\ lru.expired \subseteq lru.dated /\ lru.dated \subseteq Held(lru)

\* lru is allocated by the first add; until then it behaves as an empty one.
Init == lru = New

get(k) == lru' = Get(lru, k)

\* A write also scans a few nodes, in the same critical section.
add(k, bytes, hasTTL) ==
    /\ AddTerminates(lru, k, bytes, hasTTL)
    /\ lru' = CleanupExpiredAmortized(Add(lru, k, bytes, hasTTL), addExpiryScanLimit)

purge == lru' = New

cleanupBatch == lru' = CleanupExpiredBatch(lru, cleanupBatchSize)

\* The deadline of an entry passes.
Expire(k) ==
    /\ k \in lru.dated \ lru.expired
    /\ lru' = [lru EXCEPT !.expired = @ \cup {k}]

Write == \E k \in Keys, bytes \in Sizes, hasTTL \in BOOLEAN : add(k, bytes, hasTTL)

Next ==
    \/ \E k \in Keys : get(k) \/ Expire(k)
    \/ Write
    \/ purge
    \/ cleanupBatch

Spec == Init /\ [][Next]_vars

-----------------------------------------------------------------------------
(* Properties *)

\* The byte counter never drifts from the entries: every update, eviction,
\* expiry and scan books the difference exactly.  With a drift the eviction loop of
\* Add (lru.go:154-158) would end too late, too early, or spin on an empty list.
BytesExact ==
    /\ lru.nbytes = Bytes(lru, Held(lru))
    /\ \A k \in Keys : lru.size[k] = 0 <=> k \notin Held(lru)

\* Whatever path removes the element under a cursor, both cursors stay on
\* elements of the list, so that no scan walks detached elements.
CursorsInList == {lru.cleanupCursor, lru.amortizedCursor} \subseteq Held(lru) \cup {Nil}

-----------------------------------------------------------------------------
(* The inductive invariant of the safety properties *)

\* No element occurs twice; x occurs before y.
Distinct(s) == \A i, j \in 1..Len(s) : s[i] = s[j] => i = j
Before(s, x, y) == \E i, j \in 1..Len(s) : i < j /\ s[i] = x /\ s[j] = y

\* The list has every entry once, the counter is the sum of the sizes, only entries
\* have a size or a deadline, and the cursors are on entries.
Sound(l) ==
    /\ l \in LruType
    /\ l.expired \subseteq l.dated /\ l.dated \subseteq Held(l)
    /\ Distinct(l.order)
    /\ l.nbytes = Bytes(l, Held(l))
    /\ \A k \in Keys : l.size[k] = 0 <=> k \notin Held(l)
    /\ {l.cleanupCursor, l.amortizedCursor} \subseteq Held(l) \cup {Nil}
=============================================================================
