-------------------------------- MODULE Lru --------------------------------
(***************************************************************************)
(* The data structure of lru/lru.go as operators on a record: the list     *)
(* with its two resumable cleanup cursors, byte accounting and expiry.     *)
(* Cache.tla applies them under the cache's lock.                          *)
(*                                                                         *)
(* A deadline is abstracted to whether it has passed: `dated' holds the    *)
(* keys with a non-zero expiresAt and `expired' those whose expiresAt is   *)
(* over.  Writes use different TTLs (SetTTL), so entries may expire in any *)
(* order.  An element of the list is identified by its key: MoveToFront    *)
(* keeps the element, and no pointer to a removed element is kept.         *)
(***************************************************************************)
EXTENDS Integers, Sequences, FiniteSetsExt, SequencesExt

CONSTANTS
    Keys,
    MaxBytes,   \* 0 is Unlimited
    Nil         \* the nil *list.Element

ASSUME MaxBytesAssumption == MaxBytes \in Nat   \* New panics otherwise
ASSUME NilAssumption == Nil \notin Keys

Unlimited == 0

LruType ==
    [order : Seq(Keys),             \* from Back (coldest) to Front
     size : [Keys -> Nat],          \* len(key) + value.Len(), 0 if absent
     dated : SUBSET Keys,
     expired : SUBSET Keys,
     nbytes : Int,
     cleanupCursor : Keys \cup {Nil},
     amortizedCursor : Keys \cup {Nil}]

New == [order |-> <<>>, size |-> [k \in Keys |-> 0], dated |-> {}, expired |-> {},
        nbytes |-> 0, cleanupCursor |-> Nil, amortizedCursor |-> Nil]

\* The sequence s without the elements of R.
Remaining(s, R) ==
    LET rest[n \in 0..Len(s)] ==
          IF n = 0 THEN <<>>
          ELSE IF s[n] \in R THEN rest[n - 1] ELSE Append(rest[n - 1], s[n])
    IN  rest[Len(s)]

Held(l) == ToSet(l.order)
Bytes(l, R) == MapThenSumSet(LAMBDA k : l.size[k], R)

\* Where k is in the list; an element that is not in it is past the end, since a
\* detached element has no neighbours.
Position(l, k) ==
    Min({i \in 1..Len(l.order) : l.order[i] = k} \cup {Len(l.order) + 1})

\* Mutant: a cursor on a removed element is left where it is.
CursorKept(l, c, R) == c

\* removeElement moves a cursor off the removed element to the next one towards
\* Front: after removing the set R it is on the first survivor, or nil.
CursorWithout(l, c, R) ==
    IF c \notin R
    THEN c
    ELSE LET later == {i \in Position(l, c)..Len(l.order) : l.order[i] \notin R}
         IN  IF later = {} THEN Nil ELSE l.order[Min(later)]

\* removeElement for every key of R.
Without(l, R) ==
    [order |-> Remaining(l.order, R),
     size |-> [k \in Keys |-> IF k \in R THEN 0 ELSE l.size[k]],
     dated |-> l.dated \ R,
     expired |-> l.expired \ R,
     nbytes |-> l.nbytes - Bytes(l, R),
     cleanupCursor |-> CursorWithout(l, l.cleanupCursor, R),
     amortizedCursor |-> CursorWithout(l, l.amortizedCursor, R)]

\* MoveToFront, or PushFront for a key that is not there.
ToFront(l, k) == [l EXCEPT !.order = Append(Remaining(@, {k}), k)]

\* Get: a hit is moved to Front, an expired entry is removed.
Hit(l, k) == k \in Held(l) /\ k \notin l.expired

\* Mutant: a hit leaves the list as it is.
GetInPlace(l, k) == IF k \in l.expired THEN Without(l, {k}) ELSE l

Get(l, k) ==
    CASE Hit(l, k) -> ToFront(l, k)
      [] k \in l.expired -> Without(l, {k})
      [] OTHER -> l

-----------------------------------------------------------------------------
(* Add *)

\* Mutant: an update adds the whole new value on top of the old one.
DeltaOfNew(l, k, bytes) == bytes

\* What writing k adds to nbytes; the size of an absent key is 0.
Delta(l, k, bytes) == bytes - l.size[k]

\* A write sets a new deadline, or none.
Renewed(l, k) == l.expired \ {k}

Put(l, k, bytes, hasTTL) ==
    [ToFront(l, k) EXCEPT
        !.size[k] = bytes,
        !.nbytes = @ + Delta(l, k, bytes),
        !.dated = IF hasTTL THEN @ \cup {k} ELSE @ \ {k},
        !.expired = Renewed(l, k)]

\* The n coldest keys.
Coldest(l, n) == ToSet(SubSeq(l.order, 1, n))

\* The numbers of RemoveOldest calls after which the rest fits; the loop in Add
\* stops at the least one, and would not stop if there were none.
Enough(l) ==
    {n \in 0..Len(l.order) :
        MaxBytes = Unlimited \/ l.nbytes - Bytes(l, Coldest(l, n)) <= MaxBytes}

Add(l, k, bytes, hasTTL) ==
    LET put == Put(l, k, bytes, hasTTL)
    IN  Without(put, Coldest(put, Min(Enough(put))))

AddTerminates(l, k, bytes, hasTTL) == Enough(Put(l, k, bytes, hasTTL)) # {}

-----------------------------------------------------------------------------
(* Paged cleanup *)

\* cleanupExpiredFrom: where a scan starts, what it looks at, and the element
\* the cursor is left on (Nil: the round is finished).
ScanStart(l, cursor) == IF cursor = Nil THEN 1 ELSE Position(l, cursor)
ScanEnd(l, cursor, limit) == Min({ScanStart(l, cursor) + limit - 1, Len(l.order)})

Scanned(l, cursor, limit) ==
    ToSet(SubSeq(l.order, ScanStart(l, cursor), ScanEnd(l, cursor, limit)))

ScanNext(l, cursor, limit) ==
    LET next == ScanEnd(l, cursor, limit) + 1
    IN  IF next <= Len(l.order) THEN l.order[next] ELSE Nil

CleanupExpiredBatch(l, limit) ==
    [Without(l, Scanned(l, l.cleanupCursor, limit) \cap l.expired)
        EXCEPT !.cleanupCursor = ScanNext(l, l.cleanupCursor, limit)]

AmortizedScan(l, limit) ==
    [Without(l, Scanned(l, l.amortizedCursor, limit) \cap l.expired)
        EXCEPT !.amortizedCursor = ScanNext(l, l.amortizedCursor, limit)]

\* Mutants: one cursor for both kinds of scan; one node scanned per write.
AmortizedOnSharedCursor(l, limit) == CleanupExpiredBatch(l, limit)
AmortizedOneNode(l, limit) == AmortizedScan(l, 1)

CleanupExpiredAmortized(l, limit) == AmortizedScan(l, limit)
=============================================================================
