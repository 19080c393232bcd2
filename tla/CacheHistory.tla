---------------------------- MODULE CacheHistory ----------------------------
(***************************************************************************)
(* The cache with a history of how keys were used and of the background    *)
(* cleanup's rounds (cleanupExpired, cache.go:164-187): a round is the run *)
(* of batches up to one that reports `finished'.                           *)
(***************************************************************************)
EXTENDS Cache

VARIABLES
    recency,    \* every key ever read or written, the latest last
    inRound,    \* a round has begun and not finished
    owed,       \* keys that had expired when the round began and have been
                \* neither moved nor removed since
    bumped      \* the element under the round's cursor was moved to Front

hvars == <<lru, recency, inRound, owed, bumped>>

HInit ==
    /\ Init
    /\ recency = <<>>
    /\ inRound = FALSE
    /\ owed = {}
    /\ bumped = FALSE

\* k was moved to Front, or added there.
Used(k) ==
    /\ recency' = Append(Remaining(recency, {k}), k)
    /\ owed' = (owed \cap Held(lru')) \ {k}
    /\ bumped' = (bumped \/ lru.cleanupCursor = k)
    /\ UNCHANGED inRound

NotUsed ==
    /\ owed' = owed \cap Held(lru')
    /\ UNCHANGED <<recency, inRound, bumped>>

Hget(k) == get(k) /\ IF Hit(lru, k) THEN Used(k) ELSE NotUsed

Hadd(k, bytes, hasTTL) == add(k, bytes, hasTTL) /\ Used(k)

HcleanupBatch ==
    /\ cleanupBatch
    /\ inRound' = (lru'.cleanupCursor # Nil)
    /\ owed' = (IF inRound THEN owed ELSE lru.expired) \cap Held(lru')
    /\ bumped' = (inRound /\ bumped)
    /\ UNCHANGED recency

HNext ==
    \/ \E k \in Keys : Hget(k) \/ (Expire(k) /\ NotUsed)
    \/ \E k \in Keys, bytes \in Sizes, hasTTL \in BOOLEAN : Hadd(k, bytes, hasTTL)
    \/ purge /\ NotUsed
    \/ HcleanupBatch

HSpec == HInit /\ [][HNext]_hvars

-----------------------------------------------------------------------------
(* Properties *)

\* The list is always in order of last use, across updates, removals in its
\* middle and scans, so that capacity eviction takes the least recently used.
ListInRecencyOrder == lru.order = Remaining(recency, Keys \ Held(lru))

\* A finished round has removed every entry that had expired before it began
\* and did not move, whatever writes, reads and amortized scans came between
\* its batches, provided nobody moved the element under its cursor.
RoundCoversUnlessBumped == ~inRound /\ ~bumped => owed = {}

\* Does not hold, although lru.go:195 says that only entries that moved or were
\* added during a scan may be left to the next round: when the element under the
\* cursor moves to Front, the scan goes on from there and skips the others.
RoundCoversUnmoved == ~inRound => owed = {}

-----------------------------------------------------------------------------
(* The inductive invariant of the safety properties *)

\* k is where cursor c is, or further towards Front.
Ahead(l, c, k) == k = c \/ Before(l.order, c, k)

\* The background scan is still going to come to k.
InReach(l, k) == l.cleanupCursor # Nil /\ Ahead(l, l.cleanupCursor, k)

InOrder(l, used) == used \in Seq(Keys) /\ l.order = Remaining(used, Keys \ Held(l))

RoundInvariant ==
    /\ owed \subseteq lru.expired /\ inRound \in BOOLEAN /\ bumped \in BOOLEAN
    /\ ~inRound => lru.cleanupCursor = Nil
    /\ ~bumped => \A k \in owed : inRound /\ InReach(lru, k)

HIInv == Sound(lru) /\ InOrder(lru, recency) /\ RoundInvariant
=============================================================================
