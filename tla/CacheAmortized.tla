--------------------------- MODULE CacheAmortized ---------------------------
(***************************************************************************)
(* A cache without a background cleanup loop (cleanupInterval 0): the scan *)
(* of addExpiryScanLimit nodes that every write makes is the only thing    *)
(* that reclaims entries nobody asks for (cache.go:14-18).                 *)
(***************************************************************************)
EXTENDS Cache

VARIABLE writes     \* the number of writes so far, modulo 2

avars == <<lru, writes>>

AInit == Init /\ writes = 0

Counted == writes' = 1 - writes

AWrite == Write /\ Counted
ARead == (\E k \in Keys : get(k)) /\ UNCHANGED writes
AExpire == (\E k \in Keys : Expire(k)) /\ UNCHANGED writes

\* The application writes for ever, to any keys.
WritesForever == WF_writes(Counted)

\* Only writes, and writes with reads in between.  Under the latter an expired
\* entry may stay for ever, although cache.go:16-17 says that finitely many
\* writes reclaim it: the scan begins anew at Back only once it has reached Front, and a
\* write and a read between two scans may put as many entries before it again as one
\* scan passes.
WritesSpec == AInit /\ [][AWrite \/ AExpire]_avars /\ WritesForever
ReadsAndWritesSpec == AInit /\ [][AWrite \/ ARead \/ AExpire]_avars /\ WritesForever

-----------------------------------------------------------------------------
(* Properties *)

\* An entry that has expired is reclaimed after finitely many writes, wherever
\* it is in the list and whichever keys are written.
ExpiredReclaimedByWrites ==
    \A k \in Keys : k \in lru.expired ~> k \notin lru.expired
=============================================================================
