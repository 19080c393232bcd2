-------------------------------- MODULE Group --------------------------------
(***************************************************************************)
(* Group.Get from end to end (geecache.go:145-281): the local cache, the   *)
(* single flight per key, the remote peer behind its circuit breaker, the  *)
(* fallback to the local Getter and the write back, with SetTTL, Purge,    *)
(* RegisterPeers, expiry and eviction at any moment in between.  The       *)
(* breaker is the BreakerGate that CircuitBreaker.tla implements; every    *)
(* key that is not local belongs to one peer.                              *)
(***************************************************************************)
EXTENDS Naturals

CONSTANTS
    Callers,    \* goroutines that call Get
    Keys,
    TTLs,       \* values of defaultTTL
    Nil,
    PeerPanics  \* whether PeerGetter.Get, an interface, may panic

ASSUME PeerPanicsAssumption == PeerPanics \in BOOLEAN
ASSUME NilAssumption == Nil \notin Callers \cup TTLs
ASSUME KeysAssumption == Keys # {}

VARIABLES
    peers,      \* a PeerPicker is registered
    defaultTTL,
    entries,    \* entries[k]: the TTL k was cached with, or Nil if absent
    m,          \* singleflight: the leader of the flight for k, or Nil
    pc, key,    \* where each caller is, and the key it asks for
    awaits,     \* awaits[c]: the leader whose flight c has joined, or Nil
    ttl,        \* ttl[c]: what populateCache of c has read
    err,        \* err[c]: outcome of c's load so far, or of the flight it joined
    mode, live, \* the breaker's gate
    lost,       \* history: callers whose last ticket a panic of the peer took away
    purged      \* history: since the last SetTTL there was a Purge while no
                \* caller was between reading the TTL and adding its entry

vars == <<peers, defaultTTL, entries, m, pc, key, awaits, ttl, err,
          mode, live, lost, purged>>

Gate == INSTANCE BreakerGate

Outcomes == {"none", "value", "config", "notFound", "circuitOpen", "peerFailure",
             "sourceFailure", "panicked"}

Stages == {"idle", "do", "load", "allow", "rpc", "local", "ttl", "add",
           "unlink", "notify", "wait", "return"}

TypeOK ==
    /\ peers \in BOOLEAN
    /\ defaultTTL \in TTLs
    /\ entries \in [Keys -> TTLs \cup {Nil}]
    /\ m \in [Keys -> Callers \cup {Nil}]
    /\ pc \in [Callers -> Stages]
    /\ key \in [Callers -> Keys]
    /\ awaits \in [Callers -> Callers \cup {Nil}]
    /\ ttl \in [Callers -> TTLs]
    /\ err \in [Callers -> Outcomes]
    /\ mode \in {"Closed", "Open", "HalfOpen"} /\ live \subseteq Callers
    /\ lost \subseteq Callers
    /\ purged \in BOOLEAN

Init ==
    /\ peers = FALSE
    /\ defaultTTL \in TTLs
    /\ entries = [k \in Keys |-> Nil]
    /\ m = [k \in Keys |-> Nil]
    /\ pc = [c \in Callers |-> "idle"]
    /\ key \in [Callers -> {CHOOSE k \in Keys : TRUE}]
    /\ awaits = [c \in Callers |-> Nil]
    /\ ttl = [c \in Callers |-> defaultTTL]
    /\ err = [c \in Callers |-> "none"]
    /\ Gate!Init
    /\ lost = {}
    /\ purged = FALSE

group == <<peers, defaultTTL, purged>>
gate == <<mode, live, lost>>

Go(c, from, to) == pc[c] = from /\ pc' = [pc EXCEPT ![c] = to]
Outcome(c, e) == err' = [err EXCEPT ![c] = e]

-----------------------------------------------------------------------------
(* Get and singleflight.Do *)

\* mainCache.get misses.  A hit returns at once and changes nothing here.
Miss(c, k) ==
    /\ Go(c, "idle", "do")
    /\ entries[k] = Nil
    /\ key' = [key EXCEPT ![c] = k]
    /\ Outcome(c, "none")
    /\ UNCHANGED <<group, entries, m, awaits, ttl, gate>>

Lead(c) ==
    /\ Go(c, "do", "load")
    /\ m[key[c]] = Nil
    /\ m' = [m EXCEPT ![key[c]] = c]
    /\ UNCHANGED <<group, entries, key, awaits, ttl, err, gate>>

Join(c) ==
    /\ Go(c, "do", "wait")
    /\ m[key[c]] # Nil
    /\ awaits' = [awaits EXCEPT ![c] = m[key[c]]]
    /\ UNCHANGED <<group, entries, m, key, ttl, err, gate>>

-----------------------------------------------------------------------------
(* The load, run by the leader *)

\* The snapshot of peers, and PickPeer: this node, or the peer.
Pick(c) ==
    /\ \/ Go(c, "load", "local")
       \/ peers /\ Go(c, "load", "allow")
    /\ UNCHANGED <<group, entries, m, key, awaits, ttl, err, gate>>

Admitted(c) ==
    /\ Go(c, "allow", "rpc")
    /\ Gate!Admit(c) \/ Gate!Probe(c)
    /\ lost' = lost \ {c}
    /\ UNCHANGED <<group, entries, m, key, awaits, ttl, err>>

\* Mutant: an open breaker is reported like a configuration error.
FallsBackUnlessOpen(e) == e \notin {"config", "circuitOpen"}

\* The errors of getFromPeer after which load turns to the local Getter.
FallsBack(e) == e # "config"

\* What load does next after getFromPeer has failed with e.
AfterPeerError(c, from, e) ==
    /\ Outcome(c, e)
    /\ Go(c, from, IF FallsBack(e) THEN "local" ELSE "unlink")

Rejected(c) ==
    /\ mode # "Closed"
    /\ AfterPeerError(c, "allow", "circuitOpen")
    /\ UNCHANGED <<group, entries, m, key, awaits, ttl, gate>>

RecordSuccess(c) ==
    IF mode = "HalfOpen" /\ c \in live THEN Gate!Close(c) ELSE Gate!Settle(c)

\* Mutant: an answer that is no fault of the peer is not reported.
RecordNothing(c) == UNCHANGED <<mode, live>>

RecordNeutral(c) == Gate!Settle(c)

\* The failure may be the one that reaches the threshold; a probe's always is.
RecordFailure(c) ==
    \/ Gate!Trip(c)
    \/ ~(mode = "HalfOpen" /\ c \in live) /\ Gate!Settle(c)

PeerAnswers(c) ==
    /\ \/ Go(c, "rpc", "ttl") /\ Outcome(c, "value") /\ RecordSuccess(c)
       \/ AfterPeerError(c, "rpc", "config") /\ RecordNeutral(c)
       \/ AfterPeerError(c, "rpc", "notFound") /\ RecordNeutral(c)
       \/ AfterPeerError(c, "rpc", "peerFailure") /\ RecordFailure(c)
    /\ UNCHANGED <<group, entries, m, key, awaits, ttl, lost>>

\* The panic passes getFromPeer, which defers nothing, and ends the flight.
PeerPanic(c) ==
    /\ PeerPanics
    /\ Go(c, "rpc", "unlink")
    /\ Outcome(c, "panicked")
    /\ lost' = lost \cup {c}
    /\ UNCHANGED <<group, entries, m, key, awaits, ttl, mode, live>>

\* getLocal: the Getter succeeds, fails or panics.
Local(c) ==
    /\ \/ Go(c, "local", "ttl") /\ Outcome(c, "value")
       \/ \E e \in {"sourceFailure", "panicked"} :
             Go(c, "local", "unlink") /\ Outcome(c, e)
    /\ UNCHANGED <<group, entries, m, key, awaits, ttl, gate>>

\* Mutant: the TTL is read once per goroutine.
TTLReadOnce(c) == ttl[c]

TTLRead(c) == defaultTTL

\* populateCache: the TTL is read under groupMu, the entry added under cache.mu.
ReadTTL(c) ==
    /\ Go(c, "ttl", "add")
    /\ ttl' = [ttl EXCEPT ![c] = TTLRead(c)]
    /\ UNCHANGED <<group, entries, m, key, awaits, err, gate>>

Add(c) ==
    /\ Go(c, "add", "unlink")
    /\ entries' = [entries EXCEPT ![key[c]] = ttl[c]]
    /\ UNCHANGED <<group, m, key, awaits, ttl, err, gate>>

-----------------------------------------------------------------------------
(* The end of the flight *)

Unlink(c) ==
    /\ Go(c, "unlink", "notify")
    /\ m' = [m EXCEPT ![key[c]] = Nil]
    /\ UNCHANGED <<group, entries, key, awaits, ttl, err, gate>>

\* The leader and everyone who joined its flight.
Members(c) == {c} \cup {w \in Callers : awaits[w] = c}

\* wg.Done: all members get the outcome of this flight.
Notify(c) ==
    /\ pc[c] = "notify"
    /\ pc' = [w \in Callers |-> IF w \in Members(c) THEN "return" ELSE pc[w]]
    /\ err' = [w \in Callers |-> IF w \in Members(c) THEN err[c] ELSE err[w]]
    /\ awaits' = [w \in Callers |-> IF w \in Members(c) THEN Nil ELSE awaits[w]]
    /\ UNCHANGED <<group, entries, m, key, ttl, gate>>

Return(c) ==
    /\ Go(c, "return", "idle")
    /\ Outcome(c, "none")
    /\ UNCHANGED <<group, entries, m, key, awaits, ttl, gate>>

Step(c) ==
    \/ Lead(c) \/ Join(c) \/ Pick(c)
    \/ Admitted(c) \/ Rejected(c) \/ PeerAnswers(c) \/ PeerPanic(c)
    \/ Local(c) \/ ReadTTL(c) \/ Add(c)
    \/ Unlink(c) \/ Notify(c) \/ Return(c)

-----------------------------------------------------------------------------
(* Other operations of the group *)

load == <<m, pc, key, awaits, ttl, err, gate>>

RegisterPeers ==
    /\ ~peers
    /\ peers' = TRUE
    /\ UNCHANGED <<defaultTTL, purged, entries, load>>

SetTTL ==
    /\ defaultTTL' \in TTLs
    /\ purged' = FALSE
    /\ UNCHANGED <<peers, entries, load>>

Purge ==
    /\ entries' = [k \in Keys |-> Nil]
    /\ purged' = (purged \/ \A c \in Callers : pc[c] # "add")
    /\ UNCHANGED <<peers, defaultTTL, load>>

\* The entry expires or is evicted.
Drop(k) ==
    /\ entries[k] # Nil
    /\ entries' = [entries EXCEPT ![k] = Nil]
    /\ UNCHANGED <<group, load>>

Next ==
    \/ \E c \in Callers : Step(c) \/ \E k \in Keys : Miss(c, k)
    \/ RegisterPeers
    \/ SetTTL
    \/ Purge
    \/ \E k \in Keys : Drop(k)

Spec == Init /\ [][Next]_vars

-----------------------------------------------------------------------------
(* Properties *)

\* A request that the breaker counts on is a request whose call to the peer is
\* still running: no path out of getFromPeer keeps the ticket, so the half-open
\* probe slot cannot be lost (circuitbreaker.go:97-99), unless the peer panics.
NoAbandonedTicket == \A c \in live \ lost : pc[c] = "rpc"

\* Does not hold if PeerPanics: a PeerGetter that panics takes its ticket with it,
\* although circuitbreaker.go:97-99 demands a report for every ticket.
NoTicketLost == live \cap lost = {}

\* Trouble of the peer, an open breaker included, never reaches the caller: a
\* Get fails only for a configuration error or because its own source failed.
PeerTroubleIsHidden ==
    \A c \in Callers :
       pc[c] = "return" => err[c] \in {"value", "config", "sourceFailure", "panicked"}

\* SetTTL and then a Purge that does not fall between the two halves of a write
\* back leave no entry with another TTL behind, and none appears later, in spite
\* of the loads that are under way (geecache.go:293-296).
TTLChangeTakesHold ==
    purged => \A k \in Keys : entries[k] \in {defaultTTL, Nil}

\* Does not hold, although geecache.go:161-162 says that each key is fetched only
\* once: a caller that missed the cache before a flight ended may lead another
\* one after it, and add a key that is already there.
FetchedOnce ==
    [][\A c \in Callers :
          pc[c] = "add" /\ pc'[c] # "add" => entries[key[c]] = Nil]_vars

\* Does not hold, although geecache.go:291 says that SetTTL applies to the entries
\* written after it: populateCache reads the TTL before it adds the entry.
NewEntriesUseTTL ==
    [][\A c \in Callers :
          pc[c] = "add" /\ pc'[c] # "add" => ttl[c] = defaultTTL]_vars
=============================================================================
