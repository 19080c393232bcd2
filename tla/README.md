# A verification development of tutucache

tutucache is a distributed in-memory cache library in Go. A *node* answers
`Group.Get(key)` from a local LRU cache, from the peer that owns the key on a
consistent-hash ring, or from the application's own `Getter`; concurrent loads of
one key are merged, sick peers are cut off by circuit breakers, and nodes find each
other through a shared file. This directory holds TLA+ models of those parts, the
TLC configurations that check them on small instances, and TLAPS proofs of what is
true for every instance. File and line references are to the Go sources.

How to run: `tlc -workers 2 -config X.cfg M` for a run (table below; `X` and `M` are
its configuration and module), `tlapm P.tla` for a module with proofs.

## 1. Inventory

| component | source | state it keeps | operations | talks to |
|---|---|---|---|---|
| circuit breaker | `circuitbreaker.go` | state, failure times, openedAt, generation, probeInFlight, under `mu` | Allow, RecordSuccess, RecordNeutral, RecordFailure | Group.getFromPeer, one breaker per (group, peer) |
| singleflight | `singleflight/singlefight.go` | map key → call; a call has a wait group, a result, its leader | Do, doCall, wait | Group.load; `fn` may call Do again |
| LRU | `lru/lru.go` | list, map, nbytes, two scan cursors | Add, Get, RemoveOldest, Purge, CleanupExpiredBatch, CleanupExpiredAmortized | cache |
| cache | `cache.go` | the LRU under `mu`; cleanupStop, cleanupDone, cleanupClosed under `cleanupMu`; a cleanup goroutine | get, add, purge, StartCleanup, StopCleanup | Group; its own goroutine |
| group | `geecache.go`, `peererror.go` | peers, defaultTTL, the registry of groups | Get, RegisterPeers, SetTTL, Purge, Close | all of the above, PeerPicker, Getter |
| consistent hashing | `consistenthash/consistenthash.go`, `ring.go` | sorted hashes, hash → node, node → hashes | Add, Remove, Get, updateRing | both pools, under their `mu` |
| file discovery | `filediscovery.go`, `filediscovery_lock_*.go` | peers.json and its lock file, stopCh, the watch goroutine's last list | Register, Unregister, Watch, Close, heartbeat | other processes through the file; the pools by callback |
| exclusive-file lock | `filediscovery_lock_excl.go` | the lock file with its token and age | acquireFileLock, release | Register and Unregister of every process, where neither `flock` nor `LockFileEx` exists |
| HTTP pool | `http.go` | ring, list, getters, TLS, token | Set, PickPeer, EnableTLS, SetSharedToken, ServeHTTP | Group, discovery, other nodes |
| gRPC pool | `peers_grpc.go` | the same plus connections, server, started, stopped | the same plus Serve, Shutdown | the same |
| cluster | `geecache.go`, `http.go`, `peers_grpc.go` together | a flight per node, calls between nodes | Get on one node that forwards to the Get of another | |
| node process | `cmd/main.go` | servers, serveErr | start, wait, close, unregister, stop | all |
| metrics, security, byte view, interfaces, generated protobuf | `metrics.go`, `security.go`, `byteview.go`, `peers.go`, `geecachepb/` | counters | | |

What is hard here, and what makes each part correct:

* **Circuit breaker.** Requests are admitted, run without the lock and report later,
  when the breaker may have changed state several times. Correct: one probe at a
  time; a report counts only in the generation of its ticket; it opens on a burst of
  failures and on nothing else; the probe slot always comes back.
* **Singleflight.** The key leaves the map and the waiters are released in two steps;
  `fn` may panic, and may call Do for other keys or re-enter its own. Correct: one
  flight per key, no waiter lost or released without a result, no wait for oneself.
* **LRU and cache.** Five ways out of the list (eviction, lazy expiry, two scans,
  purge) keep one byte counter and two cursors by hand. Correct: exact accounting,
  eviction in the order of use, an eviction loop that ends, cursors never on detached
  elements, expired entries reclaimed.
* **Cleanup goroutine.** Start, stop, stop again, and ticks race. Correct: one loop at
  most, none after a stop that waited, every stop returns.
* **Group.** A load is a dozen steps with SetTTL, Purge, expiry, RegisterPeers and
  other callers in between. Correct: a peer's trouble is hidden behind the local
  source, no ticket is kept, a TTL change followed by a purge takes hold.
* **Consistent hashing.** The ring is updated by difference and virtual nodes may
  collide. Correct: the three structures agree, departed peers get no keys, only keys
  of departed or arriving peers move, nodes with one list route alike.
* **File discovery.** Several processes read, modify and write one file, crash, and
  leave while a heartbeat is under way. Correct: a registered node stays listed, one
  that left stays away, views follow the file, Close returns.
* **Exclusive-file lock.** Finding a lock stale and removing it are two steps, and so
  are reading one's token and removing one's lock. Correct: one holder, except right
  after a stale lock; a crash does not make others time out that are not slow; waiting ends.
* **Pools.** Getters are replaced under requests in flight, by calls that race with
  Shutdown and Serve, and gRPC connections are closed outside the lock. Correct: no
  connection leaks, picks use the present configuration, a request is cut off for a
  reason only, a stopped pool keeps nothing open.
* **Cluster.** Nodes whose lists differ forward a key to one another and wait for each
  other's flights; answers come late or never. Correct: every Get returns, nodes that
  agree forward once, an error between two other parties does not reach the application.
* **Process.** Five kinds of goroutines start and stop in an order that matters.
  Correct: the node is listed only while its port is bound, the exit cuts nobody off,
  and it comes.

## 2. Modules

| module | models | note |
|---|---|---|
| `BreakerGate` | what a breaker promises, abstractly | mode, and the requests that still count |
| `CircuitBreaker` | `circuitbreaker.go` | implements `BreakerGate` |
| `CircuitBreakerHistory` | the same with history variables | what was *reported*, apart from what the code stores |
| `CircuitBreakerProofs` | theorems about `CircuitBreaker` and `CircuitBreakerHistory` | |
| `SingleFlight`, `MCSingleFlight` | `singlefight.go` | a goroutine is a stack of the calls it leads |
| `SingleFlightProofs` | theorems about `SingleFlight` | |
| `Lru` | `lru.go` as operators on a record | a cache of one LRU is one state |
| `Cache` | `cache.go`, the locked operations | every method under `c.mu` is one action |
| `CacheHistory` | the same with the order of use and the cleanup rounds | |
| `CacheProofs` | theorems about `Lru`, `Cache` and `CacheHistory` | with the sums and filtered sequences they rest on |
| `CacheAmortized` | a cache that is only cleaned up by its writes | |
| `CacheCleanup` | the cleanup goroutine, StartCleanup, StopCleanup | a part of `Process` |
| `Group`, `MCGroup` | `Group.Get` end to end with SetTTL, Purge, RegisterPeers | uses `BreakerGate` in place of `CircuitBreaker` |
| `GroupProofs` | theorems about `Group` and `Cluster` | in two parts |
| `ConsistentHash`, `MCConsistentHash` | `consistenthash.go`, `ring.go`, the list of both pools | for every hash function |
| `ConsistentHashProofs` | theorems about `ConsistentHash` | |
| `FileDiscovery` | `filediscovery.go` over the life of processes | with a lock that dies with its process |
| `FileDiscoveryProofs` | theorems about `FileDiscovery` and `ExclLock` | in two parts |
| `ExclLock` | `filediscovery_lock_excl.go` | the other lock |
| `Pool` | the clients and the server of both pools | the ring is that of `ConsistentHash` |
| `PoolProofs` | theorems about `Pool` | |
| `Cluster` | several nodes that load one key | `Group`, `SingleFlight`, `Cache` and `Pool`, reduced to what nodes see of each other |
| `Process` | `run` of `cmd/main.go` with its goroutines | extends `CacheCleanup` and implements it |
| `ProcessProofs` | theorems about `CacheCleanup` and `Process` | |

### Circuit breaker
All fields are variables under their own names; `ticket[c]` is the generation in the
`Ticket` value that request `c` holds, 0 for none. Every method holds `cb.mu`
throughout, hence one action per method, and any number of other actions between
Allow and the report. Only `circuitbreaker.go`'s own clock reads matter, so `now` is a
counter that `Tick` advances up to the bound `MaxTime`. `Group.getFromPeer` reports
every ticket exactly once unless the PeerGetter panics (`geecache.go:231-251`), which
is the fairness assumed: an admitted request is eventually reported, because both
built-in getters time out after two seconds (`http.go:416`, `peers_grpc.go:102`).

`BreakerGate` forgets the clock, the threshold and the generations: while the gate is
closed (in the sense of the breaker: requests flow) anybody is admitted; otherwise one
request at a time; every change of mode voids all requests that were let through. The
refinement mapping is `mode <- state, live <- Outstanding`, the requests whose ticket
carries the present generation. `Group` composes with `BreakerGate`, not with the
detailed breaker; `ImplementsGate` is what makes that sound, and it is proved.

### Singleflight
`m` is the map, `call[c]` the fields of a call object, `stack[g]` the calls goroutine `g`
leads (its `fn`s nest), `pc[g]` where it is in doCall, `awaits[g]` the call it waits for.
`Lead`, `Join` and `Reentrant` are the three outcomes of the critical section of Do;
`Finish`, `Unlink`, `Notify` are the end of `fn`, `delete(g.m, key)` under `g.mu`, and
`wg.Done`. Call objects are re-used once nobody refers to them, as the garbage
collector would. `fn` returns or panics; a panic is re-raised in the code that called
Do, which may be the `fn` of an outer call. `runtime.Goexit` inside `fn` is left out.
`Needs` says which keys the Getter of a key may load; that it has no cycles
(`RankAssumption`) is the obligation `geecache.go:25-27` puts on the application. A
goroutine may also, by mistake, load a key it is already loading: the code answers
with ErrReentrant, at any depth.

### LRU and cache
An `Lru` value is a record: the list of keys (from the coldest to Front), the size of each entry, the
keys with a deadline and those whose deadline has passed, `nbytes` and the two cursors.
`add` of `cache.go` writes and then scans a few nodes in one critical section, so this
is one action. Sizes are the length of key plus value. Time is abstracted to `Expire`,
the passing of one deadline, at any moment. `CacheHistory` adds the order in which keys
were really used and what a cleanup round owes. `CacheCleanup` models the goroutine:
its select, batches and the check of `stop` between two batches. Each loop goroutine has
channels of its own; `holds[p]` is the loop that `p` is about to spawn or to stop, which
is how a StopCleanup between StartCleanup's unlock and its `go` statement is told from
one after it.

### Group
One action per step of `Get` that other goroutines can observe: the miss, entering Do,
PickPeer, Allow, the peer's answer, the Getter, reading the TTL, adding the entry,
leaving the flight, returning. All keys that are not local belong to one peer, hence
one breaker. Errors are the classes `peererror.go` distinguishes. `PeerPanics` says
whether a PeerGetter, an interface that applications implement, may panic; `lost` are
the requests whose ticket went with such a panic.

### Consistent hashing
`hash[n]`, the hash values of the virtual nodes of `n`, is a variable that never
changes: TLC starts from every placement. `keys`, `hashMap` and `nodeHashes` are the
fields of `Map`, `peersList` the pool's list. `Set(list)` is `setLocked`'s call of
`updateRing`: Remove of the departed peers, then Add of the new ones in the order of
the list, with the "first come" rule for collisions.

### File discovery
A process has a main goroutine (start, register, serve, close, unregister, exit:
`cmd/main.go:168-179,458-491`) and a watch goroutine (`filediscovery.go:177-221`). The file
is absent, corrupt or a list. The lock is that of `flock` and `LockFileEx`: it dies with
its process. A critical section is two steps, the read at `Begin` and the write
(`Succeed`, `Fail`), so that a crash can fall between them; readers of the file take no
lock. Faults (bounded by `MaxFaults`) are failed writes and edits by hand.

### Exclusive-file lock
`lockFile` is whose token the lock file holds, `Dead` for a token that nobody has any more.
A process tries (`Create`, `Exists`, `Refused`); if there is a file it asks for its
modification time (`Look`, `LookFails`), takes its age (`FindStale`, `FindFresh`), and then
removes it (`RemoveStale`, `StaleStays`) or compares the clock with its deadline
(`GiveUp`, `Poll`): each of these is a step of its own, as in the code, and `Tick` lets time
pass between any two. Once it has the lock it writes its token, works, reads the token and
removes the file. Every operation on the file may fail: `os.Remove` drops its error
(`StaleStays`, `AbortFails`, `ReleaseFails`), and after a failed removal of a stale
file the loop begins anew. `Crash` may come anywhere. The token is written through the
descriptor, so it does not touch another process's file of the same name. Ages and waits count up
to one past their limits. `looked[p]` is the time since `p`'s Stat, on which both the age
it computes and the cause of a timeout depend. Two histories say what the properties need:
`disturbed[p]`, whether since `p` began to wait another process changed the lock file or `p`
could not look at it, and `reclaiming`, whether a lock was found stale and has not come to
rest since.

### Pools
One module for both, `transport` says which. A getter object has a peer, the TLS
configuration it was made with, a token (which matters to HTTP only: the gRPC one reads
it at each call) and whether it is closed; it is collected once it is closed and no
request holds it. `Set`, `EnableTLS` and `SetSharedToken` are one action each up to the
unlock; gRPC then closes the dropped getters one by one (`CloseOne`). `Rebuild` is
setLocked with all its outcomes: who is reused, who is dialled anew, whose dial fails. Serve
is `Bind`, `ServeListener`, `ServeReturns`; Shutdown is its first critical section,
the end of GracefulStop or of the context (`Drained`, `Forced`), and its second critical section
(`Take`). A request is the application's or a handler's and may pick a getter and keep
it until it ends. gRPC calls are made on a connection, HTTP ones survive the closing of
idle connections, hence the condition in `BreaksForCause`.

### Cluster
A task is a goroutine in `Group.Get`: of the application (`Clients`) or the handler of
another node's request (`Handlers`). `owner[n]` is the owner of the key in `n`'s list,
which `Set` changes at any time; `flight[n]` the task that leads `n`'s flight, the others wait. A
call is accepted, refused (wrong token, unknown group), fails or times out; a handler
whose caller has given up goes on as an orphan. Outcomes are the classes of
`peererror.go`, and `Reply` is what survives the status codes of `ServeHTTP` and of
`GRPCServer.Get`. The cache may have the key at any time, the breaker may reject at any time: both are
choices, which only adds behaviours.

### Process
`stage` is where `run` is, `server[s]` the state of each server, whose goroutine
(`Serve`, `Break`) runs by itself, `watch` that of discovery. `stopServers` is a loop over
`Order` with one context of ten seconds (`Late`), in the order api, admin, cache; a nil
server, or the cache server of gRPC, is skipped, and the pool's Shutdown with ten
seconds of its own follows. A server whose Shutdown comes before its Serve closes when
it gets there. `serveErr` keeps errors only while `run` may still receive them.
`gee.Close` is `StopCleanup(Main)` of `CacheCleanup`, whose other actions are those of
the application's goroutines. Requests may take for ever.

## 3. Runs

| run | module | instance | what it shows |
|---|---|---|---|
| `CircuitBreaker` | `CircuitBreakerHistory` | 3 requests, threshold 2, cool-down 2, window 2, clock to 6 | refinement of `BreakerGate`, opening exactly on a burst, full cool-downs, the probe's slot comes back |
| `SingleFlight` | `MCSingleFlight` | 2 goroutines, 3 keys in a chain of needs, 7 call objects | safety, no deadlock, every Do returns |
| `Cache` | `CacheHistory` | 3 keys, sizes 1, 2 and 4, limit 3 | accounting, cursors, order of eviction, rounds |
| `CacheWrites` | `CacheAmortized` | 4 keys, no limit | writes alone reclaim every expired entry |
| `Group` | `MCGroup` | 2 callers, 2 keys, 2 TTLs, a peer that may panic | Get end to end: tickets, hidden trouble, TTL changes |
| `Cluster` | `Cluster` | 2 nodes, 1 client, 2 handlers | every Get returns, one forwarding, errors of third parties stay away |
| `ConsistentHash` | `MCConsistentHash` | 3 peers, 4 hash values, every placement | ring and routing |
| `Pool` | `Pool` | 1 peer, 1 TLS configuration, 2 tokens, 2 goroutines, 1 request, 4 getters, both transports | connections, configuration, requests in flight, Shutdown |
| `FileDiscovery` | `FileDiscovery` | 2 processes, 1 fault | register, leave, crash, restart; lists heal, Close returns |
| `FileDiscoveryTwice` | `FileDiscovery` | 1 process, 2 addresses, a hand-edited list may name a node twice | a disagreement, see section 5 |
| `ExclLock` | `ExclLock` | 2 processes, 1 crash, stale age 1, deadline 2 | exclusion, causes of a timeout, waiting ends |
| `Process` | `Process` | any servers, both transports, another goroutine that starts and stops cleaning up | listing, order of exit, exit; one cleanup loop, none after the stop |

Why the bounds are enough for the interesting cases:

* *Breaker.* Three requests are needed for a late result, a probe and a rejected
  request at once; threshold 2 is the least with a window; six ticks hold a burst, a
  cool-down, a failed probe and a second cool-down. The proofs need none of this.
* *Singleflight.* A goroutine with a waiter or a newcomer, also between `Unlink` and
  `Notify`; three keys give stacks of depth three, so that a re-entrance can skip a
  level, and circles of two goroutines that need each other's keys. Seven call objects
  are never exhausted: two goroutines lead at most three calls each, and a waiter
  keeps at most one more. The safety properties are proved for any numbers.
* *Cache.* Size 4 does not fit at all, 1 and 2 make updates that grow and shrink; batch
  size 1 makes every pause of a round possible; scan limit 2 makes the amortized scan
  overtake it. Four keys are checked in `CacheWrites`, where wrapping around matters.
* *Group.* Two callers of one key make a flight with a waiter, two callers of two keys
  two requests at one breaker.
* *Cluster.* A client and two handlers are the least circle: a asks b, which asks a,
  whose handler waits for the client's own flight; the client can give up and call again
  while an orphan is left.
* *Ring.* Three peers are the least where two stay while one comes or goes; four hash
  values let any two or all three collide.
* *Pool.* Getters of different peers do not meet, so one peer suffices for what a
  request may lose; four getters are one in the table, one held by the request and one
  being dropped by each goroutine; `Rebuild` takes the least free ones, which are interchangeable.
* *Discovery.* Two processes suffice for every race on the file; a fault damages, empties
  or overwrites the file under both, or fails a write. The safety properties are proved
  for any number of processes and faults.
* *Lock file.* Two that find one remnant stale, or of which one takes, releases and
  leaves locks again and again while the other waits or pauses; whoever crashed
  comes back with a new token, as a third would. The stale age is half the deadline, as in
  the code. The safety properties are proved for any number of processes and crashes and
  any two such times.
* *Process.* One goroutine that starts and stops cleaning up besides `run`; the loop that
  is made first is the only one ever, and a second identifier would show if it were not.

Symmetry (callers, peers) is used in runs that check no liveness, and only over sets
whose members the module does not tell apart. Deadlock checking is off only in
`Process`, because a process ends.

Fairness, and why the code justifies it:

* breaker: weak fairness of a request's report (two-second timeouts, see above);
* singleflight: weak fairness of the steps of doCall and wait (the Go scheduler), and
  strong fairness of `Finish` at each depth: every `fn` ends, it does not load other
  keys for ever;
* amortized cleanup: the application keeps writing, which is the premise of `cache.go:16-18`;
* cleanup loop: the scheduler, and strong fairness of the `stop` case of a select, which
  picks at random among ready cases;
* cluster: weak fairness of each task's steps: the Getter returns, and a call ends after
  two seconds at most, which is the only way out of a circle of flights;
* pools: weak fairness of the goroutines, and of the end of each request (the same two
  seconds). `srv.Serve` returns once the server has been stopped; nobody is obliged to call
  Shutdown;
* lock file: processes run and time passes, and the step that a process takes may be the one
  that fails. That in the end nobody is slow (`Prompt`) and no removal fails
  (`LocksCanBeRemoved`) are premises of `AcquireReturns` and not fairness assumptions; TLC
  refutes the property without any one of them;
* process: `run`, the watch goroutine, the ten-second limits, and the cleanup as above.
  Nothing is assumed of servers, signals or requests;
* discovery: weak fairness of goroutines, strong fairness for the lock (`flock` wakes its
  waiters), for the ticker cases and for the stop case of the select.

## 4. Proofs

`CircuitBreakerProofs` holds for any set of requests, any threshold, cool-down and window
(zero and negative windows included) and any clock bound. The inductive invariant
`IInv` is needed because neither property is inductive alone: that the slot is taken
exactly when one outstanding request exists (`ProbeIsExclusive`) depends on tickets never
being from the future (`TicketsIssued`), else the increment of the generation could
revive one, and on an open breaker having no outstanding request
(`OpenIgnoresLateResults`), else the transition to HalfOpen would find one next to its
probe. Each action has a lemma; the refinement theorem maps AllowClosed to `Admit`,
AllowOpen and AllowHalfOpen to `Probe`, ignored and neutral reports to `Settle` or a
stutter, and the others to `Close` and `Trip`.

The same module proves what `CircuitBreakerHistory` says, about the breaker itself because
the history only watches (`HistoryOnlyWatches`). The code prunes `failureTimes` on every
failure, so what it holds is not what was reported; `HInv` says how the two are related.
Generations count the changes of state (`PeriodsCounted`), reports come in the order of
the clock (`StreakOrdered`), and the pruned failures are a prefix of the streak each
member of which is too old to be in a burst with the last one (`Forgotten`); while
closed, what is left is fewer than the threshold (`RestRemembered`). `TooFewForBurst` and
`EnoughForBurst` turn this into the two directions, never too late
(`NoBurstWhileClosed`) and never without a burst (`OpeningNeedsBurst`). That the clock
reading at opening is what the cool-down is counted from gives `CoolDownIsRespected`.
Threshold, cool-down and window are any integers.

`ConsistentHashProofs` holds for any finite set of nodes, any number of virtual nodes and
any hash function into 0..MaxHash. Its assumptions are that the nodes are finitely many,
that MaxHash is a natural number and that the empty name is not a node. The inductive
invariant is TypeOK, RingConsistent and OwnersPresent (every slot is owned by a present
peer); the second is needed for the third, because Remove deletes what `nodeHashes` lists
and routing follows `hashMap`. `SetEffect` describes one call of updateRing: slots of peers
that stay are kept, new slots go to arriving peers. `MovesStayMinimal` then rests on the
uniqueness of the successor: if the slots that serve a key before and after a change
exist both before and after, they are the same slot. `HistoriesAgree` needs one fact more
about the past, `AllPlaced`: without collisions nothing is ever skipped, so that a present
peer has all its slots; the ring is then a function of the list. The well-foundedness of < on the
naturals, a library fact, gives the least element that the binary search finds.

`SingleFlightProofs` holds for any sets of goroutines, keys and call objects, and any
nesting of loads. Its assumptions are that call identifiers are numbers, that nil is
neither an identifier nor a call, that `Needs` gives each key a set of keys, and that
`Rank` decreases along `Needs`, the obligation of `geecache.go:25-27`; only
`RanksDecrease`, and so `NeverDeadlocked`, needs the last. The inductive invariant `IInv` ties the map, the call objects and the stacks together:
every call on a stack is open, is led by that goroutine and occurs once (`FramesOpen`);
it is its key's entry until it is unlinked (`OneFlightPerKey`), and every entry is such
a call (`EntriesLinked`); every open call is on its leader's stack (`OpenIsLed`); a
waiter holds a call of another goroutine, which is not freed under it (`WaitersHold`);
a closed call has a result (`ClosedHasResult`); and ranks decrease along each stack and
on to the call waited for (`RanksDecrease`). None of these is inductive alone: that a
deleted entry is the flight's own needs `OneFlightPerKey`, that no frame is freed needs
`FramesOpen` and `WaitersHold`, and that the ranks stay ordered needs
`OneFlightPerKey`, by which a goroutine that calls Do for a key it is already loading
finds its own call and is turned away (`CallingLowersRank`). Each action has a lemma.
`NeverDeadlocked` takes, in a supposed circle of waiting goroutines, the awaited call of
least rank: its leader is in the circle and waits for a call of lower rank still.

`GroupProofs` holds for any callers, keys and TTLs, whether or not peers panic, and
assumes only that there is a key. The inductive invariant adds to the properties that an error
has the class its stage allows (`ErrorsAgree`), that only waiters belong to another's
flight (`WaitersWait`), and, for `TTLChangeTakesHold`, that after the Purge no write-back
that has read its TTL holds an old one (`TTLsAgree`): the entries alone are not inductive.

Its second part is about `Cluster`, for any nodes, clients, handlers and lists. Assumed are
the two assumptions of that module, that there is a node (`Nodes # {}`) and that clients,
handlers, no task and the orphans' caller are told apart (`TasksAreDistinct`). Neither
property is inductive. `CallsMatch` pairs a call with its one handler, without which an answer could be
taken for another call's. `SettledAgree` adds to `ForwardedOnce` that a call goes to the
owner and that a handler that runs is the owner's, which is why it does not forward; both
hold until somebody changes a list. `OutcomesAgree` follows a configuration error from the
refusal to the end of the flight on the node that was refused, and says that a failure of
a peer is not kept at all.

`PoolProofs` holds for both transports, any finite set of peers and any configurations,
tokens, goroutines and requests. It assumes that a node is not its own peer, that no TLS is no
TLS configuration, that there is a token and that nil is neither an identifier nor a getter.
The invariant adds to `ConnectionsAccounted` and `GettersCurrent` that a goroutine still
closes only what is open (`StaleAreOpen`), how far a Shutdown has come by the state of the
server (`ShutdownAgrees`), that handlers under a server that is down were cut off
(`HandlersCutOff`), and that a client in use leaves the *table* only for a cause
(`DropsForCause`): `BreaksForCause`, which is about closing, follows later, when the
goroutine that dropped the client gets round to it. `RebuildEffect` says once what `Set`,
`EnableTLS` and `SetSharedToken` do to the table and to the objects.

`CacheProofs` holds for any keys, any positive sizes, any limit and scan limits, that is, for the
assumptions of `Lru` and `Cache`. Its first part proves what the operators compute.
Induction comes from the least element of a set of numbers: a sum over a finite
set (`SumStep`, `SumPick`, `SumWithout`) and the sequence without some elements
(`RemainingStep`, `RemainingFacts`, `RemainingTwice`) exist as tables whose entries follow
from one another. The inductive invariant of the cache is `Sound`: each entry is in the
list once, the counter is the sum of the sizes, only entries have sizes or deadlines, and
both cursors are on entries. Accounting and cursors need each other: evicting everything
frees everything only if the sum is exact, which is what ends the loop of `Add`
(`EvictionEnds`; the guard of `add` therefore excludes nothing), and a removal books
the right size only if no element is detached. `CapacityIsKept` is the limit itself. For the
history, `CursorMoves` and `ScanFacts` say that neither a removal nor a scan takes a cursor
past an entry that stays; `RoundInvariant` states with them that what a round still owes is
at or ahead of its cursor, and only the move of the element under the cursor breaks that.
`InOrder` states that the list is the order of use without the keys that have gone.

`ProcessProofs` is about two modules. For `CacheCleanup` it holds for any goroutines and any
supply of loops, and assumes that the nil channel is no loop. The key is `OneMade`: until the
first StartCleanup no loop has been made, and then there is only one for ever, because
StopCleanup clears the field and sets cleanupClosed in one critical section. With
`SpawnsOnce` it gives both properties also for a StopCleanup that overtakes the `go`
statement of StartCleanup. `ProcessImplementsCleanup` shows that each step of the process is
a step of `CacheCleanup` or leaves its variables alone, so that these theorems hold of the
process too (`ProcessStopsCleanup`). `RunInv` is the inductive invariant of `run`: what each
stage implies of servers and discovery (`StagesAgree`), where the node may be listed
(`ListingAgrees`), which servers may have requests (`ServersAgree`), and what the shutdown
has finished by each position of its loop (`StoppedInOrder`). It assumes that `Main` is one
of the goroutines.

`FileDiscoveryProofs` holds for any sets of nodes and processes, any number of crashes and
failed writes, and lists that name a node any number of times. It assumes that the
processes are nodes, that nil is no goroutine, and that the absent and the damaged file
differ from each other and from every list. The
invariant says that the lock is held exactly during a read-modify-write (`LockHeld`), that
its holder's snapshot is what the file holds (`SnapIsFile`), without which a write could
lose a registration, and that the watch goroutine is over before Unregister begins
(`WatchWhileServing`), without which a heartbeat could bring a node back. `ListAfter`
says what a write changes: its own node, and no other.

Its second part is about `ExclLock`, for any processes, any number of crashes and any two
times of which the stale age is the shorter (`StaleBeforeTimeout`), if tokens are told from
no file and from dead tokens (`TokensAreDistinct`). `FileIsHolders` gives exclusion: unless a stale
lock is being dealt with, the file is that of the only holder, and whoever is about
to remove a file as stale makes it so. `WaitsAgree` gives `TimeoutHasCause`: a waiter whom nobody
has disturbed knows that the file has been there all the time and is as old as its wait,
or stale, and what Stat told it ages with the file (`Undisturbed`). If it then judges the file
fresh, its wait began at most the stale age before that look; so if it is late, more time than
the two times differ by (five seconds) has passed between the look and the clock. Neither
the pause nor a Stat that fails can be left out: TLC finds a timeout for each.

Every safety invariant and every action property that a run checks is proved, as is the
refinement of `BreakerGate`; TLC has checked each inductive invariant on the run of its
module. Only model-checked is liveness, because fairness and ENABLED are out of the prover's
reach: `ProbeReleased`, `DoReturns`, `ExpiredReclaimedByWrites`, `ShutdownCompletes`,
`ListsHeal`, `CloseReturns`, `AcquireReturns`, `ReleasedAfterStop` and `GetReturns`. The
statements of section 5 are counterexamples that TLC finds. No module declares a RECURSIVE
operator.

## 5. Where code and documentation disagree

`FileDiscoveryTwice`: `sameSlice` (`filediscovery.go:296-310`) looks up the elements of
one list in the other, so `[a, a]` and `[a, b]` count as equal. After someone has edited
the file to name a node twice, the heartbeat repairs the file but `onChange` is never
called for the repair, and the pool keeps routing without the missing node.

Other statements of the documentation that the models refute. They are stated in the
modules as properties marked "does not hold", and each can be reproduced by naming it
in the configuration of the module's run:

* `FetchedOnce` of `Group`: `geecache.go:161-162` says that each
  key is fetched only once however many concurrent callers there are. A caller that
  missed before a flight ended and enters Do after it leads a second one; the cache is
  not looked at again inside the flight.
* `NewEntriesUseTTL` of `Group`: `geecache.go:291` says that SetTTL applies to entries
  written after it. populateCache reads the TTL before it adds the entry. What holds is
  `TTLChangeTakesHold`: a Purge after SetTTL, as `geecache.go:293-296` recommends,
  leaves no entry of the old TTL unless it falls between those two steps.
* `NoTicketLost` of `Group`: `circuitbreaker.go:97-99` demands a report for every ticket.
  A PeerGetter that panics takes its ticket with it, and a half-open breaker then rejects
  for ever. The built-in getters do not panic.
* `RoundCoversUnmoved` of `CacheHistory`: `lru.go:195` says that only entries that moved
  or were added during a scan may be left to the next round. When the element under the
  cursor is moved to Front the scan skips entries that did not move.
* `ExpiredReclaimedByWrites` of `CacheAmortized` under `ReadsAndWritesSpec`:
  `cache.go:16-17` says that finitely many writes reclaim every expired entry. The amortized
  scan goes on towards Front and begins anew at Back only once it has got there. It passes two
  entries per write; the write itself and a read of an entry already passed put two before
  it again, so it never reaches Front, and the expired entry at Back is never visited.
* `StopMeansStopped` of `CacheCleanup` (run `Process`): `cache.go:199` says that
  StopCleanup waits for the loop's exit and may be called again. A second, concurrent call
  returns at once.
* `NoBatchAfterStop` of `CacheCleanup` (run `Process`): `cache.go:180` says that at most the
  batch in progress is finished. A select that finds a tick and a closed stop may take
  the tick.
* `StopIsSynchronous` of `Pool`: `peers_grpc.go:550` calls Stop synchronous. Called while
  another goroutine is in Shutdown it returns before the connections are closed.
* `NeverAskedBack` of `Cluster`: `docs/INTERVIEW.md:345` says that a peer does not come back to the
  node that asked it. It does when the two lists differ; the two-second timeouts end it.
* `ExclusiveIfPrompt` of `ExclLock`: `filediscovery_lock_excl.go:12-13` takes a lock that is
  too old for a remnant and lets the file exclude other processes. Of two that find one remnant
  stale, the second removes the lock that the first has created since, although nobody was slow.
* `ReleaseRemovesOwn` of `ExclLock`: `filediscovery_lock_excl.go:56` says that release
  removes only one's own lock. Between reading the token and removing the file, a slow
  holder's lock may have been reclaimed.
* `AcquireReturnsAnyway` of `ExclLock`: `lockWaitTimeout` (`filediscovery_lock_excl.go:16`) is
  meant as the bound on the wait. After a stale lock the loop goes on without looking at the
  deadline and without looking at the error of `os.Remove` (45-46), so a stale file that
  cannot be removed keeps acquireFileLock there for ever. It also goes on for ever if,
  whenever it has removed a lock, another process takes the next one and leaves it to
  become stale. `AcquireReturns` has the premises that exclude these.
* A crash remnant can make acquireFileLock fail, although lines 13-18 have it reclaimed after
  half the waiting time: a waiter that finds it still fresh and then pauses for more than
  the other half looks at its deadline before it looks at the file again. `TimeoutHasCause`
  allows for this.
* `RoutesAsRebuilt` of `ConsistentHash`: `http_test.go:148` says that an incrementally
  updated ring routes like a rebuilt one. With a collision it need not: the skipped
  virtual node stays away when the owner of its slot leaves.

## 6. Not modelled, and why

* Metrics: counters under a lock that influence nothing. Security, byte views,
  interfaces, protobuf code, start scripts: pure functions, types, generated code.
* The eviction callback, which only counts; `CleanupExpired` of the LRU, which only
  tests call; the registry of groups, a map under one lock that is only added to.
* `runtime.Goexit` in `fn` of singleflight: the waiters would get an empty result, which no
  property here denies for such an `fn`.
* In the pools: URL parsing, HTTP's keep-alive connections, and the reconnecting of the
  gRPC library, which belong to libraries. In the process: flags, the handlers of the API
  and admin servers, the demonstration data.
* Panics of third parties other than PeerGetter and Getter.
* Go's memory model: every shared field of the modelled parts is accessed under its
  mutex or published by a channel or wait group, so steps are atomic as modelled.

## 7. What could come next

1. `Group` as a refinement of an abstract cache, and `Cluster` shown to be implemented by
   several `Group`s.
2. `FileDiscovery` over `ExclLock` in place of the lock that dies with its process: which
   of its properties survive the moments in which two processes hold the lock.
3. `runtime.Goexit` in `SingleFlight`.
