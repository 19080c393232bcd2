----------------------------- MODULE ProcessProofs -----------------------------
(***************************************************************************)
(* Proofs about the life of a node's process, for any goroutines that use  *)
(* its cache: the cleanup goroutine is started once and stopped for good,  *)
(* the process keeps it to its protocol, is listed only while its port is  *)
(* bound, and exits in order.                                              *)
(***************************************************************************)
EXTENDS Process, TLAPS

-----------------------------------------------------------------------------
(* The background cleanup goroutine, for any number of goroutines that start *)
(* and stop it                                                               *)

\* Until the first StartCleanup, and unless StopCleanup came before it, no loop has
\* been made; and then there is one only.
OneMade ==
    /\ cleanupStop = Nil /\ ~cleanupClosed => \A l \in Loops : loop[l] = "none"
    /\ \A k, l \in Loops : loop[k] # "none" /\ loop[l] # "none" => k = l

\* A loop that has yet to be spawned is spawned once.
SpawnsOnce ==
    /\ \A p \in Procs : pc[p] = "spawn" => loop[holds[p]] = "made"
    /\ \A p, q \in Procs : pc[p] = "spawn" /\ pc[q] = "spawn" => p = q

\* Stopping closes the cache for good, and whoever waited has seen the loop exit.
StopsForGood ==
    /\ \A p \in Procs : pc[p] \in {"close", "wait"} => cleanupClosed
    /\ waited => cleanupClosed /\ \E l \in Loops : loop[l] = "exited"

IInv == TypeOK /\ OneMade /\ SpawnsOnce /\ StopsForGood

\* A new cache satisfies the invariant.
LEMMA InitIInv == Init => IInv
BY DEF Init, IInv, TypeOK, OneMade, SpawnsOnce, StopsForGood

\* The first StartCleanup makes the only loop.
LEMMA StartIInv ==
    ASSUME IInv, NEW p \in Procs, StartCleanup(p) \/ Spawn(p)
    PROVE  IInv'
<1> USE DEF IInv
<1>1. ASSUME StartCleanup(p) PROVE IInv'
  <2>1. PICK l \in Unused : /\ cleanupStop' = l
                            /\ loop' = [loop EXCEPT ![l] = "made"]
                            /\ holds' = [holds EXCEPT ![p] = l]
    BY <1>1 DEF StartCleanup
  <2>2. l \in Loops /\ l # Nil /\ \A k \in Loops : loop[k] = "none"
    BY <1>1, NilAssumption DEF StartCleanup, MayStart, OneMade, Unused
  <2>3. /\ pc[p] = "idle" /\ pc' = [pc EXCEPT ![p] = "spawn"]
        /\ UNCHANGED <<cleanupClosed, stop, waited>>
    BY <1>1 DEF StartCleanup
  <2>4. TypeOK'
    BY <2>1, <2>2, <2>3 DEF TypeOK
  <2>5. OneMade'
    BY <2>1, <2>2, <2>3 DEF TypeOK, OneMade
  <2>6. \A q \in Procs : pc[q] # "spawn"
    BY <2>2, NilAssumption DEF TypeOK, SpawnsOnce
  <2>7. SpawnsOnce'
    BY <2>1, <2>2, <2>3, <2>6 DEF TypeOK, SpawnsOnce
  <2>8. StopsForGood'
    BY <2>1, <2>2, <2>3 DEF TypeOK, StopsForGood
  <2> QED
    BY <2>4, <2>5, <2>7, <2>8
<1>2. ASSUME Spawn(p) PROVE IInv'
  <2>1. holds[p] \in Loops /\ loop[holds[p]] = "made"
    BY <1>2 DEF Spawn, TypeOK, SpawnsOnce
  <2>2. TypeOK' /\ OneMade'
    BY <1>2, <2>1 DEF Spawn, TypeOK, OneMade
  <2>3. SpawnsOnce' /\ StopsForGood'
    BY <1>2, <2>1 DEF Spawn, TypeOK, SpawnsOnce, StopsForGood
  <2> QED
    BY <2>2, <2>3
<1> QED
  BY <1>1, <1>2

\* A loop that runs goes on running or exits.
LEMMA LoopIInv ==
    ASSUME IInv, NEW l \in Loops, Loop(l)
    PROVE  IInv'
<1>1. PICK from \in {"select", "batch", "check"},
           to \in {"select", "batch", "check", "exited"} : LoopGoes(l, from, to)
  BY DEF Loop, TakeTick, TakeStop, LastBatch, Batch, Continue, BreakOff
<1> QED
  BY <1>1 DEF LoopGoes, IInv, TypeOK, OneMade, SpawnsOnce, StopsForGood

\* StopCleanup takes the channel away under cleanupMu, once.
LEMMA StopIInv ==
    ASSUME IInv, NEW p \in Procs, StopCleanup(p) \/ CloseStop(p) \/ AwaitDone(p)
    PROVE  IInv'
<1> USE DEF IInv
<1>1. ASSUME StopCleanup(p) PROVE IInv'
  BY <1>1 DEF StopCleanup, TypeOK, OneMade, SpawnsOnce, StopsForGood
<1>2. ASSUME CloseStop(p) PROVE IInv'
  BY <1>2 DEF CloseStop, TypeOK, OneMade, SpawnsOnce, StopsForGood
<1>3. ASSUME AwaitDone(p) PROVE IInv'
  <2>1. holds[p] \in Loops /\ loop[holds[p]] = "exited" /\ cleanupClosed
    BY <1>3 DEF AwaitDone, TypeOK, StopsForGood
  <2> QED
    BY <1>3, <2>1 DEF AwaitDone, TypeOK, OneMade, SpawnsOnce, StopsForGood
<1> QED
  BY <1>1, <1>2, <1>3

\* The inductive invariant of the cleanup goroutine.
THEOREM CleanupInvariant == Spec => []IInv
<1>1. IInv /\ [Next]_vars => IInv'
  <2> SUFFICES ASSUME IInv, [Next]_vars PROVE IInv'
    OBVIOUS
  <2>1. CASE UNCHANGED vars
    BY <2>1 DEF vars, IInv, TypeOK, OneMade, SpawnsOnce, StopsForGood
  <2> QED
    BY <2>1, StartIInv, LoopIInv, StopIInv DEF Next
<1> QED
  BY <1>1, InitIInv, PTL DEF Spec

\* However StartCleanup and StopCleanup race (cache.go:127-142, 202-214), there is one
\* loop at most.
THEOREM OneLoop == Spec => []AtMostOneLoop
<1>1. IInv => AtMostOneLoop
  BY DEF IInv, OneMade, AtMostOneLoop, Running
<1> QED
  BY <1>1, CleanupInvariant, PTL

\* Once a StopCleanup that waited has returned (cache.go:211-213), nothing runs or
\* will be spawned.
THEOREM StopIsForGood == Spec => []StoppedForGood
<1>1. ASSUME IInv PROVE StoppedForGood
  <2> SUFFICES ASSUME waited PROVE /\ \A l \in Loops : ~Running(l)
                                   /\ \A p \in Procs : pc[p] # "spawn"
    BY DEF StoppedForGood
  <2>1. PICK x \in Loops : loop[x] = "exited"
    BY <1>1 DEF IInv, StopsForGood
  <2>2. \A l \in Loops : loop[l] \in {"none", "exited"}
    BY <1>1, <2>1 DEF IInv, OneMade
  <2> QED
    BY <1>1, <2>2 DEF IInv, TypeOK, SpawnsOnce, Running
<1> QED
  BY <1>1, CleanupInvariant, PTL

-----------------------------------------------------------------------------
(* The process *)

Early == {"api", "admin", "cache", "register"}
Up == {"wait", "close", "unregister"}
Gone == {"group", "leave", "exit"}
Down == {"stop", "pool"} \cup Gone

\* What run has and has not done by the stage it has reached.
StagesAgree ==
    /\ stage \in Early \cup Up => shutdown = {} /\ next = 1 /\ ~failed
    /\ stage \in Early => watch = "none"
    /\ stage = "api" => server["api"] = "none"
    /\ stage \in {"api", "admin"} => server["admin"] = "none"
    /\ stage \in {"api", "admin", "cache"} => server["cache"] = "none"
    /\ stage = "register" => server["cache"] = "bound"
    /\ stage \in {"unregister"} \cup Down => watch # "running"
    /\ failed => server["cache"] = "none"
    /\ stage = "pool" => transport = "grpc"

\* Where the node may be in peers.json.
ListingAgrees ==
    /\ watch = "none" => ~listed
    /\ stage \in Up => excused \/ server["cache"] \in {"bound", "serving"}
    /\ stage \in Down /\ listed => excused

\* Only a server that has served has requests, and none serves after its Shutdown.
ServersAgree ==
    /\ \A s \in Servers : server[s] \in {"none", "starting", "bound"} => s \notin busy
    /\ \A s \in shutdown : server[s] # "serving"

\* s will not serve any more, and has finished its requests unless there was no time.
Stopped(s) ==
    /\ server[s] = "none" \/ s \in shutdown
    /\ s \in busy => late # {}

\* How far the shutdown has come.
StoppedInOrder ==
    /\ stage = "stop" => /\ next > 1 => Stopped("api")
                         /\ next > 2 => Stopped("admin")
                         /\ next > 3 => Stopped("cache") \/ transport = "grpc"
    /\ stage = "pool" => Stopped("api") /\ Stopped("admin")
    /\ stage \in Gone => \A s \in Servers : Stopped(s)
    /\ transport = "grpc" /\ ~connected => stage \in Gone

RunInv ==
    StagesOK /\ StagesAgree /\ ListingAgrees /\ ServersAgree /\ StoppedInOrder

USE DEF Servers, Early, Up, Gone, Down, Stopped, rigid, stopping, discovery, Stage, Becomes,
        Awaited

\* The process starts with nothing started.
LEMMA InitRunInv == RunInit => RunInv
<1> SUFFICES ASSUME RunInit PROVE RunInv
  OBVIOUS
<1>1. StagesOK
  BY DEF RunInit, StagesOK
<1>2. StagesAgree /\ ListingAgrees
  BY DEF RunInit, StagesAgree, ListingAgrees
<1>3. ServersAgree /\ StoppedInOrder
  BY DEF RunInit, ServersAgree, StoppedInOrder
<1> QED
  BY <1>1, <1>2, <1>3 DEF RunInv

\* Starting binds and registers in this order, and a failure goes straight to stopServers.
LEMMA StartRunInv ==
    ASSUME RunInv, StartAPI \/ StartAdmin \/ BindCache \/ Register
    PROVE  RunInv'
<1> USE DEF RunInv
<1>1. ASSUME StartAPI PROVE RunInv'
  BY <1>1 DEF StartAPI, StagesOK, StagesAgree, ListingAgrees, ServersAgree,
              StoppedInOrder
<1>2. ASSUME StartAdmin PROVE RunInv'
  BY <1>2 DEF StartAdmin, StagesOK, StagesAgree, ListingAgrees, ServersAgree,
              StoppedInOrder
<1>3. ASSUME BindCache PROVE RunInv'
  BY <1>3 DEF BindCache, StagesOK, StagesAgree, ListingAgrees, ServersAgree,
              StoppedInOrder
<1>4. ASSUME Register PROVE RunInv'
  BY <1>4 DEF Register, StagesOK, StagesAgree, ListingAgrees, ServersAgree,
              StoppedInOrder
<1> QED
  BY <1>1, <1>2, <1>3, <1>4

\* The goroutines of the servers: none serves after its Shutdown.
LEMMA ServerRunInv ==
    ASSUME RunInv, NEW s \in Servers, Serve(s) \/ Break(s) \/ Request(s) \/ Answer(s)
    PROVE  RunInv'
<1> USE DEF RunInv, server_
<1>1. ASSUME Serve(s) PROVE RunInv'
  <2>1. StagesOK'
    BY <1>1 DEF Serve, StagesOK
  <2>2. StagesAgree'
    BY <1>1 DEF Serve, StagesOK, StagesAgree
  <2>3. ListingAgrees'
    BY <1>1 DEF Serve, StagesOK, StagesAgree, ListingAgrees
  <2>4. ServersAgree'
    BY <1>1 DEF Serve, StagesOK, StagesAgree, ServersAgree
  <2>5. StoppedInOrder'
    BY <1>1 DEF Serve, StagesOK, StagesAgree, ServersAgree, StoppedInOrder
  <2> QED
    BY <2>1, <2>2, <2>3, <2>4, <2>5
<1>2. ASSUME Break(s) PROVE RunInv'
  <2>1. StagesOK'
    BY <1>2 DEF Break, StagesOK
  <2>2. StagesAgree'
    BY <1>2 DEF Break, StagesOK, StagesAgree
  <2>3. ListingAgrees'
    BY <1>2 DEF Break, StagesOK, StagesAgree, ListingAgrees
  <2>4. ServersAgree'
    BY <1>2 DEF Break, StagesOK, StagesAgree, ServersAgree
  <2>5. StoppedInOrder'
    BY <1>2 DEF Break, StagesOK, StagesAgree, ServersAgree, StoppedInOrder
  <2> QED
    BY <2>1, <2>2, <2>3, <2>4, <2>5
<1>3. ASSUME Request(s) PROVE RunInv'
  BY <1>3 DEF Request, StagesOK, StagesAgree, ListingAgrees, ServersAgree,
              StoppedInOrder
<1>4. ASSUME Answer(s) PROVE RunInv'
  BY <1>4 DEF Answer, StagesOK, StagesAgree, ListingAgrees, ServersAgree,
              StoppedInOrder
<1> QED
  BY <1>1, <1>2, <1>3, <1>4

\* Discovery lists the node again only while its goroutine runs, which Close awaits.
LEMMA DiscoveryRunInv ==
    ASSUME RunInv, Heartbeat \/ Unlisted \/ WatchEnds \/ Signal \/ Late
    PROVE  RunInv'
<1> USE DEF RunInv, unwatched, unstopped
<1>1. ASSUME Heartbeat PROVE RunInv'
  BY <1>1 DEF Heartbeat, StagesOK, StagesAgree, ListingAgrees, ServersAgree,
              StoppedInOrder
<1>2. ASSUME Unlisted PROVE RunInv'
  BY <1>2 DEF Unlisted, StagesOK, StagesAgree, ListingAgrees, ServersAgree,
              StoppedInOrder
<1>3. ASSUME WatchEnds PROVE RunInv'
  BY <1>3 DEF WatchEnds, StagesOK, StagesAgree, ListingAgrees, ServersAgree,
              StoppedInOrder
<1>4. ASSUME Signal PROVE RunInv'
  <2>1. StagesOK'
    BY <1>4 DEF Signal, StagesOK
  <2>2. StagesAgree'
    BY <1>4 DEF Signal, StagesOK, StagesAgree
  <2>3. ListingAgrees'
    BY <1>4 DEF Signal, StagesOK, StagesAgree, ListingAgrees
  <2>4. ServersAgree'
    BY <1>4 DEF Signal, StagesOK, StagesAgree, ServersAgree
  <2>5. StoppedInOrder'
    BY <1>4 DEF Signal, StagesOK, StagesAgree, ServersAgree, StoppedInOrder
  <2> QED
    BY <2>1, <2>2, <2>3, <2>4, <2>5
<1>5. ASSUME Late PROVE RunInv'
  <2>1. StagesOK'
    BY <1>5 DEF Late, StagesOK
  <2>2. StagesAgree'
    BY <1>5 DEF Late, StagesOK, StagesAgree
  <2>3. ListingAgrees'
    BY <1>5 DEF Late, StagesOK, StagesAgree, ListingAgrees
  <2>4. ServersAgree'
    BY <1>5 DEF Late, StagesOK, StagesAgree, ServersAgree
  <2>5. StoppedInOrder'
    BY <1>5 DEF Late, StagesOK, StagesAgree, ServersAgree, StoppedInOrder
  <2> QED
    BY <2>1, <2>2, <2>3, <2>4, <2>5
<1> QED
  BY <1>1, <1>2, <1>3, <1>4, <1>5

\* The shutdown takes the node off the list first, and then stops one server after the
\* other.
LEMMA ShutdownRunInv ==
    ASSUME RunInv, \/ Wake \/ CloseDiscovery \/ Unregister
                   \/ BeginShutdown \/ NextServer \/ StopServersDone
                   \/ BeginPoolShutdown \/ PoolShutdown
    PROVE  RunInv'
<1> USE DEF RunInv, unstopped, Skipped, Order, Shut
<1>1. ASSUME Wake PROVE RunInv'
  BY <1>1 DEF Wake, StagesOK, StagesAgree, ListingAgrees, ServersAgree,
              StoppedInOrder
<1>2. ASSUME CloseDiscovery PROVE RunInv'
  BY <1>2 DEF CloseDiscovery, WatchGone, StagesOK, StagesAgree, ListingAgrees, ServersAgree,
              StoppedInOrder
<1>3. ASSUME Unregister PROVE RunInv'
  BY <1>3 DEF Unregister, StagesOK, StagesAgree, ListingAgrees, ServersAgree,
              StoppedInOrder
<1>4. ASSUME BeginShutdown PROVE RunInv'
  <2>1. StagesOK'
    <3>1. Order[next] \in Servers
      BY <1>4 DEF BeginShutdown, StagesOK
    <3> QED
      BY <1>4, <3>1 DEF BeginShutdown, StagesOK
  <2>2. StagesAgree'
    BY <1>4 DEF BeginShutdown, StagesOK, StagesAgree
  <2>3. ListingAgrees'
    BY <1>4 DEF BeginShutdown, StagesOK, StagesAgree, ListingAgrees
  <2>4. ServersAgree'
    BY <1>4 DEF BeginShutdown, StagesOK, StagesAgree, ServersAgree
  <2>5. StoppedInOrder'
    BY <1>4 DEF BeginShutdown, StagesOK, StagesAgree, ServersAgree, StoppedInOrder
  <2> QED
    BY <2>1, <2>2, <2>3, <2>4, <2>5
<1>5. ASSUME NextServer PROVE RunInv'
  <2>1. StagesOK'
    BY <1>5 DEF NextServer, StagesOK
  <2>2. StagesAgree'
    BY <1>5 DEF NextServer, StagesOK, StagesAgree
  <2>3. ListingAgrees'
    BY <1>5 DEF NextServer, StagesOK, StagesAgree, ListingAgrees
  <2>4. ServersAgree'
    BY <1>5 DEF NextServer, StagesOK, StagesAgree, ServersAgree
  <2>5. StoppedInOrder'
    BY <1>5 DEF NextServer, StagesOK, StagesAgree, ServersAgree, StoppedInOrder
  <2> QED
    BY <2>1, <2>2, <2>3, <2>4, <2>5
<1>6. ASSUME StopServersDone PROVE RunInv'
  BY <1>6 DEF StopServersDone, StagesOK, StagesAgree, ListingAgrees, ServersAgree,
              StoppedInOrder
<1>7. ASSUME BeginPoolShutdown PROVE RunInv'
  BY <1>7 DEF BeginPoolShutdown, StagesOK, StagesAgree, ListingAgrees, ServersAgree,
              StoppedInOrder
<1>8. ASSUME PoolShutdown PROVE RunInv'
  BY <1>8 DEF PoolShutdown, StagesOK, StagesAgree, ListingAgrees, ServersAgree,
              StoppedInOrder
<1> QED
  BY <1>1, <1>2, <1>3, <1>4, <1>5, <1>6, <1>7, <1>8

\* The inductive invariant of the process.
THEOREM ProcessInvariant == RunSpec => []RunInv
<1>1. RunInv /\ [RunNext]_<<vars, process>> => RunInv'
  <2> SUFFICES ASSUME RunInv, [RunNext]_<<vars, process>> PROVE RunInv'
    OBVIOUS
  <2>1. CASE UNCHANGED process
    BY <2>1 DEF process, RunInv, StagesOK, StagesAgree, ListingAgrees, ServersAgree,
                StoppedInOrder
  <2>2. CASE CloseGroup \/ Exit
    <3>1. StagesOK'
      BY <2>2 DEF CloseGroup, Exit, RunInv, StagesOK
    <3>2. (StagesAgree /\ ListingAgrees)'
      BY <2>2 DEF CloseGroup, Exit, RunInv, StagesAgree, ListingAgrees
    <3>3. (ServersAgree /\ StoppedInOrder)'
      BY <2>2 DEF CloseGroup, Exit, RunInv, ServersAgree, StoppedInOrder
    <3> QED
      BY <3>1, <3>2, <3>3 DEF RunInv
  <2>3. CASE Run \/ Others
    BY <2>2, <2>3, StartRunInv, ServerRunInv, DiscoveryRunInv, ShutdownRunInv DEF Run, Others
  <2> QED
    BY <2>1, <2>2, <2>3 DEF RunNext
<1> QED
  BY <1>1, InitRunInv, PTL DEF RunSpec

\* The node is in peers.json only while its port is bound (cmd/main.go:168-179, 468-472).
THEOREM ListedNodesAreBound == RunSpec => []ListedIsBound
<1>1. RunInv => ListedIsBound
  BY DEF RunInv, StagesOK, StagesAgree, ListingAgrees, ListedIsBound
<1> QED
  BY <1>1, ProcessInvariant, PTL

\* Requests are finished and servers closed before the process exits, those of the API
\* before the connections they need (cmd/main.go:239-253, 473-480).
THEOREM ExitsInOrder == RunSpec => []ExitIsOrderly
<1>1. RunInv => ExitIsOrderly
  BY DEF RunInv, StagesOK, ServersAgree, StoppedInOrder, ExitIsOrderly
<1> QED
  BY <1>1, ProcessInvariant, PTL

\* The process uses the cleanup goroutine as CacheCleanup says that it is used: its
\* last step, gee.Close, is a StopCleanup like any other (cmd/main.go:481-482).
THEOREM ProcessImplementsCleanup == RunSpec => Spec
<1>1. RunInit => Init
  BY DEF RunInit
<1>2. [RunNext]_<<vars, process>> => [Next]_vars
  BY MainAssumption DEF RunNext, CleanupStep, CloseGroup, Next
<1> QED
  BY <1>1, <1>2, PTL DEF RunSpec, Spec

\* So in a process, too, there is one loop at most, and none after a stop that waited.
THEOREM ProcessStopsCleanup == RunSpec => [](AtMostOneLoop /\ StoppedForGood)
BY ProcessImplementsCleanup, OneLoop, StopIsForGood, PTL
===============================================================================
