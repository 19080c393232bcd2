-------------------------------- MODULE Process --------------------------------
(***************************************************************************)
(* The life of a node's process (cmd/main.go): run starts the API, admin   *)
(* and cache servers, waits for a signal or for the failure of a server,   *)
(* and stops everything in order, the cleanup goroutine of CacheCleanup    *)
(* last.  Each server has a goroutine of its own; discovery has one that   *)
(* registers the node again at every heartbeat.  Errors in the arguments   *)
(* end run before anything has been started and are left out.              *)
(***************************************************************************)
EXTENDS CacheCleanup, Naturals

CONSTANT Main   \* the goroutine of run, one of Procs

ASSUME MainAssumption == Main \in Procs

VARIABLES
    transport,  \* -transport, never changes
    wanted,     \* the servers the flags ask for, never changes
    stage,      \* where run is
    failed,     \* run is returning a start error
    server,     \* server[s]: none, starting (not bound), bound, serving or closed
    shutdown,   \* the servers on which Shutdown has been called
    next,       \* stopServers: the position in Order
    serveErr,   \* the servers whose error is in the channel, if run may yet receive it
    signalled,  \* a signal is in the other channel
    watch,      \* the goroutine of discovery
    listed,     \* the node is in peers.json, no earlier process having left it there
    connected,  \* the gRPC clients are open
    busy,       \* the servers that have requests in progress
    late,       \* the stages of the shutdown whose ten seconds have passed
    excused     \* history: the cache server broke down, or Unregister failed

process == <<transport, wanted, stage, failed, server, shutdown, next, serveErr,
             signalled, watch, listed, connected, busy, late, excused>>

Servers == {"api", "admin", "cache"}

StagesOK ==
    /\ transport \in {"http", "grpc"}
    /\ wanted \subseteq Servers /\ "cache" \in wanted
    /\ stage \in {"api", "admin", "cache", "register", "wait", "close", "unregister",
                  "stop", "pool", "group", "leave", "exit"}
    /\ server \in [Servers -> {"none", "starting", "bound", "serving", "closed"}]
    /\ shutdown \subseteq Servers
    /\ next \in 1..4
    /\ serveErr \subseteq Servers
    /\ watch \in {"none", "running", "ended"}
    /\ busy \subseteq Servers
    /\ late \subseteq {"stop", "pool"}

ProcessTypeOK ==
    StagesOK /\ {failed, signalled, listed, connected, excused} \subseteq BOOLEAN

RunInit ==
    /\ Init
    /\ transport \in {"http", "grpc"}
    /\ wanted \in {W \in SUBSET Servers : "cache" \in W}
    /\ stage = "api"
    /\ failed = FALSE
    /\ server = [s \in Servers |-> "none"]
    /\ shutdown = {}
    /\ next = 1
    /\ serveErr = {}
    /\ signalled = FALSE
    /\ watch = "none"
    /\ listed = FALSE
    /\ connected = (transport = "grpc")
    /\ busy = {}
    /\ late = {}
    /\ excused = FALSE

rigid == <<transport, wanted>>
stopping == <<shutdown, next, late>>
discovery == <<watch, listed>>

Stage(from, to) == stage = from /\ stage' = to
Becomes(s, status) == server' = [server EXCEPT ![s] = status]

-----------------------------------------------------------------------------
(* Starting: an error leads to stopServers at once *)

StartAPI ==
    /\ Stage("api", "admin")
    /\ IF "api" \in wanted THEN Becomes("api", "starting") ELSE UNCHANGED server
    /\ UNCHANGED <<rigid, failed, stopping, serveErr, signalled, discovery, connected,
                   busy, excused>>

StartAdmin ==
    /\ \/ "admin" \notin wanted /\ Stage("admin", "cache") /\ UNCHANGED <<server, failed>>
       \/ "admin" \in wanted /\ Stage("admin", "cache") /\ Becomes("admin", "bound")
          /\ UNCHANGED failed
       \/ "admin" \in wanted /\ Stage("admin", "stop") /\ failed' = TRUE
          /\ UNCHANGED server
    /\ UNCHANGED <<rigid, stopping, serveErr, signalled, discovery, connected, busy, excused>>

\* TLS configuration and net.Listen.
BindCache ==
    /\ \/ Stage("cache", "register") /\ Becomes("cache", "bound") /\ UNCHANGED failed
       \/ Stage("cache", "stop") /\ failed' = TRUE /\ UNCHANGED server
    /\ UNCHANGED <<rigid, stopping, serveErr, signalled, discovery, connected, busy, excused>>

\* StartDiscovery, and the goroutines that then serve and watch.
Register ==
    /\ \/ Stage("register", "wait") /\ listed' = TRUE /\ watch' = "running"
          /\ UNCHANGED <<failed, server>>
       \/ Stage("register", "stop") /\ failed' = TRUE /\ Becomes("cache", "none")
          /\ UNCHANGED discovery
    /\ UNCHANGED <<rigid, stopping, serveErr, signalled, connected, busy, excused>>

-----------------------------------------------------------------------------
(* The goroutines of the servers and of discovery *)

server_ == <<rigid, stage, failed, stopping, signalled, discovery, connected>>

Serve(s) ==
    /\ server[s] \in {"starting", "bound"}
    /\ s = "cache" => stage # "register"
    /\ Becomes(s, IF s \in shutdown THEN "closed" ELSE "serving")
    /\ UNCHANGED <<server_, serveErr, busy, excused>>

Awaited == stage \in {"api", "admin", "cache", "register", "wait"}

\* ListenAndServe finds its port taken, or Accept fails; the channel has room.
Break(s) ==
    /\ server[s] \in {"starting", "serving"}
    /\ s \notin shutdown
    /\ Becomes(s, "closed")
    /\ serveErr' = IF Awaited THEN serveErr \cup {s} ELSE {}
    /\ excused' = (excused \/ s = "cache")
    /\ UNCHANGED <<server_, busy>>

Request(s) ==
    /\ server[s] = "serving" /\ s \notin busy
    /\ busy' = busy \cup {s}
    /\ UNCHANGED <<server_, server, serveErr, excused>>

Answer(s) ==
    /\ s \in busy
    /\ busy' = busy \ {s}
    /\ UNCHANGED <<server_, server, serveErr, excused>>

unwatched == <<rigid, stage, failed, server, stopping, serveErr, signalled, connected,
               busy, excused>>

Heartbeat ==
    /\ watch = "running" /\ ~listed
    /\ listed' = TRUE
    /\ UNCHANGED <<unwatched, watch>>

\* Somebody else edits peers.json.
Unlisted ==
    /\ listed
    /\ listed' = FALSE
    /\ UNCHANGED <<unwatched, watch>>

\* Close has closed stopCh; a heartbeat may have come first.
WatchEnds ==
    /\ watch = "running" /\ stage = "close"
    /\ watch' = "ended"
    /\ UNCHANGED <<unwatched, listed>>

-----------------------------------------------------------------------------
(* Waiting and stopping *)

Signal ==
    /\ stage = "wait" /\ ~signalled
    /\ signalled' = TRUE
    /\ UNCHANGED <<rigid, stage, failed, server, stopping, serveErr, discovery, connected,
                   busy, excused>>

\* Mutant: run only waits for a signal.
WokenBySignal == signalled

Woken == signalled \/ serveErr # {}

\* select takes a signal or an error.  Nothing else is ever received.
Wake ==
    /\ Woken
    /\ Stage("wait", "close")
    /\ signalled' = FALSE
    /\ serveErr' = {}
    /\ UNCHANGED <<rigid, failed, server, stopping, discovery, connected, busy, excused>>

\* Mutant: Close does not wait for the watch goroutine.
WatchForgotten == TRUE

WatchGone == watch = "ended"

CloseDiscovery ==
    /\ WatchGone
    /\ Stage("close", "unregister")
    /\ UNCHANGED <<rigid, failed, server, stopping, serveErr, signalled, discovery,
                   connected, busy, excused>>

\* A failure is only logged.
Unregister ==
    /\ Stage("unregister", "stop")
    /\ \/ listed' = FALSE /\ UNCHANGED excused
       \/ excused' = TRUE /\ UNCHANGED listed
    /\ UNCHANGED <<rigid, failed, server, stopping, serveErr, signalled, watch, connected, busy>>

\* Mutant: the API server is not stopped.
OrderWithoutAPI == <<"admin", "cache", "cache">>

\* stopServers(apiSrv, adminSrv, cacheSrv)
Order == <<"api", "admin", "cache">>

\* The servers that stopServers skips: nil, or served by gRPC.
Skipped(s) == server[s] = "none" \/ (s = "cache" /\ transport = "grpc")

unstopped == <<rigid, failed, serveErr, signalled, discovery, connected, busy, excused>>

Shut(s) ==
    /\ shutdown' = shutdown \cup {s}
    /\ IF server[s] = "serving" THEN Becomes(s, "closed") ELSE UNCHANGED server

\* srv.Shutdown closes the listener first, if there is one by then.
BeginShutdown ==
    /\ stage = "stop" /\ next <= 3
    /\ ~Skipped(Order[next]) /\ Order[next] \notin shutdown
    /\ Shut(Order[next])
    /\ UNCHANGED <<unstopped, stage, next, late>>

\* It returns when no request is left, or the common context has expired.
NextServer ==
    /\ stage = "stop" /\ next <= 3
    /\ \/ Skipped(Order[next])
       \/ Order[next] \in shutdown /\ (Order[next] \notin busy \/ "stop" \in late)
    /\ next' = next + 1
    /\ UNCHANGED <<unstopped, stage, server, shutdown, late>>

StopServersDone ==
    /\ next = 4
    /\ Stage("stop", IF transport = "grpc" /\ ~failed THEN "pool" ELSE "group")
    /\ UNCHANGED <<unstopped, server, stopping>>

\* stopServers and the pool's Shutdown have ten seconds each.
Late ==
    /\ stage \in {"stop", "pool"} \ late
    /\ late' = late \cup {stage}
    /\ UNCHANGED <<unstopped, stage, server, shutdown, next>>

\* Shutdown of Pool: the server is drained before the clients are closed.
BeginPoolShutdown ==
    /\ stage = "pool" /\ "cache" \notin shutdown
    /\ Shut("cache")
    /\ UNCHANGED <<unstopped, stage, next, late>>

PoolShutdown ==
    /\ "cache" \in shutdown /\ ("cache" \notin busy \/ "pool" \in late)
    /\ Stage("pool", "group")
    /\ connected' = FALSE
    /\ UNCHANGED <<rigid, failed, server, stopping, serveErr, signalled, discovery,
                   busy, excused>>

\* gee.Close
CloseGroup ==
    /\ Stage("group", "leave")
    /\ StopCleanup(Main)
    /\ UNCHANGED <<rigid, failed, server, stopping, serveErr, signalled, discovery,
                   connected, busy, excused>>

Exit ==
    /\ pc[Main] = "idle"
    /\ Stage("leave", "exit")
    /\ UNCHANGED <<rigid, failed, server, stopping, serveErr, signalled, discovery,
                   connected, busy, excused>>

-----------------------------------------------------------------------------

Run ==
    \/ StartAPI \/ StartAdmin \/ BindCache \/ Register
    \/ Wake \/ CloseDiscovery \/ Unregister
    \/ BeginShutdown \/ NextServer \/ StopServersDone
    \/ BeginPoolShutdown \/ PoolShutdown \/ Exit

Others ==
    \/ \E s \in Servers : Serve(s) \/ Break(s) \/ Request(s) \/ Answer(s)
    \/ Heartbeat \/ Unlisted \/ WatchEnds \/ Signal \/ Late

\* The application's goroutines call SetTTL and Close as they like.
CleanupStep ==
    /\ stage # "exit"
    /\ \/ \E p \in Procs \ {Main} : StartCleanup(p) \/ Spawn(p) \/ StopCleanup(p)
       \/ \E p \in Procs : CloseStop(p) \/ AwaitDone(p)
       \/ \E l \in Loops : Loop(l)

RunNext ==
    \/ stage # "exit" /\ (Run \/ Others) /\ UNCHANGED vars
    \/ CloseGroup
    \/ CleanupStep /\ UNCHANGED process

RunSpec == RunInit /\ [][RunNext]_<<vars, process>>

\* Goroutines are scheduled, and time passes; a round of the cleanup is finite, and its
\* select, which picks one of the ready channels at random, does not ignore a closed
\* stop for ever.  Requests may take for ever.
RunFairSpec ==
    /\ RunSpec
    /\ WF_<<vars, process>>(Run /\ UNCHANGED vars)
    /\ WF_<<vars, process>>((WatchEnds \/ Late) /\ UNCHANGED vars)
    /\ WF_<<vars, process>>(CloseGroup)
    /\ \A p \in Procs :
          WF_<<vars, process>>((Spawn(p) \/ CloseStop(p) \/ AwaitDone(p)) /\ UNCHANGED process)
    /\ \A l \in Loops :
          /\ WF_<<vars, process>>((LastBatch(l) \/ Batch(l) \/ Continue(l) \/ BreakOff(l))
                                  /\ UNCHANGED process)
          /\ SF_<<vars, process>>(TakeStop(l) /\ UNCHANGED process)

-----------------------------------------------------------------------------
(* Properties *)

\* As long as the process runs, the node is in peers.json only while its port is
\* bound: it registers after binding, and neither a start that fails nor a last
\* heartbeat leaves it behind (cmd/main.go:168-173, 468), unless the server broke down or
\* Unregister failed.
ListedIsBound ==
    listed /\ stage # "exit" => excused \/ server["cache"] \in {"bound", "serving"}

\* An orderly exit cuts nobody off and leaves nothing open, also after a failed start:
\* requests are finished, those of the API while the clients they need
\* are still open, unless ten seconds were not enough (cmd/main.go:430, 449,
\* 473-480).
ExitIsOrderly ==
    /\ transport = "grpc" /\ ~connected /\ "api" \in busy => late # {}
    /\ stage \in {"group", "leave", "exit"} =>
          /\ busy # {} => late # {}
          /\ \A s \in Servers : server[s] # "serving"

\* A signal or the failure of any server ends the process, wherever it meets the
\* cleanup goroutine and however long requests take.
ShutdownCompletes ==
    (stage = "wait" /\ (signalled \/ serveErr # {})) ~> stage = "exit"
=============================================================================
