------------------------------- MODULE Cluster --------------------------------
(***************************************************************************)
(* Several nodes that load one key: Group.Get on each (geecache.go:145-    *)
(* 273), the flights of singleflight, the forwarding to the node that owns *)
(* the key in one's own list of peers, the handler there, which runs the   *)
(* same Group.Get, and the way its answer comes back through HTTP or gRPC. *)
(* The lists differ while discovery catches up, calls are refused while    *)
(* tokens are changed node by node, calls are lost or time out, and nodes  *)
(* crash.  The parts are those of Group, SingleFlight, Cache and Pool,     *)
(* reduced to what nodes see of each other: a breaker may reject and a     *)
(* node refuse any call, and the key may be cached at any time or not.     *)
(***************************************************************************)

CONSTANTS
    Nodes,
    Clients,    \* goroutines of the applications that call Group.Get
    Handlers,   \* bound on the goroutines that handle other nodes' requests
    NoTask,
    Orphan      \* stands for a caller that has given up

Tasks == Clients \cup Handlers

TasksAreDistinct ==
    /\ {NoTask, Orphan} \cap Tasks = {} /\ NoTask # Orphan
    /\ Clients \cap Handlers = {}

ASSUME TasksAssumption == TasksAreDistinct
ASSUME NodesAssumption == Nodes # {}

VARIABLES
    owner,      \* owner[n]: the node that owns the key in n's list
    flight,     \* flight[n]: the task that leads n's flight, or Nil
    where, at,     \* at[t]: the node t runs on
    caller,     \* caller[t]: Nil if t serves the application, else whom it answers
    target,     \* target[t]: the node t calls
    child,      \* child[t]: the handler of that call, or Nil
    outcome,
    unsettled,  \* history: the lists have not agreed since all tasks were last idle
    refused     \* history: nodes that another node has refused since then

tasks == <<where, at, caller, target, child, outcome>>
clusterVars == <<owner, flight, tasks, unsettled, refused>>

TaskOutcomes == {"none", "value", "config", "notFound", "peerFailure", "sourceFailure",
                 "panicked"}

ClusterTypeOK ==
    /\ owner \in [Nodes -> Nodes]
    /\ flight \in [Nodes -> Tasks \cup {NoTask}]
    /\ where \in [Tasks -> {"idle", "get", "wait", "load", "rpc", "local", "finish", "return"}]
    /\ at \in [Tasks -> Nodes]
    /\ caller \in [Tasks -> Tasks \cup {NoTask, Orphan}]
    /\ target \in [Tasks -> Nodes]
    /\ child \in [Tasks -> Tasks \cup {NoTask}]
    /\ outcome \in [Tasks -> TaskOutcomes]
    /\ unsettled \in BOOLEAN
    /\ refused \subseteq Nodes

Resting == \A t \in Tasks : where[t] = "idle"
Agreeing == \A n, q \in Nodes : owner[n] = owner[q]

Somewhere == CHOOSE n \in Nodes : TRUE

ClusterInit ==
    /\ owner \in [Nodes -> Nodes]
    /\ flight = [n \in Nodes |-> NoTask]
    /\ where = [t \in Tasks |-> "idle"]
    /\ at = [t \in Tasks |-> Somewhere]
    /\ caller = [t \in Tasks |-> NoTask]
    /\ target = [t \in Tasks |-> Somewhere]
    /\ child = [t \in Tasks |-> NoTask]
    /\ outcome = [t \in Tasks |-> "none"]
    /\ unsettled = ~Agreeing
    /\ refused = {}

Move(t, from, to) == where[t] = from /\ where' = [where EXCEPT ![t] = to]
ComesTo(t, e) == outcome' = [outcome EXCEPT ![t] = e]

\* The two histories begin anew when nobody loads the key.
Settle(changed) ==
    /\ unsettled' = ((unsettled \/ changed) /\ ~(Resting' /\ Agreeing'))
    /\ refused' = IF Resting' THEN {} ELSE refused

-----------------------------------------------------------------------------
(* Group.Get and singleflight on one node *)

\* The application calls Get.
Call(t, n) ==
    /\ Move(t, "idle", "get")
    /\ at' = [at EXCEPT ![t] = n]
    /\ UNCHANGED <<owner, flight, caller, target, child, outcome,
                   unsettled, refused>>

\* The main cache has the key.
Hit(t) ==
    /\ Move(t, "get", "return")
    /\ ComesTo(t, "value")
    /\ UNCHANGED <<owner, flight, at, caller, target, child, unsettled, refused>>

LeadFlight(t) ==
    /\ flight[at[t]] = NoTask
    /\ Move(t, "get", "load")
    /\ flight' = [flight EXCEPT ![at[t]] = t]
    /\ UNCHANGED <<owner, at, caller, target, child, outcome,
                   unsettled, refused>>

JoinFlight(t) ==
    /\ flight[at[t]] # NoTask
    /\ Move(t, "get", "wait")
    /\ UNCHANGED <<owner, flight, at, caller, target, child, outcome,
                   unsettled, refused>>

\* Mutant: the node forwards to itself.
ForeignOrOwn(t) == TRUE

\* PickPeer skips self.
Foreign(t) == owner[at[t]] # at[t]

PickPeer(t) ==
    /\ Foreign(t)
    /\ Move(t, "load", "rpc")
    /\ target' = [target EXCEPT ![t] = owner[at[t]]]
    /\ UNCHANGED <<owner, flight, at, caller, child, outcome,
                   unsettled, refused>>

\* The key is this node's, there is no client for its owner, or the breaker is open.
NoPeer(t) ==
    /\ Move(t, "load", "local")
    /\ UNCHANGED <<owner, flight, at, caller, target, child, outcome,
                   unsettled, refused>>

\* getLocal
LoadLocally(t) ==
    /\ Move(t, "local", "finish")
    /\ \E e \in {"value", "notFound", "sourceFailure", "panicked"} : ComesTo(t, e)
    /\ UNCHANGED <<owner, flight, at, caller, target, child, unsettled, refused>>

FlightMembers(t) == {t} \cup {w \in Tasks : where[w] = "wait" /\ at[w] = at[t]}

\* The flight ends for its leader and for those who wait for it.  SingleFlight
\* shows that deleting the key and releasing the waiters may be taken together.
Finish(t) ==
    /\ where[t] = "finish"
    /\ where' = [w \in Tasks |-> IF w \in FlightMembers(t) THEN "return" ELSE where[w]]
    /\ outcome' = [w \in Tasks |-> IF w \in FlightMembers(t) THEN outcome[t] ELSE outcome[w]]
    /\ flight' = [flight EXCEPT ![at[t]] = NoTask]
    /\ UNCHANGED <<owner, at, caller, target, child, unsettled, refused>>

-----------------------------------------------------------------------------
(* The call of the owner *)

\* What load does after getFromPeer.
AfterCall(e) == IF e \in {"value", "config"} THEN "finish" ELSE "local"

\* The outcome that it keeps.
Kept(e) == IF AfterCall(e) = "local" THEN "none" ELSE e

\* The owner runs a handler.
Accept(t, c) ==
    /\ where[t] = "rpc" /\ child[t] = NoTask
    /\ Move(c, "idle", "get")
    /\ at' = [at EXCEPT ![c] = target[t]]
    /\ caller' = [caller EXCEPT ![c] = t]
    /\ child' = [child EXCEPT ![t] = c]
    /\ UNCHANGED <<owner, flight, target, outcome, unsettled, refused>>

\* The token is wrong (401, Unauthenticated) or the group unknown (404,
\* FailedPrecondition).
Refuse(t) ==
    /\ child[t] = NoTask
    /\ Move(t, "rpc", AfterCall("config"))
    /\ ComesTo(t, "config")
    /\ target' = [target EXCEPT ![t] = Somewhere]
    /\ refused' = refused \cup {at[t]}
    /\ UNCHANGED <<owner, flight, at, caller, child, unsettled>>

\* Mutant: a call waits for its answer as long as it takes.
GivesUpUnanswered(t) == child[t] = NoTask

\* The call fails, or two seconds have passed.  A handler is not told.
GivesUp(t) == TRUE

Fail(t) ==
    /\ GivesUp(t)
    /\ Move(t, "rpc", AfterCall("peerFailure"))
    /\ ComesTo(t, Kept("peerFailure"))
    /\ target' = [target EXCEPT ![t] = Somewhere]
    /\ child' = [child EXCEPT ![t] = NoTask]
    /\ caller' = [c \in Tasks |-> IF caller[c] = t THEN Orphan ELSE caller[c]]
    /\ UNCHANGED <<owner, flight, at, unsettled, refused>>

\* Mutant: the handler passes on the class of its own error.
ReplyAsIs(e) == e

\* The classes that the status codes of ServeHTTP and GRPCServer.Get tell apart:
\* a configuration error that the handler met itself is an internal error.
Reply(e) == IF e \in {"value", "notFound"} THEN e ELSE "peerFailure"

\* Get returns to the application, or the handler answers.
Answer(t) ==
    /\ where[t] = "return"
    /\ LET p == caller[t]
           e == Reply(outcome[t])
       IN  IF p \in Tasks
           THEN /\ where' = [where EXCEPT ![t] = "idle", ![p] = AfterCall(e)]
                /\ outcome' = [outcome EXCEPT ![t] = "none", ![p] = Kept(e)]
                /\ child' = [child EXCEPT ![p] = NoTask]
                /\ target' = [target EXCEPT ![p] = Somewhere]
           ELSE /\ where' = [where EXCEPT ![t] = "idle"]
                /\ outcome' = [outcome EXCEPT ![t] = "none"]
                /\ UNCHANGED <<child, target>>
    /\ caller' = [caller EXCEPT ![t] = NoTask]
    /\ at' = [at EXCEPT ![t] = Somewhere]
    /\ UNCHANGED <<owner, flight>>
    /\ Settle(FALSE)

TaskStep(t) ==
    \/ Hit(t) \/ LeadFlight(t) \/ JoinFlight(t) \/ PickPeer(t) \/ NoPeer(t)
    \/ Refuse(t) \/ Fail(t) \/ LoadLocally(t) \/ Finish(t) \/ Answer(t)

-----------------------------------------------------------------------------
(* Everything else *)

\* Set, called by discovery.
Set(n, q) ==
    /\ owner' = [owner EXCEPT ![n] = q]
    /\ UNCHANGED where
    /\ Settle(q # owner[n])
    /\ UNCHANGED <<flight, at, caller, target, child, outcome>>

\* n loses its tasks; whoever called it sees the connection break.
Crash(n) ==
    LET gone == {t \in Tasks : where[t] # "idle" /\ at[t] = n}
        broken(t) == t \notin gone /\ child[t] \in gone
    IN  /\ gone # {}
        /\ flight' = [flight EXCEPT ![n] = NoTask]
        /\ where' = [t \in Tasks |-> IF t \in gone THEN "idle"
                                     ELSE IF broken(t) THEN AfterCall("peerFailure")
                                     ELSE where[t]]
        /\ outcome' = [t \in Tasks |-> IF t \in gone THEN "none"
                                       ELSE IF broken(t) THEN Kept("peerFailure")
                                       ELSE outcome[t]]
        /\ at' = [t \in Tasks |-> IF t \in gone THEN Somewhere ELSE at[t]]
        /\ target' = [t \in Tasks |-> IF t \in gone \/ broken(t) THEN Somewhere ELSE target[t]]
        /\ child' = [t \in Tasks |-> IF t \in gone \/ broken(t) THEN NoTask ELSE child[t]]
        /\ caller' = [t \in Tasks |-> IF t \in gone THEN NoTask
                                      ELSE IF caller[t] \in gone THEN Orphan ELSE caller[t]]
        /\ UNCHANGED owner
        /\ Settle(FALSE)

ClusterNext ==
    \/ \E t \in Tasks :
          \/ TaskStep(t)
          \/ \E c \in Handlers : Accept(t, c)
    \/ \E t \in Clients, n \in Nodes : Call(t, n)
    \/ \E n \in Nodes :
          \/ Crash(n)
          \/ \E q \in Nodes : Set(n, q)

ClusterSpec == ClusterInit /\ [][ClusterNext]_clusterVars

\* Goroutines run, the Getter returns, and a call ends after two seconds at most
\* (http.go:416, peers_grpc.go:102).
FairClusterSpec == ClusterSpec /\ \A t \in Tasks : WF_clusterVars(TaskStep(t))

-----------------------------------------------------------------------------
(* Properties *)

\* Every Get returns, even when nodes forward the key to one another and each
\* waits for the other's flight.
GetReturns == \A t \in Clients : where[t] # "idle" ~> where[t] = "idle"

\* As long as the lists agree a request is forwarded once: the handler answers from
\* its cache or its own source (docs/INTERVIEW.md:345).
ForwardedOnce ==
    ~unsettled => \A t \in Tasks : where[t] = "rpc" => t \in Clients

\* An application sees a configuration error only if its own node was refused by
\* another, never because of trouble between two other parties; every other trouble
\* of a peer is hidden behind the node's own source (geecache.go:178-197).
ConfigErrorHasCause ==
    \A t \in Tasks :
       where[t] = "return" =>
          /\ outcome[t] # "peerFailure"
          /\ outcome[t] = "config" => at[t] \in refused

\* Does not hold, although docs/INTERVIEW.md:345 says that a peer never comes back
\* to the node that asked it: it does when the two lists differ.
NeverAskedBack ==
    \A t \in Tasks :
       where[t] = "rpc" /\ caller[t] \in Tasks => target[t] # at[caller[t]]

-----------------------------------------------------------------------------
(* The inductive invariant of the safety properties *)

\* A handler whose caller has not given up answers the one call that waits for it, and
\* only a call waits for a handler.
CallsMatch ==
    \A t \in Tasks :
       /\ caller[t] \in Tasks => where[caller[t]] = "rpc" /\ child[caller[t]] = t
       /\ child[t] \in Tasks => where[t] = "rpc"

\* While the lists agree only applications forward, to the owner, and only the owner
\* handles.
SettledAgree ==
    ~unsettled =>
       /\ Agreeing
       /\ \A t \in Tasks : where[t] = "rpc" => t \in Clients /\ target[t] = owner[at[t]]
       /\ \A h \in Handlers : where[h] # "idle" => owner[at[h]] = at[h]

\* A configuration error is kept on its way from the call to the end of its flight
\* only, on a node that was refused; a failure of the peer is not kept at all.
OutcomesAgree ==
    \A t \in Tasks :
       /\ outcome[t] # "peerFailure"
       /\ outcome[t] = "config" => where[t] \in {"finish", "return"} /\ at[t] \in refused

ClusterIInv == ClusterTypeOK /\ CallsMatch /\ SettledAgree /\ OutcomesAgree
=============================================================================
