--------------------------------- MODULE Pool ---------------------------------
(***************************************************************************)
(* The clients of the HTTP pool (http.go) and of the gRPC pool             *)
(* (peers_grpc.go): which getter stands for which peer while the list of   *)
(* peers, the TLS configuration and the token change under requests that   *)
(* are on their way, and, for gRPC, how the connections are closed outside *)
(* the lock and how Serve and Shutdown meet.  Everything that happens      *)
(* under p.mu is one action.  The ring is that of ConsistentHash: here the *)
(* owner of a key is any member of the list.                               *)
(***************************************************************************)
EXTENDS FiniteSets, Functions, Naturals

CONSTANTS
    Self,
    Peers,              \* the other nodes
    Plain,              \* no TLS
    TLSConfigs,         \* those that EnableTLS may build
    Tokens,
    Ids,                \* bound on the getters that are alive
    Admins,             \* goroutines that configure, serve or stop the pool
    Requests,
    Nil

ASSUME NodesAssumption == Self \notin Peers /\ IsFiniteSet(Peers)
ASSUME ConfigsAssumption == Plain \notin TLSConfigs /\ Tokens # {}
ASSUME IdsAssumption == Ids \subseteq Nat /\ Nil \notin Ids

VARIABLES
    transport,  \* which of the two pools this is; never changes
    peersList,
    getters,    \* httpGetters or grpcGetters: the table from peers to getters
    getter,     \* getter[i]: the getter object i, or Nil
    clientTLS, sharedToken,
    server,     \* grpcServer
    serverTLS,  \* the configuration that server was created with
    stopped,
    pc,         \* pc[a]: what goroutine a is doing
    stale,      \* stale[a]: the getters that a has yet to close
    request,    \* request[r]: who sent it
    held,       \* held[r]: the getter that r has picked, or Nil
    excused,    \* history: requests whose getter was dropped for a reason
    undialled   \* history: peers whose last dial has failed

config == <<clientTLS, sharedToken>>
table == <<peersList, getters, getter, undialled>>
serving == <<server, serverTLS, stopped>>
requests == <<request, held>>
vars == <<transport, table, config, serving, pc, stale, requests, excused>>

Getter == [peer : Peers, tls : TLSConfigs \cup {Plain}, token : Tokens, closed : BOOLEAN]

ASSUME NilAssumption == Nil \notin Getter

TypeOK ==
    /\ transport \in {"http", "grpc"}
    /\ peersList \subseteq Peers \cup {Self}
    /\ getters \in [Peers -> Ids \cup {Nil}]
    /\ getter \in [Ids -> Getter \cup {Nil}]
    /\ clientTLS \in TLSConfigs \cup {Plain}
    /\ sharedToken \in Tokens
    /\ server \in {"none", "up", "draining", "down"}
    /\ serverTLS \in TLSConfigs \cup {Plain}
    /\ stopped \in BOOLEAN
    /\ pc \in [Admins -> {"idle", "closing", "listening", "serving", "draining", "taking"}]
    /\ stale \in [Admins -> SUBSET Ids]
    /\ request \in [Requests -> {"none", "local", "inbound"}]
    /\ held \in [Requests -> Ids \cup {Nil}]
    /\ excused \subseteq Requests
    /\ undialled \subseteq Peers

\* NewHTTPPool and NewGRPCPool
Init ==
    /\ transport \in {"http", "grpc"}
    /\ peersList = {}
    /\ getters = [p \in Peers |-> Nil]
    /\ getter = [i \in Ids |-> Nil]
    /\ clientTLS = Plain
    /\ sharedToken \in Tokens
    /\ server = "none"
    /\ serverTLS = Plain
    /\ stopped = FALSE
    /\ pc = [a \in Admins |-> "idle"]
    /\ stale = [a \in Admins |-> {}]
    /\ request = [r \in Requests |-> "none"]
    /\ held = [r \in Requests |-> Nil]
    /\ excused = {}
    /\ undialled = {}

Go(a, from, to) == pc[a] = from /\ pc' = [pc EXCEPT ![a] = to]

InTable == Range(getters) \ {Nil}
Listed == peersList \ {Self}

-----------------------------------------------------------------------------
(* Getters *)

\* Mutant: the token does not count.
MatchesTLS(i, tls, token) == getter[i].tls = tls

\* A gRPC getter reads the token at each call, an HTTP getter at its creation.
Matches(i, tls, token) ==
    getter[i].tls = tls /\ (transport = "http" => getter[i].token = token)

\* gettersCurrent, gettersCurrentLocked
Current(tls, token) ==
    \A p \in Listed : getters[p] # Nil /\ Matches(getters[p], tls, token)

\* An object that is closed and that no request holds is garbage.
Collected(objects, requestsHold) ==
    [i \in Ids |-> IF objects[i] # Nil /\ objects[i].closed /\ i \notin requestsHold
                   THEN Nil ELSE objects[i]]

Close(objects, closing) ==
    [i \in Ids |-> IF i \in closing THEN [objects[i] EXCEPT !.closed = TRUE] ELSE objects[i]]

\* Mutant: only the clients of peers that have left are closed.
DroppedIfLeft(new, list) == {getters[p] : p \in Peers \ list} \ {Nil}

\* The old clients that the new table does not have any more.
Dropped(new, list) == InTable \ Range(new)

\* The new table: those in keep keep their getter and ids has those of the others.
\* The old ones are closed, by HTTP at once (only connections without a request), by
\* gRPC after the unlock.
Install(a, list, keep, ids, tls, token) ==
    LET dialled == DOMAIN ids
        new == [p \in Peers |-> IF p \in dialled THEN ids[p]
                                ELSE IF p \in keep THEN getters[p] ELSE Nil]
        objects == [i \in Ids |->
            IF \E p \in dialled : ids[p] = i
            THEN [peer |-> CHOOSE p \in dialled : ids[p] = i,
                  tls |-> tls, token |-> token, closed |-> FALSE]
            ELSE getter[i]]
        dropped == Dropped(new, list)
    IN  /\ getters' = new
        /\ peersList' = list
        /\ IF transport = "http"
           THEN /\ getter' = Collected(Close(objects, dropped), Range(held))
                /\ UNCHANGED <<pc, stale>>
           ELSE /\ getter' = objects
                /\ stale' = [stale EXCEPT ![a] = dropped]
                /\ pc' = [pc EXCEPT ![a] = IF dropped = {} THEN "idle" ELSE "closing"]

\* The peers of list that are not in keep get new getters, except for those that
\* cannot be dialled.
Rebuild(a, list, keep, tls, token) ==
    \E failed \in SUBSET (list \ (keep \cup {Self})) :
    \E ids \in [list \ (keep \cup failed \cup {Self}) -> {i \in Ids : getter[i] = Nil}] :
        /\ transport = "http" => failed = {}
        /\ IsInjective(ids)
        /\ \A i \in Range(ids), j \in Ids : j < i /\ getter[j] = Nil => j \in Range(ids)
        /\ undialled' = failed
        /\ Install(a, list, keep, ids, tls, token)

\* closeGetters
CloseOne(a) ==
    \E i \in stale[a] :
        /\ pc[a] = "closing"
        /\ getter' = Collected(Close(getter, {i}), Range(held))
        /\ stale' = [stale EXCEPT ![a] = @ \ {i}]
        /\ pc' = [pc EXCEPT ![a] = IF stale[a] = {i} THEN "idle" ELSE "closing"]
        /\ UNCHANGED <<transport, peersList, getters, undialled, config, serving,
                       requests, excused>>

-----------------------------------------------------------------------------
(* Configuration *)

\* Mutant: Set does not know that the pool has been stopped.
MaySetAlways == TRUE

MaySet == ~stopped

\* Peers that stay keep a client that still matches.
Reused(list, tls, token) ==
    {p \in list \ {Self} : getters[p] # Nil /\ Matches(getters[p], tls, token)}

\* Requests whose getter goes because its peer has left.
Abandoned(list) == {r \in Requests : held[r] # Nil /\ getter[held[r]].peer \notin list}

Set(a, list) ==
    /\ pc[a] = "idle"
    /\ MaySet
    /\ list # peersList \/ ~Current(clientTLS, sharedToken)
    /\ Rebuild(a, list, Reused(list, clientTLS, sharedToken), clientTLS, sharedToken)
    /\ excused' = excused \cup Abandoned(list)
    /\ UNCHANGED <<transport, config, serving, requests>>

\* HTTP rebuilds through setLocked, gRPC redials everybody.
EnableTLS(a, tls) ==
    /\ pc[a] = "idle"
    /\ tls # clientTLS
    /\ transport = "grpc" => server = "none" /\ ~stopped
    /\ clientTLS' = tls
    /\ Rebuild(a, peersList, {}, tls, sharedToken)
    /\ excused' = excused \cup {r \in Requests : held[r] # Nil}
    /\ UNCHANGED <<transport, sharedToken, serving, requests>>

SetSharedToken(a, token) ==
    /\ pc[a] = "idle"
    /\ token # sharedToken
    /\ sharedToken' = token
    /\ IF transport = "http" /\ ~Current(clientTLS, token)
       THEN Rebuild(a, peersList, Reused(peersList, clientTLS, token), clientTLS, token)
       ELSE UNCHANGED <<table, pc, stale>>
    /\ UNCHANGED <<transport, clientTLS, serving, requests, excused>>

-----------------------------------------------------------------------------
(* Requests: of the application, or handlers of other nodes' requests *)

Accepting == transport = "http" \/ (server = "up" /\ \E a \in Admins : pc[a] = "serving")

Arrive(r, from) ==
    /\ request[r] = "none"
    /\ from = "inbound" => Accepting
    /\ request' = [request EXCEPT ![r] = from]
    /\ UNCHANGED <<transport, table, config, serving, pc, stale, held, excused>>

PickPeer(r, p) ==
    /\ request[r] # "none" /\ held[r] = Nil
    /\ p \in Listed
    /\ getters[p] # Nil
    /\ held' = [held EXCEPT ![r] = getters[p]]
    /\ UNCHANGED <<transport, table, config, serving, pc, stale, request, excused>>

\* The request is answered, by the peer or here, or fails.
End(r) ==
    /\ request[r] # "none"
    /\ request' = [request EXCEPT ![r] = "none"]
    /\ held' = [held EXCEPT ![r] = Nil]
    /\ getter' = Collected(getter, Range(held'))
    /\ excused' = excused \ {r}
    /\ UNCHANGED <<transport, peersList, getters, undialled, config, serving, pc, stale>>

-----------------------------------------------------------------------------
(* The gRPC server *)

Handlers == {r \in Requests : request[r] = "inbound"}

\* net.Listen, by Serve or by the caller of ServeListener.
Bind(a) ==
    /\ transport = "grpc"
    /\ \A b \in Admins : pc[b] \notin {"listening", "serving"}
    /\ Go(a, "idle", "listening")
    /\ UNCHANGED <<transport, table, config, serving, stale, requests, excused>>

\* The listener is closed again when the pool has been stopped or serves already.
ServeListener(a) ==
    /\ UNCHANGED <<transport, table, config, stopped, stale, requests, excused>>
    /\ IF stopped \/ server # "none"
       THEN Go(a, "listening", "idle") /\ UNCHANGED <<server, serverTLS>>
       ELSE /\ Go(a, "listening", "serving")
            /\ server' = "up"
            /\ serverTLS' = clientTLS

\* srv.Serve returns, which closes the listener: at the latest when the server stops.
ServeReturns(a) ==
    /\ Go(a, "serving", "idle")
    /\ UNCHANGED <<transport, table, config, serving, stale, requests, excused>>

\* A second Shutdown returns at once, which changes nothing.
Shutdown(a) ==
    /\ transport = "grpc"
    /\ ~stopped
    /\ stopped' = TRUE
    /\ IF server = "none"
       THEN Go(a, "idle", "taking") /\ UNCHANGED server
       ELSE Go(a, "idle", "draining") /\ server' = "draining"
    /\ UNCHANGED <<transport, table, config, serverTLS, stale, requests, excused>>

\* Mutant: the shutdown does not wait for the handlers.
HandlersIgnored == TRUE

HandlersDone == Handlers = {}

\* GracefulStop has returned.
Drained(a) ==
    /\ HandlersDone
    /\ Go(a, "draining", "taking")
    /\ server' = "down"
    /\ UNCHANGED <<transport, table, config, serverTLS, stopped, stale, requests, excused>>

\* The context ends first: srv.Stop cuts the handlers off.
Forced(a) ==
    /\ Go(a, "draining", "taking")
    /\ server' = "down"
    /\ excused' = excused \cup Handlers
    /\ UNCHANGED <<transport, table, config, serverTLS, stopped, stale, requests>>

\* The second critical section empties the table.
Take(a) ==
    /\ Go(a, "taking", IF InTable = {} THEN "idle" ELSE "closing")
    /\ stale' = [stale EXCEPT ![a] = InTable]
    /\ getters' = [p \in Peers |-> Nil]
    /\ UNCHANGED <<transport, peersList, getter, undialled, config, serving, requests, excused>>

-----------------------------------------------------------------------------

Next ==
    \/ \E a \in Admins :
          \/ \E list \in SUBSET (Peers \cup {Self}) : Set(a, list)
          \/ \E tls \in TLSConfigs : EnableTLS(a, tls)
          \/ \E token \in Tokens : SetSharedToken(a, token)
          \/ CloseOne(a) \/ Bind(a) \/ ServeListener(a) \/ ServeReturns(a)
          \/ Shutdown(a) \/ Drained(a) \/ Forced(a) \/ Take(a)
    \/ \E r \in Requests :
          \/ \E from \in {"local", "inbound"} : Arrive(r, from)
          \/ \E p \in Peers : PickPeer(r, p)
          \/ End(r)

Spec == Init /\ [][Next]_vars

\* Goroutines run, and every request ends: peers are given two seconds.
FairSpec ==
    /\ Spec
    /\ \A a \in Admins :
          /\ WF_vars(CloseOne(a) \/ ServeListener(a) \/ Drained(a) \/ Take(a))
          /\ WF_vars(stopped /\ ServeReturns(a))
    /\ \A r \in Requests : WF_vars(End(r))

-----------------------------------------------------------------------------
(* Properties *)

Open == {i \in Ids : getter[i] # Nil /\ ~getter[i].closed}

\* No connection leaks and none is closed under the pool: every open client is in the
\* table or about to be closed by somebody, never both or twice, and the table has no
\* closed client (peers_grpc.go:183-249, 514-548, http.go:296-302).
ConnectionsAccounted ==
    /\ Open \subseteq InTable \cup UNION {stale[a] : a \in Admins}
    /\ InTable \subseteq Open
    /\ \A a \in Admins :
          /\ stale[a] \cap InTable = {}
          /\ \A b \in Admins \ {a} : stale[a] \cap stale[b] = {}

\* Whatever order configuration calls come in, a pick gets a client of a listed peer
\* with the present TLS configuration and (HTTP) token; a listed peer is without a
\* client only if its last dial failed or the pool was stopped; and a running server
\* uses the TLS configuration of the clients (http.go:305-307, peers_grpc.go:215-240, 336-337).
GettersCurrent ==
    /\ \A p \in Peers : getters[p] # Nil =>
          /\ p \in peersList
          /\ getter[getters[p]].peer = p
          /\ getter[getters[p]].tls = clientTLS
          /\ transport = "http" => getter[getters[p]].token = sharedToken
    /\ ~stopped => \A p \in Listed \ undialled : getters[p] # Nil
    /\ server = "up" => serverTLS = clientTLS

\* A client is closed under a request only if its peer has left, TLS was switched, or
\* the pool was stopped; and a graceful stop never cuts a handler off, because
\* it may be forwarding (peers_grpc.go:512-513).  HTTP never breaks a request
\* (http.go:428).
BreaksForCause ==
    \A r \in Requests :
       held[r] # Nil /\ getter[held[r]].closed /\ transport = "grpc" =>
          r \in excused \/ (stopped /\ request[r] = "local")

\* A Stop that a called now would return at once, without waiting for the first one
\* (peers_grpc.go:516-519).
StopReturnsAtOnce(a) == transport = "grpc" /\ stopped /\ pc[a] = "idle"

\* Does not hold, although peers_grpc.go:550 calls Stop synchronous: while another
\* goroutine is still in Shutdown a second Stop returns with connections open.
StopIsSynchronous == \A a \in Admins : StopReturnsAtOnce(a) => Open = {}

\* After Shutdown every connection and the port are released, whatever Set, EnableTLS
\* and Serve do meanwhile (peers_grpc.go:195-198, 465-474, 516-545).
ReleasedAfterStop ==
    stopped ~> /\ Open = {}
               /\ \A a \in Admins : pc[a] \notin {"listening", "serving"}
=============================================================================
