---------------------------- MODULE FileDiscovery ----------------------------
(***************************************************************************)
(* Peers that find each other through the shared file peers.json           *)
(* (filediscovery.go), over the life of the processes that use it          *)
(* (StartDiscovery of the pools; startCacheServer and run of cmd/main.go): *)
(* register, watch with heartbeats, close, unregister, crash, restart.     *)
(*                                                                         *)
(* The file is Absent, Corrupt or a list of addresses; of a list only how  *)
(* often it names each node matters here.  A lock that dies with its       *)
(* process (filediscovery_lock_flock.go) guards each read-modify-write;    *)
(* readers do not take it, since a rename is atomic.                       *)
(***************************************************************************)
EXTENDS Integers, FiniteSetsExt

CONSTANTS
    Nodes,
    Processes,          \* the nodes that run
    Absent, Corrupt, Nil,
    Copies,             \* how often a list edited by hand names a node at most
    MaxFaults           \* bound on edits by hand and failed writes

ASSUME ProcessesAssumption == Processes \subseteq Nodes
ASSUME CopiesAssumption == Copies \in Nat \ {0}
ASSUME MaxFaultsAssumption == MaxFaults \in Nat
ASSUME NilAssumption == Nil \notin Processes \X {"main", "watch"}
ASSUME FileAssumption ==
    /\ Absent # Corrupt
    /\ Absent \notin [Nodes -> 0..Copies] /\ Corrupt \notin [Nodes -> 0..Copies]

VARIABLES
    file,
    lock,       \* the actor in the critical section, or Nil
    pc,         \* of the main and the watch goroutine of each process
    snap,       \* snap[a]: what a has read in its critical section
    stopped,    \* stopped[p]: stopCh is closed
    lastPeers,  \* lastPeers[p]: the list of the last onChange
    edited,     \* history: the file has been edited by hand
    faults

vars == <<file, lock, pc, snap, stopped, lastPeers, edited, faults>>

Actors == Processes \X {"main", "watch"}
Main(p) == <<p, "main">>
Watch(p) == <<p, "watch">>
Self(a) == a[1]

Lists == [Nodes -> 0..Copies]
Empty == [n \in Nodes |-> 0]
Listed(l) == {n \in Nodes : l[n] > 0}
ListOf(S) == [n \in Nodes |-> IF n \in S THEN 1 ELSE 0]
Readable == file \notin {Absent, Corrupt}

Stages == {"down", "register", "registering", "serving", "closing",
           "unregister", "unregistering", "left", "stopping",
           "none", "boot", "first", "loop", "beat", "beating", "done"}

TypeOK ==
    /\ file \in Lists \cup {Absent, Corrupt}
    /\ lock \in Actors \cup {Nil}
    /\ pc \in [Actors -> Stages]
    /\ snap \in [Actors -> Lists \cup {Absent, Corrupt}]
    /\ stopped \in [Processes -> BOOLEAN]
    /\ lastPeers \in [Processes -> Lists]
    /\ edited \in BOOLEAN
    /\ faults \in 0..MaxFaults

Init ==
    /\ file = Absent
    /\ lock = Nil
    /\ pc = [a \in Actors |-> IF a[2] = "main" THEN "down" ELSE "none"]
    /\ snap = [a \in Actors |-> Absent]
    /\ stopped = [p \in Processes |-> FALSE]
    /\ lastPeers = [p \in Processes |-> Empty]
    /\ edited = FALSE
    /\ faults = 0

Go(a, from, to) == pc[a] = from /\ pc' = [pc EXCEPT ![a] = to]

-----------------------------------------------------------------------------
(* Register and Unregister *)

\* Mutant: the lock is per process.
LockFreeHere(a) == lock # Nil => Self(lock) # Self(a)

\* registerMu and the file lock.
LockFree(a) == lock = Nil

\* Take the lock and read the list.
Begin(a) ==
    /\ LockFree(a)
    /\ \/ Go(a, "register", "registering")
       \/ Go(a, "unregister", "unregistering")
       \/ Go(a, "beat", "beating")
    /\ lock' = a
    /\ snap' = [snap EXCEPT ![a] = file]
    /\ UNCHANGED <<file, stopped, lastPeers, edited, faults>>

SnapListed(a) == IF snap[a] = Absent THEN {} ELSE Listed(snap[a])

\* What the operation of a writes: mergePeers or removePeer of its snapshot.
Written(a) ==
    ListOf(IF pc[a] = "unregistering"
           THEN SnapListed(a) \ {Self(a)}
           ELSE SnapListed(a) \cup {Self(a)})

\* Unregister writes nothing if the node is not listed.
NothingToDo(a) == pc[a] = "unregistering" /\ Self(a) \notin SnapListed(a)

Succeed(a) ==
    /\ snap[a] # Corrupt
    /\ file' = IF NothingToDo(a) THEN file ELSE Written(a)
    /\ UNCHANGED faults

\* The list could not be read, or writeFileAtomic fails before its rename.
Fail(a) ==
    /\ \/ snap[a] = Corrupt /\ UNCHANGED faults
       \/ snap[a] # Corrupt /\ ~NothingToDo(a)
          /\ faults < MaxFaults /\ faults' = faults + 1
    /\ UNCHANGED file

Finish(a) ==
    /\ lock' = Nil
    /\ snap' = [snap EXCEPT ![a] = Absent]
    /\ UNCHANGED <<stopped, lastPeers, edited>>

-----------------------------------------------------------------------------
(* The main goroutine *)

Start(p) ==
    /\ Go(Main(p), "down", "register")
    /\ UNCHANGED <<file, lock, snap, stopped, lastPeers, edited, faults>>

\* StartDiscovery: Register, then Watch; if it fails the process exits.
Registered(p) ==
    /\ pc[Main(p)] = "registering"
    /\ \/ /\ Succeed(Main(p))
          /\ pc' = [pc EXCEPT ![Main(p)] = "serving", ![Watch(p)] = "boot"]
       \/ Fail(Main(p)) /\ Go(Main(p), "registering", "down")
    /\ Finish(Main(p))

\* A signal or a server's error: discovery.Close begins.
Quit(p) ==
    /\ Go(Main(p), "serving", "closing")
    /\ stopped' = [stopped EXCEPT ![p] = TRUE]
    /\ UNCHANGED <<file, lock, snap, lastPeers, edited, faults>>

\* Mutant: Close does not wait for the watch goroutine.
WatchEndedOrNot(p) == TRUE

WatchEnded(p) == pc[Watch(p)] = "done"

Closed(p) ==
    /\ WatchEnded(p)
    /\ Go(Main(p), "closing", "unregister")
    /\ UNCHANGED <<file, lock, snap, stopped, lastPeers, edited, faults>>

\* An error of Unregister is only logged: the node goes without leaving.
Unregistered(p) ==
    /\ \/ Succeed(Main(p)) /\ Go(Main(p), "unregistering", "left")
       \/ Fail(Main(p)) /\ Go(Main(p), "unregistering", "stopping")
    /\ Finish(Main(p))

\* The process ends: after its servers have stopped, or at any moment.  Its
\* lock and its memory are gone; what it has renamed stays.
End(p) ==
    /\ pc[Main(p)] # "down"
    /\ pc' = [pc EXCEPT ![Main(p)] = "down", ![Watch(p)] = "none"]
    /\ lock' = IF lock \in {Main(p), Watch(p)} THEN Nil ELSE lock
    /\ snap' = [snap EXCEPT ![Main(p)] = Absent, ![Watch(p)] = Absent]
    /\ stopped' = [stopped EXCEPT ![p] = FALSE]
    /\ lastPeers' = [lastPeers EXCEPT ![p] = Empty]
    /\ UNCHANGED <<file, edited, faults>>

-----------------------------------------------------------------------------
(* The watch goroutine *)

\* Mutant: a watch that finds stopCh closed does not close watchDone.
EndedUnnoticed(p) == IF stopped[p] THEN "none" ELSE "first"

Booted(p) == IF stopped[p] THEN "done" ELSE "first"

WatchBoot(p) ==
    /\ Go(Watch(p), "boot", Booted(p))
    /\ UNCHANGED <<file, lock, snap, stopped, lastPeers, edited, faults>>

WatchFirst(p) ==
    /\ Go(Watch(p), "first", "loop")
    /\ lastPeers' = [lastPeers EXCEPT ![p] = IF Readable THEN file ELSE @]
    /\ UNCHANGED <<file, lock, snap, stopped, edited, faults>>

Size(l) == MapThenSumSet(LAMBDA n : l[n], Nodes)

\* Mutant: only the lengths are compared.
SameLength(l, last) == Size(l) = Size(last)

\* sameSlice: the same length, and no element of the last list is new.
SameSlice(l, last) == Size(l) = Size(last) /\ Listed(last) \subseteq Listed(l)

\* The watch ticker: onChange if the list has changed.
WatchTick(p) ==
    /\ pc[Watch(p)] = "loop"
    /\ Readable
    /\ ~SameSlice(file, lastPeers[p])
    /\ lastPeers' = [lastPeers EXCEPT ![p] = file]
    /\ UNCHANGED <<file, lock, pc, snap, stopped, edited, faults>>

\* The heartbeat ticker: Register again.
Heartbeat(p) ==
    /\ Go(Watch(p), "loop", "beat")
    /\ UNCHANGED <<file, lock, snap, stopped, lastPeers, edited, faults>>

HeartbeatDone(p) ==
    /\ Go(Watch(p), "beating", "loop")
    /\ Succeed(Watch(p)) \/ Fail(Watch(p))
    /\ Finish(Watch(p))

WatchStop(p) ==
    /\ stopped[p]
    /\ Go(Watch(p), "loop", "done")
    /\ UNCHANGED <<file, lock, snap, stopped, lastPeers, edited, faults>>

-----------------------------------------------------------------------------

\* Someone overwrites, damages or deletes the file by hand.
Edit ==
    /\ faults < MaxFaults
    /\ faults' = faults + 1
    /\ file' \in Lists \cup {Absent, Corrupt}
    /\ edited' = TRUE
    /\ UNCHANGED <<lock, pc, snap, stopped, lastPeers>>

Next ==
    \/ \E p \in Processes :
          \/ Start(p) \/ Registered(p) \/ Quit(p) \/ Closed(p)
          \/ Unregistered(p) \/ End(p)
          \/ WatchBoot(p) \/ WatchFirst(p) \/ WatchTick(p)
          \/ Heartbeat(p) \/ HeartbeatDone(p) \/ WatchStop(p)
    \/ \E a \in Actors : Begin(a)
    \/ Edit

Spec == Init /\ [][Next]_vars

\* Goroutines are scheduled, tickers tick, the lock is granted to those that
\* queue for it, and a select does not pass over a ready case forever.
FairSpec ==
    /\ Spec
    /\ \A p \in Processes :
          /\ SF_vars(Begin(Main(p)) \/ Begin(Watch(p)))
          /\ WF_vars(Registered(p) \/ Closed(p) \/ Unregistered(p)
                     \/ WatchBoot(p) \/ WatchFirst(p) \/ HeartbeatDone(p))
          /\ SF_vars(WatchTick(p))
          /\ SF_vars(Heartbeat(p))
          /\ SF_vars(WatchStop(p))

-----------------------------------------------------------------------------
(* Properties *)

\* As long as nobody edits the file by hand, a node that has registered is in
\* the list until it leaves, whoever registers, unregisters or crashes in
\* between (filediscovery.go:76-80).
RegisteredIsListed ==
    ~edited => \A p \in Processes :
                  pc[Main(p)] \in {"serving", "closing", "unregister"} =>
                     Readable /\ p \in Listed(file)

\* A node that has unregistered is not written back, neither by its own
\* heartbeat (filediscovery.go:226, cmd/main.go:468) nor by another node.
LeftIsGone ==
    ~edited => \A p \in Processes :
                  pc[Main(p)] = "left" /\ Readable => p \notin Listed(file)

Settled ==
    /\ \A p \in Processes : pc[Main(p)] \in {"serving", "down"}
    /\ file # Corrupt

\* Once the processes stop coming and going and the file is not damaged, every
\* node that serves is listed, and routes over the list in the file, whatever
\* was done to the file before (filediscovery.go:163-165).
ListsHeal ==
    <>[]Settled =>
       \A p \in Processes :
          <>[](pc[Main(p)] = "serving" =>
                  /\ Readable /\ p \in Listed(file)
                  /\ Listed(lastPeers[p]) = Listed(file))

\* Close returns, also when a heartbeat is about to register the node.
CloseReturns ==
    \A p \in Processes : pc[Main(p)] = "closing" ~> pc[Main(p)] # "closing"
=============================================================================
