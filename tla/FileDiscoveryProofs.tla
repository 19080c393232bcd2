------------------------- MODULE FileDiscoveryProofs -------------------------
(***************************************************************************)
(* Proofs about discovery through a shared file, for any set of nodes and  *)
(* processes, any number of crashes, restarts and failed writes.           *)
(***************************************************************************)
EXTENDS FileDiscovery, ExclLock, TLAPS

MainStages == {"down", "register", "registering", "serving", "closing",
               "unregister", "unregistering", "left", "stopping"}
WatchStages == {"none", "boot", "first", "loop", "beat", "beating", "done"}

\* The stages of a read-modify-write.
Critical == {"registering", "unregistering", "beating"}

\* The part of the type invariant that the arguments below need; each
\* goroutine keeps to its own stages.
Types ==
    /\ pc \in [Actors -> MainStages \cup WatchStages]
    /\ \A p \in Processes : pc[Main(p)] \in MainStages /\ pc[Watch(p)] \in WatchStages
    /\ DOMAIN snap = Actors /\ snap = [a \in Actors |-> snap[a]]
    /\ ~edited => file \in Lists \cup {Absent}

\* The lock is held exactly during a read-modify-write.
LockHeld == \A a \in Actors : pc[a] \in Critical <=> lock = a

\* What the holder of the lock has read is what the file holds.
SnapIsFile == ~edited => \A a \in Actors : lock = a => snap[a] = file

\* The watch goroutine runs only while the node serves or closes.
WatchWhileServing ==
    \A p \in Processes :
       pc[Main(p)] \notin {"serving", "closing"} => pc[Watch(p)] \in {"none", "done"}

IInv ==
    /\ Types
    /\ LockHeld
    /\ SnapIsFile
    /\ WatchWhileServing
    /\ RegisteredIsListed
    /\ LeftIsGone

USE ProcessesAssumption, CopiesAssumption, NilAssumption, FileAssumption
    DEF Actors, Main, Watch, Self

-----------------------------------------------------------------------------
(* The lists that are written *)

\* The list made of a set of nodes names exactly them, and is a list.
LEMMA ListOfSet ==
    ASSUME NEW S
    PROVE  /\ ListOf(S) \in Lists
           /\ Listed(ListOf(S)) = S \cap Nodes
           /\ ListOf(S) # Absent /\ ListOf(S) # Corrupt
<1>1. ListOf(S) \in Lists
  BY DEF ListOf, Lists
<1>2. Listed(ListOf(S)) = S \cap Nodes
  BY DEF ListOf, Listed
<1> QED
  BY <1>1, <1>2 DEF Lists

\* The nodes that a's list names once a's operation has succeeded: a comes or goes,
\* and the others stay.
LEMMA ListAfter ==
    ASSUME IInv, NEW a \in Actors, lock = a, Succeed(a), ~edited
    PROVE  LET old == IF Readable THEN Listed(file) ELSE {}
           IN  /\ Readable => Readable'
               /\ IF pc[a] = "unregistering"
                  THEN Readable' => Listed(file') = old \ {Self(a)}
                  ELSE Readable' /\ Listed(file') = old \cup {Self(a)}
<1> DEFINE old == IF Readable THEN Listed(file) ELSE {}
<1>1. snap[a] = file /\ file \in Lists \cup {Absent}
  BY DEF IInv, Types, SnapIsFile
<1>2. SnapListed(a) = old /\ old \subseteq Nodes
  BY <1>1 DEF SnapListed, Readable, Listed, Lists
<1>3. CASE NothingToDo(a)
  <2>1. file' = file /\ pc[a] = "unregistering" /\ Self(a) \notin old
    BY <1>2, <1>3 DEF Succeed, NothingToDo
  <2>2. (Readable <=> Readable') /\ (Readable' => old = Listed(file'))
    BY <2>1 DEF Readable
  <2> QED
    BY <2>1, <2>2
<1>4. CASE ~NothingToDo(a) /\ pc[a] = "unregistering"
  <2>1. file' = ListOf(old \ {Self(a)})
    BY <1>2, <1>4 DEF Succeed, Written
  <2> QED
    BY <2>1, <1>2, <1>4, ListOfSet DEF Readable
<1>5. CASE ~NothingToDo(a) /\ pc[a] # "unregistering"
  <2>1. file' = ListOf(old \cup {Self(a)})
    BY <1>2, <1>5 DEF Succeed, Written
  <2>2. Self(a) \in Nodes
    OBVIOUS
  <2> QED
    BY <2>1, <2>2, <1>2, <1>5, ListOfSet DEF Readable
<1>6. NothingToDo(a) => pc[a] = "unregistering"
  BY DEF NothingToDo
<1> QED
  BY <1>3, <1>4, <1>5

\* What a success leaves in the file is a list, unless it writes nothing.
LEMMA FileAfter ==
    ASSUME IInv, NEW a \in Actors, Succeed(a), ~edited
    PROVE  file' \in Lists \cup {Absent}
BY ListOfSet DEF IInv, Types, Succeed, Written

-----------------------------------------------------------------------------
(* The invariant *)

LEMMA InitIInv == Init => IInv
BY DEF Init, IInv, Types, LockHeld, SnapIsFile, WatchWhileServing,
       RegisteredIsListed, LeftIsGone, MainStages, WatchStages, Critical

\* The steps that touch neither the file nor the lock.
LEMMA QuietIInv ==
    ASSUME IInv, NEW p \in Processes,
           \/ Start(p) \/ Quit(p) \/ Closed(p) \/ WatchBoot(p) \/ WatchFirst(p)
           \/ WatchTick(p) \/ Heartbeat(p) \/ WatchStop(p)
    PROVE  IInv'
<1> USE DEF IInv, Go
<1>1. UNCHANGED <<file, lock, snap, edited>>
  BY DEF Start, Quit, Closed, WatchBoot, WatchFirst, WatchTick, Heartbeat, WatchStop
<1>2. CASE Start(p) \/ Quit(p) \/ Closed(p)
  <2>1. /\ \A a \in Actors : a # Main(p) => pc'[a] = pc[a]
        /\ pc'[Main(p)] \in {"register", "closing", "unregister"}
        /\ \/ pc[Main(p)] = "down" /\ pc'[Main(p)] = "register"
           \/ pc[Main(p)] = "serving" /\ pc'[Main(p)] = "closing"
           \/ pc[Main(p)] = "closing" /\ pc'[Main(p)] = "unregister"
              /\ pc[Watch(p)] = "done"
        /\ pc' \in [Actors -> MainStages \cup WatchStages]
    BY <1>2 DEF Start, Quit, Closed, WatchEnded, Types, MainStages
  <2>2. Types'
    BY <1>1, <2>1 DEF Types, MainStages, WatchStages
  <2>3. LockHeld'
    BY <1>1, <2>1 DEF LockHeld, Critical
  <2>4. SnapIsFile'
    BY <1>1 DEF SnapIsFile
  <2>5. WatchWhileServing'
    BY <2>1 DEF WatchWhileServing
  <2>6. RegisteredIsListed'
    <3>1. ASSUME ~edited, NEW q \in Processes,
                 pc'[Main(q)] \in {"serving", "closing", "unregister"}
          PROVE  pc[Main(q)] \in {"serving", "closing", "unregister"}
      BY <2>1, <3>1
    <3> QED
      BY <1>1, <3>1 DEF RegisteredIsListed, Readable
  <2>7. LeftIsGone'
    <3>1. ASSUME NEW q \in Processes, pc'[Main(q)] = "left"
          PROVE  pc[Main(q)] = "left"
      BY <2>1, <3>1
    <3> QED
      BY <1>1, <3>1 DEF LeftIsGone, Readable
  <2> QED
    BY <2>2, <2>3, <2>4, <2>5, <2>6, <2>7
<1>3. CASE WatchBoot(p) \/ WatchFirst(p) \/ WatchTick(p) \/ Heartbeat(p) \/ WatchStop(p)
  <2>1. /\ \A a \in Actors : a # Watch(p) => pc'[a] = pc[a]
        /\ pc[Watch(p)] \notin Critical /\ pc'[Watch(p)] \notin Critical
        /\ pc'[Watch(p)] \in WatchStages
        /\ pc[Watch(p)] \in {"none", "done"} => pc'[Watch(p)] \in {"none", "done"}
        /\ pc' \in [Actors -> MainStages \cup WatchStages]
    BY <1>3 DEF WatchBoot, Booted, WatchFirst, WatchTick, Heartbeat, WatchStop,
                Types, WatchStages, Critical
  <2>2. \A q \in Processes : pc'[Main(q)] = pc[Main(q)]
    BY <2>1
  <2>3. Types'
    BY <1>1, <2>1, <2>2 DEF Types
  <2>4. LockHeld'
    BY <1>1, <2>1 DEF LockHeld
  <2>5. SnapIsFile'
    BY <1>1 DEF SnapIsFile
  <2>6. WatchWhileServing'
    BY <2>1, <2>2 DEF WatchWhileServing
  <2>7. RegisteredIsListed' /\ LeftIsGone'
    BY <1>1, <2>2 DEF RegisteredIsListed, LeftIsGone, Readable
  <2> QED
    BY <2>3, <2>4, <2>5, <2>6, <2>7
<1> QED
  BY <1>2, <1>3

\* Taking the lock and reading the list.
LEMMA BeginIInv ==
    ASSUME IInv, NEW a \in Actors, Begin(a)
    PROVE  IInv'
<1> USE DEF IInv
<1>1. /\ lock = Nil /\ lock' = a /\ UNCHANGED <<file, edited>>
      /\ \A b \in Actors : b # a => pc'[b] = pc[b]
      /\ \/ pc[a] = "register" /\ pc'[a] = "registering"
         \/ pc[a] = "unregister" /\ pc'[a] = "unregistering"
         \/ pc[a] = "beat" /\ pc'[a] = "beating"
      /\ pc' \in [Actors -> MainStages \cup WatchStages]
  BY DEF Begin, LockFree, Go, Types, MainStages, WatchStages
<1>2. /\ snap'[a] = file
      /\ DOMAIN snap' = Actors /\ snap' = [b \in Actors |-> snap'[b]]
  BY DEF Begin, Types
<1>3. Types'
  BY <1>1, <1>2 DEF Types, MainStages, WatchStages
<1>4. LockHeld'
  BY <1>1 DEF LockHeld, Critical
<1>5. SnapIsFile'
  BY <1>1, <1>2 DEF SnapIsFile
<1>6. WatchWhileServing'
  BY <1>1 DEF WatchWhileServing, Types, MainStages, WatchStages
<1>7. RegisteredIsListed' /\ LeftIsGone'
  <2>1. ASSUME NEW q \in Processes,
               pc'[Main(q)] \in {"serving", "closing", "unregister", "left"}
        PROVE  pc[Main(q)] = pc'[Main(q)]
    BY <1>1, <2>1
  <2> QED
    BY <1>1, <2>1 DEF RegisteredIsListed, LeftIsGone, Readable
<1> QED
  BY <1>3, <1>4, <1>5, <1>6, <1>7

\* The end of a process, at whatever point.
LEMMA EndIInv ==
    ASSUME IInv, NEW p \in Processes, End(p)
    PROVE  IInv'
<1> USE DEF IInv
<1>1. /\ \A a \in Actors : Self(a) # p => pc'[a] = pc[a]
      /\ pc'[Main(p)] = "down" /\ pc'[Watch(p)] = "none"
      /\ UNCHANGED <<file, edited>>
  BY DEF End, Types
<1>10. \A a \in Actors : Self(a) # p => snap'[a] = snap[a]
  <2>1. snap' = [snap EXCEPT ![Main(p)] = Absent, ![Watch(p)] = Absent]
    BY DEF End
  <2>2. TAKE a \in Actors
  <2>3. HAVE Self(a) # p
  <2>4. a # Main(p) /\ a # Watch(p)
    BY <2>3
  <2> HIDE DEF Main, Watch, Self, Actors
  <2>5. a \in DOMAIN snap
    BY DEF Types
  <2> QED
    BY <2>1, <2>4, <2>5
<1>9. /\ pc' \in [Actors -> MainStages \cup WatchStages]
      /\ DOMAIN snap' = Actors /\ snap' = [a \in Actors |-> snap'[a]]
  BY DEF End, Types, MainStages, WatchStages
<1>2. \A a \in Actors : Self(a) = p => a = Main(p) \/ a = Watch(p)
  OBVIOUS
<1>3. \A a \in Actors : lock' = a <=> lock = a /\ Self(a) # p
  BY <1>2 DEF End
<1>4. Types'
  BY <1>1, <1>2, <1>9 DEF Types, MainStages, WatchStages
<1>5. LockHeld'
  BY <1>1, <1>2, <1>3 DEF LockHeld, Critical
<1>6. SnapIsFile'
  BY <1>1, <1>3, <1>10 DEF SnapIsFile
<1>7. WatchWhileServing'
  BY <1>1 DEF WatchWhileServing
<1>8. RegisteredIsListed' /\ LeftIsGone'
  <2>1. ASSUME NEW q \in Processes,
               pc'[Main(q)] \in {"serving", "closing", "unregister", "left"}
        PROVE  pc[Main(q)] = pc'[Main(q)]
    BY <1>1, <2>1
  <2> QED
    BY <1>1, <2>1 DEF RegisteredIsListed, LeftIsGone, Readable
<1> QED
  BY <1>4, <1>5, <1>6, <1>7, <1>8

\* After an edit by hand nothing is claimed about the file.
LEMMA EditIInv ==
    ASSUME IInv, Edit
    PROVE  IInv'
BY DEF IInv, Edit, Types, LockHeld, SnapIsFile, WatchWhileServing, RegisteredIsListed,
       LeftIsGone

\* The end of a read-modify-write: what it changes, whose operation it was.
Ending(a) ==
    \/ \E p \in Processes : a = Main(p) /\ (Registered(p) \/ Unregistered(p))
    \/ \E p \in Processes : a = Watch(p) /\ HeartbeatDone(p)

\* Whatever operation ends, the lock is free and the list has at most its own
\* node more or less.
LEMMA EndingFacts ==
    ASSUME IInv, NEW a \in Actors, Ending(a)
    PROVE  /\ lock = a /\ lock' = Nil
           /\ UNCHANGED edited
           /\ DOMAIN snap' = Actors /\ snap' = [b \in Actors |-> snap'[b]]
           /\ Succeed(a) \/ Fail(a)
<1> USE DEF IInv, LockHeld, Critical, Go
<1>1. pc[a] \in Critical /\ Finish(a) /\ (Succeed(a) \/ Fail(a))
  BY DEF Ending, Registered, Unregistered, HeartbeatDone
<1> QED
  BY <1>1 DEF Finish, Types

\* Where the goroutines are then: p's operation is over, with success or not.
LEMMA EndingStages ==
    ASSUME IInv, NEW p \in Processes,
           Registered(p) \/ Unregistered(p) \/ HeartbeatDone(p)
    PROVE  \E a \in {Main(p), Watch(p)} :
              /\ Ending(a)
              /\ pc' \in [Actors -> MainStages \cup WatchStages]
              /\ \A q \in Processes \ {p} :
                    pc'[Main(q)] = pc[Main(q)] /\ pc'[Watch(q)] = pc[Watch(q)]
              /\ \/ /\ a = Main(p) /\ pc[a] = "registering" /\ Succeed(a)
                    /\ pc'[Main(p)] = "serving" /\ pc'[Watch(p)] = "boot"
                 \/ /\ a = Main(p) /\ pc[a] = "registering" /\ Fail(a)
                    /\ pc'[Main(p)] = "down" /\ pc'[Watch(p)] = pc[Watch(p)]
                 \/ /\ a = Main(p) /\ pc[a] = "unregistering" /\ Succeed(a)
                    /\ pc'[Main(p)] = "left" /\ pc'[Watch(p)] = pc[Watch(p)]
                 \/ /\ a = Main(p) /\ pc[a] = "unregistering" /\ Fail(a)
                    /\ pc'[Main(p)] = "stopping" /\ pc'[Watch(p)] = pc[Watch(p)]
                 \/ /\ a = Watch(p) /\ pc[a] = "beating"
                    /\ pc'[Main(p)] = pc[Main(p)] /\ pc'[Watch(p)] = "loop"
<1> USE DEF IInv, Types, Go, MainStages, WatchStages
<1>1. CASE Registered(p)
  <2>1. Ending(Main(p))
    BY <1>1 DEF Ending
  <2>2. CASE Succeed(Main(p)) /\ pc' = [pc EXCEPT ![Main(p)] = "serving", ![Watch(p)] = "boot"]
    BY <1>1, <2>1, <2>2 DEF Registered
  <2>3. CASE Fail(Main(p)) /\ Go(Main(p), "registering", "down")
    BY <1>1, <2>1, <2>3
  <2> QED
    BY <1>1, <2>2, <2>3 DEF Registered
<1>2. CASE Unregistered(p)
  <2>1. Ending(Main(p))
    BY <1>2 DEF Ending
  <2> QED
    BY <1>2, <2>1 DEF Unregistered
<1>3. CASE HeartbeatDone(p)
  <2>1. Ending(Watch(p))
    BY <1>3 DEF Ending
  <2> QED
    BY <1>3, <2>1 DEF HeartbeatDone
<1> QED
  BY <1>1, <1>2, <1>3

\* The end of a read-modify-write keeps the invariant.
LEMMA EndingIInv ==
    ASSUME IInv, NEW p \in Processes,
           Registered(p) \/ Unregistered(p) \/ HeartbeatDone(p)
    PROVE  IInv'
<1>1. PICK a \in {Main(p), Watch(p)} :
              /\ Ending(a)
              /\ pc' \in [Actors -> MainStages \cup WatchStages]
              /\ \A q \in Processes \ {p} :
                    pc'[Main(q)] = pc[Main(q)] /\ pc'[Watch(q)] = pc[Watch(q)]
              /\ \/ /\ a = Main(p) /\ pc[a] = "registering" /\ Succeed(a)
                    /\ pc'[Main(p)] = "serving" /\ pc'[Watch(p)] = "boot"
                 \/ /\ a = Main(p) /\ pc[a] = "registering" /\ Fail(a)
                    /\ pc'[Main(p)] = "down" /\ pc'[Watch(p)] = pc[Watch(p)]
                 \/ /\ a = Main(p) /\ pc[a] = "unregistering" /\ Succeed(a)
                    /\ pc'[Main(p)] = "left" /\ pc'[Watch(p)] = pc[Watch(p)]
                 \/ /\ a = Main(p) /\ pc[a] = "unregistering" /\ Fail(a)
                    /\ pc'[Main(p)] = "stopping" /\ pc'[Watch(p)] = pc[Watch(p)]
                 \/ /\ a = Watch(p) /\ pc[a] = "beating"
                    /\ pc'[Main(p)] = pc[Main(p)] /\ pc'[Watch(p)] = "loop"
  BY EndingStages
<1>2. a \in Actors /\ Self(a) = p
  OBVIOUS
<1>3. /\ lock = a /\ lock' = Nil
      /\ UNCHANGED edited
      /\ DOMAIN snap' = Actors /\ snap' = [b \in Actors |-> snap'[b]]
      /\ Succeed(a) \/ Fail(a)
  BY <1>1, <1>2, EndingFacts
<1>4. \A b \in Actors : b # a => pc[b] \notin Critical
  BY <1>3 DEF IInv, LockHeld
<1>5. Fail(a) => file' = file
  BY DEF Fail
<1>6. Types'
  <2>1. ~edited' => file' \in Lists \cup {Absent}
    BY <1>2, <1>3, <1>5, FileAfter DEF IInv, Types
  <2> QED
    BY <1>1, <1>3, <2>1 DEF IInv, Types, MainStages, WatchStages
<1>7. LockHeld'
  <2>1. \A b \in Actors : b = Main(Self(b)) \/ b = Watch(Self(b))
    OBVIOUS
  <2>2. ASSUME NEW b \in Actors, Self(b) # p PROVE pc'[b] \notin Critical
    <3>1. pc'[b] = pc[b] /\ b # a
      BY <1>1, <1>2, <2>1, <2>2
    <3> QED
      BY <1>4, <3>1
  <2>3. pc'[Main(p)] \notin Critical
    BY <1>1, <1>4 DEF Critical
  <2>4. pc'[Watch(p)] \notin Critical
    BY <1>1, <1>4 DEF Critical
  <2> QED
    BY <1>3, <2>1, <2>2, <2>3, <2>4 DEF LockHeld
<1>8. SnapIsFile'
  BY <1>3 DEF SnapIsFile
<1>9. WatchWhileServing'
  BY <1>1 DEF IInv, WatchWhileServing
<1>10. RegisteredIsListed'
  <2> SUFFICES ASSUME ~edited, NEW q \in Processes,
                      pc'[Main(q)] \in {"serving", "closing", "unregister"}
               PROVE  Readable' /\ q \in Listed(file')
    BY <1>3 DEF RegisteredIsListed, Readable
  <2>1. CASE Succeed(a) /\ a = Main(p) /\ pc[a] = "registering" /\ q = p
    BY <1>2, <1>3, <2>1, ListAfter
  <2>2. CASE pc'[Main(q)] = pc[Main(q)]
    <3>1. Readable /\ q \in Listed(file)
      BY <2>2 DEF IInv, RegisteredIsListed
    <3>2. pc[a] = "unregistering" => q # Self(a)
      BY <1>1, <1>2, <2>2 DEF IInv, Types, WatchStages
    <3>3. CASE Succeed(a)
      BY <1>2, <1>3, <3>1, <3>2, <3>3, ListAfter
    <3>4. CASE Fail(a)
      BY <1>5, <3>1, <3>4 DEF Readable
    <3> QED
      BY <1>3, <3>3, <3>4
  <2> QED
    BY <1>1, <2>1, <2>2
<1>11. LeftIsGone'
  <2> SUFFICES ASSUME ~edited, NEW q \in Processes, pc'[Main(q)] = "left", Readable'
               PROVE  q \notin Listed(file')
    BY <1>3 DEF LeftIsGone, Readable
  <2>1. CASE Succeed(a) /\ a = Main(p) /\ pc[a] = "unregistering" /\ q = p
    BY <1>2, <1>3, <2>1, ListAfter
  <2>2. CASE pc'[Main(q)] = pc[Main(q)]
    <3>1. Readable => q \notin Listed(file)
      BY <2>2 DEF IInv, LeftIsGone
    <3>2. q # Self(a)
      BY <1>1, <1>2, <2>2 DEF IInv, WatchWhileServing
    <3>3. CASE Succeed(a)
      BY <1>2, <1>3, <3>1, <3>2, <3>3, ListAfter
    <3>4. CASE Fail(a)
      BY <1>5, <3>1, <3>4 DEF Readable
    <3> QED
      BY <1>3, <3>3, <3>4
  <2> QED
    BY <1>1, <2>1, <2>2
<1> QED
  BY <1>6, <1>7, <1>8, <1>9, <1>10, <1>11 DEF IInv

\* A step that changes nothing.
LEMMA StutterIInv == IInv /\ UNCHANGED vars => IInv'
<1> SUFFICES ASSUME IInv, UNCHANGED vars
             PROVE  IInv'
  OBVIOUS
<1> USE DEF IInv, vars
<1>1. Types'
  BY DEF Types
<1>2. LockHeld' /\ SnapIsFile' /\ WatchWhileServing'
  BY DEF LockHeld, SnapIsFile, WatchWhileServing
<1>3. RegisteredIsListed' /\ LeftIsGone'
  BY DEF RegisteredIsListed, LeftIsGone, Readable
<1> QED
  BY <1>1, <1>2, <1>3

-----------------------------------------------------------------------------
(* The theorems *)

\* In every behaviour the lock covers each read-modify-write, what its holder
\* has read is what the file holds, and a node's heartbeat has ended before the
\* node leaves the list (filediscovery.go:76-92, 218-233).
THEOREM DiscoveryInvariant == Spec => []IInv
<1>1. Init => IInv
  BY InitIInv
<1>2. IInv /\ [Next]_vars => IInv'
  BY QuietIInv, BeginIInv, EndIInv, EndingIInv, EditIInv, StutterIInv DEF Next
<1> QED
  BY <1>1, <1>2, PTL DEF Spec

\* Unless the file is edited by hand, a node that has registered is listed
\* until it leaves (filediscovery.go:76-80).
THEOREM RegisteredStayListed == Spec => []RegisteredIsListed
<1>1. IInv => RegisteredIsListed
  BY DEF IInv
<1> QED
  BY <1>1, DiscoveryInvariant, PTL

\* Unless the file is edited by hand, nobody writes a node back into the list
\* once it has left (filediscovery.go:226, cmd/main.go:468).
THEOREM LeaversStayGone == Spec => []LeftIsGone
<1>1. IInv => LeftIsGone
  BY DEF IInv
<1> QED
  BY <1>1, DiscoveryInvariant, PTL

-----------------------------------------------------------------------------
(* The lock of platforms without file locks: ExclLock.tla.  *)

HIDE DEF Actors, Main, Watch, Self
USE TokensAssumption, TimesAssumption
USE DEF TokensAreDistinct, StaleBeforeTimeout, Holding, Waiting, Turn, Stale, Undisturbed,
        locals

\* Without a lock file the invariant holds.
LEMMA LockStarts == LockInit => LockIInv
BY DEF LockInit, LockIInv, LockTypes, FileIsHolders, WaitsAgree

\* Trying to create the lock file, and writing the token into it.
LEMMA LockIsTried ==
    ASSUME LockIInv, NEW p \in Lockers,
           Acquire(p) \/ Create(p) \/ Exists(p) \/ Refused(p) \/ Write(p) \/ WriteFails(p)
    PROVE  LockIInv'
<1> USE DEF LockIInv, Forget, Stir
<1>1. ASSUME Acquire(p) PROVE LockIInv'
  <2>1. LockTypes'
    BY <1>1 DEF Acquire, LockTypes
  <2>2. FileIsHolders'
    BY <1>1 DEF Acquire, LockTypes, FileIsHolders
  <2>3. WaitsAgree'
    BY <1>1 DEF Acquire, LockTypes, WaitsAgree
  <2> QED
    BY <2>1, <2>2, <2>3
<1>2. ASSUME Create(p) PROVE LockIInv'
  <2>1. LockTypes'
    BY <1>2 DEF Create, MayCreate, LockTypes
  <2>2. FileIsHolders'
    BY <1>2 DEF Create, MayCreate, LockTypes, FileIsHolders
  <2>3. WaitsAgree'
    BY <1>2 DEF Create, MayCreate, LockTypes, WaitsAgree
  <2> QED
    BY <2>1, <2>2, <2>3
<1>3. ASSUME Exists(p) PROVE LockIInv'
  <2>1. LockTypes'
    BY <1>3 DEF Exists, LockTypes
  <2>2. FileIsHolders'
    BY <1>3 DEF Exists, LockTypes, FileIsHolders
  <2>3. WaitsAgree'
    BY <1>3 DEF Exists, LockTypes, WaitsAgree
  <2> QED
    BY <2>1, <2>2, <2>3
<1>4. ASSUME Refused(p) PROVE LockIInv'
  <2>1. LockTypes'
    BY <1>4 DEF Refused, LockTypes
  <2>2. FileIsHolders'
    BY <1>4 DEF Refused, LockTypes, FileIsHolders
  <2>3. WaitsAgree'
    BY <1>4 DEF Refused, LockTypes, WaitsAgree
  <2> QED
    BY <2>1, <2>2, <2>3
<1>5. ASSUME Write(p) \/ WriteFails(p) PROVE LockIInv'
  <2>1. LockTypes'
    BY <1>5 DEF Write, WriteFails, TokenWritten, LockTypes
  <2>2. FileIsHolders'
    BY <1>5 DEF Write, WriteFails, LockTypes, FileIsHolders
  <2>3. WaitsAgree'
    <3>1. /\ stage[p] = "write" /\ stage'[p] \in {"in", "abort"}
          /\ \A q \in Lockers : q # p => stage'[q] = stage[q]
          /\ UNCHANGED <<lockFile, waited, seen, looked>>
      BY <1>5 DEF Write, WriteFails, LockTypes
    <3>2. CASE UNCHANGED <<age, disturbed>>
      BY <3>1, <3>2 DEF LockTypes, WaitsAgree
    <3>3. CASE Stir(p)
      <4>1. \A q \in Lockers : /\ q # p /\ stage[q] \in Waiting => disturbed'[q]
                               /\ disturbed[q] => disturbed'[q]
        BY <3>3 DEF LockTypes
      <4> QED
        BY <3>1, <4>1 DEF LockTypes, WaitsAgree
    <3> QED
      BY <1>5, <3>2, <3>3 DEF Write, WriteFails, TokenWritten
  <2> QED
    BY <2>1, <2>2, <2>3
<1> QED
  BY <1>1, <1>2, <1>3, <1>4, <1>5

\* Looking at an existing lock file: an undisturbed wait that goes on after that knows that
\* the file was there and fresh, and so that it began at most the stale age before the look.
LEMMA LockIsLookedAt ==
    ASSUME LockIInv, NEW p \in Lockers,
           Look(p) \/ LookFails(p) \/ FindStale(p) \/ FindFresh(p)
    PROVE  LockIInv'
<1> USE DEF LockIInv
<1>1. ASSUME Look(p) PROVE LockIInv'
  <2>1. LockTypes' /\ FileIsHolders'
    BY <1>1 DEF Look, LockTypes, FileIsHolders
  <2>2. WaitsAgree'
    BY <1>1 DEF Look, LockTypes, WaitsAgree
  <2> QED
    BY <2>1, <2>2
<1>2. ASSUME LookFails(p) PROVE LockIInv'
  <2>1. LockTypes'
    BY <1>2 DEF LookFails, LockTypes
  <2>2. FileIsHolders'
    BY <1>2 DEF LookFails, LockTypes, FileIsHolders
  <2>3. WaitsAgree'
    BY <1>2 DEF LookFails, LockTypes, WaitsAgree
  <2> QED
    BY <2>1, <2>2, <2>3
<1>3. ASSUME FindStale(p) PROVE LockIInv'
  <2>1. LockTypes'
    BY <1>3 DEF FindStale, LockTypes
  <2>2. FileIsHolders'
    BY <1>3 DEF FindStale, LockTypes, FileIsHolders
  <2>3. WaitsAgree'
    BY <1>3 DEF FindStale, LockTypes, WaitsAgree
  <2> QED
    BY <2>1, <2>2, <2>3
<1>4. ASSUME FindFresh(p) PROVE LockIInv'
  <2>1. LockTypes' /\ FileIsHolders'
    BY <1>4 DEF FindFresh, LockTypes, FileIsHolders
  <2>2. WaitsAgree'
    BY <1>4 DEF FindFresh, LockTypes, WaitsAgree
  <2> QED
    BY <2>1, <2>2
<1> QED
  BY <1>1, <1>2, <1>3, <1>4

\* Looking at the clock: what the wait and the look differ by is the rest of the stale age.
LEMMA LockIsWaitedFor ==
    ASSUME LockIInv, NEW p \in Lockers, GiveUp(p) \/ Poll(p) \/ TimedOut(p)
    PROVE  LockIInv'
<1> USE DEF LockIInv, Forget
<1>1. ASSUME GiveUp(p) PROVE LockIInv'
  <2>1. LockTypes'
    BY <1>1 DEF GiveUp, Late, LockTypes
  <2>2. FileIsHolders'
    BY <1>1 DEF GiveUp, Late, LockTypes, FileIsHolders
  <2>3. WaitsAgree'
    BY <1>1 DEF GiveUp, Late, LockTypes, WaitsAgree
  <2> QED
    BY <2>1, <2>2, <2>3
<1>2. ASSUME Poll(p) PROVE LockIInv'
  <2>1. LockTypes'
    BY <1>2 DEF Poll, LockTypes
  <2>2. FileIsHolders'
    BY <1>2 DEF Poll, LockTypes, FileIsHolders
  <2>3. WaitsAgree'
    BY <1>2 DEF Poll, LockTypes, WaitsAgree
  <2> QED
    BY <2>1, <2>2, <2>3
<1>3. ASSUME TimedOut(p) PROVE LockIInv'
  <2>1. LockTypes'
    BY <1>3 DEF TimedOut, LockTypes
  <2>2. FileIsHolders'
    BY <1>3 DEF TimedOut, LockTypes, FileIsHolders
  <2>3. WaitsAgree'
    BY <1>3 DEF TimedOut, LockTypes, WaitsAgree
  <2> QED
    BY <2>1, <2>2, <2>3
<1> QED
  BY <1>1, <1>2, <1>3

\* Whatever removes the file, either it is one's own or a stale lock is being dealt with.
LEMMA LockIsRemoved ==
    ASSUME LockIInv, NEW p \in Lockers,
           NEW from \in {"reclaim", "abort", "remove"}, NEW to \in {"try", "out"},
           to = "try" <=> from = "reclaim",
           Remove(p, from, to)
    PROVE  LockIInv'
<1>1. LockTypes'
  BY DEF LockIInv, Remove, Stir, LockTypes
<1>2. FileIsHolders'
  BY DEF LockIInv, Remove, Settle, LockTypes, FileIsHolders
<1>3. WaitsAgree'
  <2>1. UNCHANGED <<waited, seen, looked>> /\ lockFile' = NoLockFile
    BY DEF Remove
  <2>2. \A q \in Lockers : /\ q # p => stage'[q] = stage[q]
                           /\ disturbed[q] => disturbed'[q]
                           /\ q # p /\ stage[q] = "stat" /\ ~disturbed[q] => disturbed'[q]
    BY DEF LockIInv, Remove, Stir, LockTypes, WaitsAgree
  <2>3. stage'[p] = to
    BY DEF LockIInv, Remove, LockTypes
  <2> QED
    BY <2>1, <2>2, <2>3 DEF LockIInv, LockTypes, Remove, WaitsAgree
<1> QED
  BY <1>1, <1>2, <1>3 DEF LockIInv

\* A file that cannot be removed grows older where it is.
LEMMA LockStays ==
    ASSUME LockIInv, NEW p \in Lockers,
           NEW from \in {"reclaim", "abort", "in", "remove"}, NEW to \in {"try", "out"},
           to = "try" <=> from = "reclaim",
           Leave(p, from, to)
    PROVE  LockIInv'
<1> USE DEF LockIInv
<1>1. LockTypes'
  BY DEF Leave, LockTypes
<1>2. FileIsHolders'
  BY DEF Leave, Settle, LockTypes, FileIsHolders
<1>3. WaitsAgree'
  BY DEF Leave, LockTypes, WaitsAgree
<1> QED
  BY <1>1, <1>2, <1>3

\* Reading the token before the release, and crashes.
LEMMA LockIsLeft ==
    ASSUME LockIInv, NEW p \in Lockers, ReadToken(p) \/ Crash(p)
    PROVE  LockIInv'
<1> USE DEF LockIInv, Settle, Forget
<1>1. ASSUME ReadToken(p) PROVE LockIInv'
  <2>1. LockTypes'
    BY <1>1 DEF ReadToken, Owns, LockTypes
  <2>2. FileIsHolders'
    BY <1>1 DEF ReadToken, Owns, LockTypes, FileIsHolders
  <2>3. WaitsAgree'
    BY <1>1 DEF ReadToken, Owns, LockTypes, WaitsAgree
  <2> QED
    BY <2>1, <2>2, <2>3
<1>2. ASSUME Crash(p) PROVE LockIInv'
  <2>1. LockTypes'
    BY <1>2 DEF Crash, LockTypes
  <2>2. FileIsHolders'
    BY <1>2 DEF Crash, LockTypes, FileIsHolders
  <2>3. WaitsAgree'
    BY <1>2 DEF Crash, LockTypes, WaitsAgree
  <2> QED
    BY <2>1, <2>2, <2>3
<1> QED
  BY <1>1, <1>2

\* The file and those who wait for it grow older together.
LEMMA LockAges ==
    ASSUME LockIInv, Tick
    PROVE  LockIInv'
<1> USE DEF LockIInv, Older
<1>1. LockTypes' /\ FileIsHolders'
  BY DEF Tick, LockTypes, FileIsHolders
<1>2. WaitsAgree'
  BY DEF Tick, LockTypes, WaitsAgree
<1> QED
  BY <1>1, <1>2

\* The inductive invariant of the lock.
THEOREM LockInvariant == LockSpec => []LockIInv
<1>1. LockIInv /\ [LockNext]_lockVars => LockIInv'
  <2> SUFFICES ASSUME LockIInv, [LockNext]_lockVars PROVE LockIInv'
    OBVIOUS
  <2>1. CASE UNCHANGED lockVars
    BY <2>1 DEF lockVars, locals, LockIInv, LockTypes, FileIsHolders, WaitsAgree
  <2>2. ASSUME NEW p \in Lockers, RemoveStale(p) \/ Abort(p) \/ RemoveOwn(p) PROVE LockIInv'
    BY <2>2, LockIsRemoved DEF RemoveStale, Abort, RemoveOwn
  <2>3. ASSUME NEW p \in Lockers, Leaves(p) PROVE LockIInv'
    BY <2>3, LockStays DEF Leaves, StaleStays, AbortFails, ReleaseFails
  <2> QED
    BY <2>1, <2>2, <2>3, LockIsTried, LockIsLookedAt, LockIsWaitedFor, LockIsLeft, LockAges
       DEF LockNext, Step
<1> QED
  BY <1>1, LockStarts, PTL DEF LockSpec

\* Unless a stale lock is being dealt with, O_EXCL excludes (filediscovery_lock_excl.go:25-51).
THEOREM LockExcludes == LockSpec => []MutualExclusion
<1>1. LockIInv => MutualExclusion
  BY DEF LockIInv, FileIsHolders, MutualExclusion
<1> QED
  BY <1>1, LockInvariant, PTL

\* The remnant of a crash makes nobody time out who looks at the clock soon after the file,
\* because it becomes stale before the deadline (filediscovery_lock_excl.go:13-18, 43-50).
THEOREM RemnantsAreReclaimed == LockSpec => []TimeoutHasCause
<1>1. LockIInv => TimeoutHasCause
  BY DEF LockIInv, WaitsAgree, TimeoutHasCause
<1> QED
  BY <1>1, LockInvariant, PTL
=============================================================================
