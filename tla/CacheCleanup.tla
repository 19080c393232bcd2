---------------------------- MODULE CacheCleanup ----------------------------
(***************************************************************************)
(* The life cycle of the background cleanup goroutine of a cache           *)
(* (cache.go:123-214): StartCleanup, the loop, and StopCleanup, called by  *)
(* any number of goroutines at once.  What a batch removes is the subject  *)
(* of Cache.tla; here a batch only takes time and may be the last of its   *)
(* round or not.                                                           *)
(***************************************************************************)
CONSTANTS
    Procs,  \* goroutines that call StartCleanup and StopCleanup
    Loops,  \* identifies a loop goroutine with its stop and done channels
    Nil     \* the nil channel

ASSUME NilAssumption == Nil \notin Loops

VARIABLES
    cleanupStop,    \* the field: the loop that listens to the channel, or Nil
    cleanupClosed,  \* the field: StopCleanup has been called
    loop,           \* loop[l]: where the goroutine is; done is closed when it has exited
    stop,           \* stop[l]: its stop channel is closed
    pc,             \* pc[p]: where p is in StartCleanup or StopCleanup
    holds,          \* holds[p]: the loop p is starting or stopping
    waited          \* history: some StopCleanup that waited for a loop has returned

vars == <<cleanupStop, cleanupClosed, loop, stop, pc, holds, waited>>

TypeOK ==
    /\ cleanupStop \in Loops \cup {Nil}
    /\ cleanupClosed \in BOOLEAN
    /\ loop \in [Loops -> {"none", "made", "select", "batch", "check", "exited"}]
    /\ stop \in [Loops -> BOOLEAN]
    /\ pc \in [Procs -> {"idle", "spawn", "close", "wait"}]
    /\ holds \in [Procs -> Loops \cup {Nil}]
    /\ \A p \in Procs : holds[p] = Nil <=> pc[p] = "idle"
    /\ waited \in BOOLEAN

Init ==
    /\ cleanupStop = Nil
    /\ cleanupClosed = FALSE
    /\ loop = [l \in Loops |-> "none"]
    /\ stop = [l \in Loops |-> FALSE]
    /\ pc = [p \in Procs |-> "idle"]
    /\ holds = [p \in Procs |-> Nil]
    /\ waited = FALSE

-----------------------------------------------------------------------------
(* StartCleanup *)

\* Mutants: a running loop is not noticed; an earlier StopCleanup is forgotten.
MayStartUnlessClosed == ~cleanupClosed
MayStartUnlessRunning == cleanupStop = Nil

MayStart == cleanupStop = Nil /\ ~cleanupClosed

Unused == {l \in Loops : loop[l] = "none"}

\* The channels are made under cleanupMu; the loop starts after it is released.
StartCleanup(p) ==
    /\ pc[p] = "idle"
    /\ MayStart
    /\ Unused # {}
    /\ LET l == CHOOSE l \in Unused : TRUE
       IN  /\ cleanupStop' = l
           /\ loop' = [loop EXCEPT ![l] = "made"]
           /\ holds' = [holds EXCEPT ![p] = l]
    /\ pc' = [pc EXCEPT ![p] = "spawn"]
    /\ UNCHANGED <<cleanupClosed, stop, waited>>

Spawn(p) ==
    /\ pc[p] = "spawn"
    /\ loop' = [loop EXCEPT ![holds[p]] = "select"]
    /\ pc' = [pc EXCEPT ![p] = "idle"]
    /\ holds' = [holds EXCEPT ![p] = Nil]
    /\ UNCHANGED <<cleanupStop, cleanupClosed, stop, waited>>

-----------------------------------------------------------------------------
(* cleanupLoop *)

LoopGoes(l, from, to) ==
    /\ loop[l] = from
    /\ loop' = [loop EXCEPT ![l] = to]
    /\ UNCHANGED <<cleanupStop, cleanupClosed, stop, pc, holds, waited>>

\* A tick may be pending whether or not stop is closed: select takes either.
TakeTick(l) == LoopGoes(l, "select", "batch")
TakeStop(l) == stop[l] /\ LoopGoes(l, "select", "exited")

\* One batch under c.mu: the round is finished, or there is more to scan.
LastBatch(l) == LoopGoes(l, "batch", "select")
Batch(l) == LoopGoes(l, "batch", "check")

\* Between two batches of a round.
Continue(l) == ~stop[l] /\ LoopGoes(l, "check", "batch")
BreakOff(l) == stop[l] /\ LoopGoes(l, "check", "select")

Loop(l) ==
    \/ TakeTick(l)
    \/ TakeStop(l)
    \/ LastBatch(l)
    \/ Batch(l)
    \/ Continue(l)
    \/ BreakOff(l)

-----------------------------------------------------------------------------
(* StopCleanup *)

\* Under cleanupMu the caller takes the channel; if it is gone, the call returns.
StopCleanup(p) ==
    /\ pc[p] = "idle"
    /\ cleanupClosed' = TRUE
    /\ cleanupStop' = Nil
    /\ holds' = [holds EXCEPT ![p] = cleanupStop]
    /\ pc' = [pc EXCEPT ![p] = IF cleanupStop = Nil THEN "idle" ELSE "close"]
    /\ UNCHANGED <<loop, stop, waited>>

CloseStop(p) ==
    /\ pc[p] = "close"
    /\ stop' = [stop EXCEPT ![holds[p]] = TRUE]
    /\ pc' = [pc EXCEPT ![p] = "wait"]
    /\ UNCHANGED <<cleanupStop, cleanupClosed, loop, holds, waited>>

\* done is closed by the loop as its last act.
AwaitDone(p) ==
    /\ pc[p] = "wait"
    /\ loop[holds[p]] = "exited"
    /\ pc' = [pc EXCEPT ![p] = "idle"]
    /\ holds' = [holds EXCEPT ![p] = Nil]
    /\ waited' = TRUE
    /\ UNCHANGED <<cleanupStop, cleanupClosed, loop, stop>>

Next ==
    \/ \E p \in Procs :
          \/ StartCleanup(p)
          \/ Spawn(p)
          \/ StopCleanup(p)
          \/ CloseStop(p)
          \/ AwaitDone(p)
    \/ \E l \in Loops : Loop(l)

Spec == Init /\ [][Next]_vars

-----------------------------------------------------------------------------
(* Properties *)

Running(l) == loop[l] \in {"select", "batch", "check"}

\* However StartCleanup and StopCleanup race, there is one loop at most.
AtMostOneLoop == \A k, l \in Loops : Running(k) /\ Running(l) => k = l

\* Once a StopCleanup that waited has returned, no loop runs, now or later: not
\* even one whose StartCleanup was about to spawn it.
StoppedForGood ==
    waited => /\ \A l \in Loops : ~Running(l)
              /\ \A p \in Procs : pc[p] # "spawn"

\* Does not hold, although cache.go:199 says that StopCleanup waits for the exit
\* of the loop and may be called again: a call that finds cleanupStop already
\* taken by another returns at once, while the loop may still run.
StopMeansStopped ==
    \A p \in Procs : pc[p] = "idle" /\ cleanupClosed => \A l \in Loops : ~Running(l)

\* Does not hold, although cache.go:180 says that after StopCleanup at most the
\* batch in progress is finished: when a tick is pending as well, select may
\* take it and scan another batch.
NoBatchAfterStop ==
    [][\A l \in Loops : stop[l] /\ loop[l] # "batch" => loop'[l] # "batch"]_vars
=============================================================================
