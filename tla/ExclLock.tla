------------------------------- MODULE ExclLock -------------------------------
(***************************************************************************)
(* The lock of platforms without flock and LockFileEx                      *)
(* (filediscovery_lock_excl.go): whoever creates the lock file with O_EXCL *)
(* holds the lock, a file that is too old is taken for the remnant of a    *)
(* crash and removed, and release removes the file that holds one's own    *)
(* token.  A token is new for every acquisition, so the name of the        *)
(* process that is acquiring or holding stands for it.  Time passes        *)
(* between any two steps, also within one turn of the loop, and every      *)
(* operation on the file may fail.                                         *)
(***************************************************************************)
EXTENDS Naturals

CONSTANTS
    Lockers,
    NoLockFile,                \* no lock file
    Dead,               \* a token that no process has any more
    StaleLockAge,
    LockWaitTimeout,
    MaxCrashes          \* bound on crashes

TokensAreDistinct == {NoLockFile, Dead} \cap Lockers = {} /\ NoLockFile # Dead
StaleBeforeTimeout ==
    /\ StaleLockAge \in Nat /\ LockWaitTimeout \in Nat
    /\ StaleLockAge < LockWaitTimeout

ASSUME TokensAssumption == TokensAreDistinct
ASSUME TimesAssumption == StaleBeforeTimeout
ASSUME MaxCrashesAssumption == MaxCrashes \in Nat

VARIABLES
    lockFile,       \* whose lock file there is, or Nil
    age,        \* time since it was last written, up to StaleLockAge + 1
    stage,
    waited,     \* waited[p]: time since p called acquireFileLock, up to
                \* LockWaitTimeout + 1
    seen,       \* seen[p]: the age of the lock file that p found with Stat
    looked,     \* looked[p]: time since that Stat, up to LockWaitTimeout + 1
    disturbed,  \* history, disturbed[p]: since p called, another process has
                \* created, written or removed the lock file, or p could not
                \* look at it
    reclaiming, \* history: a lock file was found stale, and since then the
                \* lock has not come to rest
    crashes

locals == <<waited, seen, looked, disturbed>>
lockVars == <<lockFile, age, stage, locals, reclaiming, crashes>>

\* The stages in which a process takes the lock to be its own.
Holding == {"write", "abort", "in", "remove"}
Waiting == {"try", "stat", "judge", "poll", "reclaim"}

LockTypeOK ==
    /\ lockFile \in Lockers \cup {NoLockFile, Dead}
    /\ age \in 0..StaleLockAge + 1
    /\ stage \in [Lockers -> {"out", "timeout"} \cup Waiting \cup Holding]
    /\ waited \in [Lockers -> 0..LockWaitTimeout + 1]
    /\ seen \in [Lockers -> 0..StaleLockAge + 1]
    /\ looked \in [Lockers -> 0..LockWaitTimeout + 1]
    /\ disturbed \in [Lockers -> BOOLEAN]
    /\ reclaiming \in BOOLEAN
    /\ crashes \in 0..MaxCrashes

LockInit ==
    /\ lockFile = NoLockFile
    /\ age = 0
    /\ stage = [p \in Lockers |-> "out"]
    /\ waited = [p \in Lockers |-> 0]
    /\ seen = [p \in Lockers |-> 0]
    /\ looked = [p \in Lockers |-> 0]
    /\ disturbed = [p \in Lockers |-> FALSE]
    /\ reclaiming = FALSE
    /\ crashes = 0

Turn(p, from, to) == stage[p] = from /\ stage' = [stage EXCEPT ![p] = to]

\* p creates, writes or removes the file.
Stir(p) ==
    disturbed' = [q \in Lockers |-> disturbed[q] \/ (q # p /\ stage[q] \in Waiting)]

\* p waits no longer; its variables count for nothing until it waits again.
Forget(p) ==
    /\ waited' = [waited EXCEPT ![p] = 0]
    /\ seen' = [seen EXCEPT ![p] = 0]
    /\ looked' = [looked EXCEPT ![p] = 0]
    /\ disturbed' = [disturbed EXCEPT ![p] = FALSE]

\* The lock is at rest: there is no file, and nobody holds or is about to
\* remove one.
Settle ==
    reclaiming' =
       (/\ reclaiming
        /\ ~(/\ lockFile' = NoLockFile
             /\ \A q \in Lockers : stage'[q] \notin Holding \cup {"reclaim"}))

-----------------------------------------------------------------------------
(* acquireFileLock *)

Acquire(p) ==
    /\ Turn(p, "out", "try")
    /\ UNCHANGED <<lockFile, age, locals, reclaiming, crashes>>

\* Mutant: the file is opened without O_EXCL.
MayCreateAnyway == TRUE

MayCreate == lockFile = NoLockFile

Create(p) ==
    /\ MayCreate
    /\ Turn(p, "try", "write")
    /\ lockFile' = p
    /\ age' = 0
    /\ waited' = [waited EXCEPT ![p] = 0]
    /\ disturbed' = [q \in Lockers |->
                        q # p /\ (disturbed[q] \/ stage[q] \in Waiting)]
    /\ UNCHANGED <<seen, looked, reclaiming, crashes>>

Exists(p) ==
    /\ lockFile # NoLockFile
    /\ Turn(p, "try", "stat")
    /\ UNCHANGED <<lockFile, age, locals, reclaiming, crashes>>

\* An error other than ErrExist.
Refused(p) ==
    /\ Turn(p, "try", "out")
    /\ Forget(p)
    /\ UNCHANGED <<lockFile, age, reclaiming, crashes>>

\* The token is written through the descriptor: if the file has been removed
\* meanwhile, another process's file of the same name does not change.
TokenWritten(p) ==
    /\ age' = IF lockFile = p THEN 0 ELSE age
    /\ IF lockFile = p THEN Stir(p) ELSE UNCHANGED disturbed

Write(p) ==
    /\ Turn(p, "write", "in")
    /\ TokenWritten(p)
    /\ UNCHANGED <<lockFile, waited, seen, looked, reclaiming, crashes>>

\* Nothing is written, or the error comes after that.
WriteFails(p) ==
    /\ Turn(p, "write", "abort")
    /\ TokenWritten(p) \/ UNCHANGED <<age, disturbed>>
    /\ UNCHANGED <<lockFile, waited, seen, looked, reclaiming, crashes>>

\* os.Stat
Look(p) ==
    /\ lockFile # NoLockFile
    /\ Turn(p, "stat", "judge")
    /\ seen' = [seen EXCEPT ![p] = age]
    /\ UNCHANGED <<lockFile, age, waited, looked, disturbed, reclaiming, crashes>>

\* The file has gone, or Stat fails.
LookFails(p) ==
    /\ Turn(p, "stat", "poll")
    /\ disturbed' = [disturbed EXCEPT ![p] = TRUE]
    /\ UNCHANGED <<lockFile, age, waited, seen, looked, reclaiming, crashes>>

\* Mutant: the other of the two times.
StaleTooLate(p) == seen[p] + looked[p] > LockWaitTimeout

\* time.Since(ModTime), which goes on from what Stat has found.
Stale(p) == seen[p] + looked[p] > StaleLockAge

FindStale(p) ==
    /\ Stale(p)
    /\ Turn(p, "judge", "reclaim")
    /\ reclaiming' = TRUE
    /\ seen' = [seen EXCEPT ![p] = 0]
    /\ looked' = [looked EXCEPT ![p] = 0]
    /\ UNCHANGED <<lockFile, age, waited, disturbed, crashes>>

FindFresh(p) ==
    /\ ~Stale(p)
    /\ Turn(p, "judge", "poll")
    /\ seen' = [seen EXCEPT ![p] = 0]
    /\ UNCHANGED <<lockFile, age, waited, looked, disturbed, reclaiming, crashes>>

\* Mutant: without a file, the deadline is not looked at either.
LateIfFile(p) == lockFile # NoLockFile /\ waited[p] > LockWaitTimeout

Late(p) == waited[p] > LockWaitTimeout

GiveUp(p) ==
    /\ Late(p)
    /\ Turn(p, "poll", "timeout")
    /\ UNCHANGED <<lockFile, age, locals, reclaiming, crashes>>

\* Sleep, and try again.
Poll(p) ==
    /\ ~Late(p)
    /\ Turn(p, "poll", "try")
    /\ looked' = [looked EXCEPT ![p] = 0]
    /\ UNCHANGED <<lockFile, age, waited, seen, disturbed, reclaiming, crashes>>

TimedOut(p) ==
    /\ Turn(p, "timeout", "out")
    /\ Forget(p)
    /\ UNCHANGED <<lockFile, age, reclaiming, crashes>>

-----------------------------------------------------------------------------
(* os.Remove, which removes whatever has that name now, and whose errors    *)
(* are dropped                                                              *)

Remove(p, from, to) ==
    /\ Turn(p, from, to)
    /\ lockFile' = NoLockFile
    /\ age' = 0
    /\ IF lockFile # NoLockFile THEN Stir(p) ELSE UNCHANGED disturbed
    /\ Settle
    /\ UNCHANGED <<waited, seen, looked, crashes>>

\* The lock file stays; if it is p's own, nobody holds its token any more.
Leave(p, from, to) ==
    /\ lockFile # NoLockFile
    /\ Turn(p, from, to)
    /\ lockFile' = IF lockFile = p THEN Dead ELSE lockFile
    /\ Settle
    /\ UNCHANGED <<age, locals, crashes>>

RemoveStale(p) == Remove(p, "reclaim", "try")
StaleStays(p) == Leave(p, "reclaim", "try")

Abort(p) == Remove(p, "abort", "out")
AbortFails(p) == Leave(p, "abort", "out")

\* The token in the file is one's own.
Owns(p) == lockFile = p

\* release reads the file, and then removes it.
ReadToken(p) ==
    /\ Turn(p, "in", IF Owns(p) THEN "remove" ELSE "out")
    /\ UNCHANGED <<lockFile, age, locals, crashes>>
    /\ Settle

RemoveOwn(p) == Remove(p, "remove", "out")

\* Reading or removing fails.
ReleaseFails(p) ==
    \/ Owns(p) /\ Leave(p, "in", "out")
    \/ Leave(p, "remove", "out")

-----------------------------------------------------------------------------

Crash(p) ==
    /\ crashes < MaxCrashes
    /\ stage[p] # "out"
    /\ crashes' = crashes + 1
    /\ stage' = [stage EXCEPT ![p] = "out"]
    /\ lockFile' = IF lockFile = p THEN Dead ELSE lockFile
    /\ Forget(p)
    /\ Settle
    /\ UNCHANGED age

Older(t, bound) == IF t > bound THEN t ELSE t + 1

\* A process may be slow at any point.
Tick ==
    /\ age' = IF lockFile = NoLockFile THEN 0 ELSE Older(age, StaleLockAge)
    /\ waited' = [p \in Lockers |-> IF stage[p] \in Waiting
                                     THEN Older(waited[p], LockWaitTimeout) ELSE 0]
    /\ looked' = [p \in Lockers |-> IF stage[p] \in {"judge", "poll"}
                                     THEN Older(looked[p], LockWaitTimeout)
                                     ELSE looked[p]]
    /\ UNCHANGED <<lockFile, stage, seen, disturbed, reclaiming, crashes>>

Step(p) ==
    \/ Create(p) \/ Exists(p) \/ Write(p)
    \/ Look(p) \/ LookFails(p) \/ FindStale(p) \/ FindFresh(p)
    \/ GiveUp(p) \/ Poll(p) \/ TimedOut(p)
    \/ RemoveStale(p) \/ Abort(p) \/ ReadToken(p) \/ RemoveOwn(p)

\* An operation on the file fails, and what it should have removed stays there.
Leaves(p) == StaleStays(p) \/ AbortFails(p) \/ ReleaseFails(p)

LockNext ==
    \/ \E p \in Lockers :
          Acquire(p) \/ Step(p) \/ Refused(p) \/ WriteFails(p) \/ Leaves(p) \/ Crash(p)
    \/ Tick

LockSpec == LockInit /\ [][LockNext]_lockVars

\* Processes run, and time passes.
FairLockSpec == LockSpec /\ WF_lockVars(Tick) /\ \A p \in Lockers : WF_lockVars(Step(p))

-----------------------------------------------------------------------------
(* Properties *)

\* Two processes are in the critical section (filediscovery_lock_excl.go:12) only
\* if somebody has found a lock file stale and the lock has not come to rest
\* since: a reclaimed lock harms nobody who comes after that.
MutualExclusion ==
    ~reclaiming =>
       \A p, q \in Lockers : stage[p] = "in" /\ stage[q] = "in" => p = q

\* The remnant of a crash does not make acquireFileLock fail, as it becomes stale before
\* the deadline: it times out only if other processes took or gave back the lock
\* while it waited, if it could not look at the file, or if it was itself so slow that between
\* Stat and the look at the clock passed more than the two times differ by
\* (filediscovery_lock_excl.go:13-18, 43-50).
TimeoutHasCause ==
    \A p \in Lockers :
       stage[p] = "timeout" =>
          disturbed[p] \/ looked[p] > LockWaitTimeout - StaleLockAge

\* No lock file becomes stale while its holder lives.
HoldersArePrompt ==
    \A p \in Lockers : stage[p] \in Holding /\ lockFile = p => age <= StaleLockAge

\* What a process judges to be stale was stale when it looked.
WaitersArePrompt ==
    \A p \in Lockers : stage[p] = "judge" /\ Stale(p) => seen[p] > StaleLockAge

Prompt == HoldersArePrompt /\ WaitersArePrompt

\* What should be removed stays there only finitely often.
LocksCanBeRemoved == <>[][~\E p \in Lockers : Leaves(p)]_lockVars

\* acquireFileLock returns, whoever crashes and whoever else reclaims the lock, if
\* from some time on nobody is slow and lock files can be removed.  All this is needed: a
\* process that finds the lock stale tries again before it looks at the clock
\* (filediscovery_lock_excl.go:43-47), so that a file that cannot be removed
\* keeps it there for ever, and so do other processes that leave a stale lock, or one that it
\* takes for stale, every time it has removed one.
AcquireReturns ==
    <>[]Prompt /\ LocksCanBeRemoved =>
       \A p \in Lockers : stage[p] = "try" ~> stage[p] \in {"in", "out"}

\* Does not hold, although lockWaitTimeout is the bound on the wait
\* (filediscovery_lock_excl.go:16, 26, 48-49): the error of os.Remove is dropped, and the
\* loop begins anew before the deadline.
AcquireReturnsAnyway ==
    <>[]Prompt =>
       \A p \in Lockers : stage[p] = "try" ~> stage[p] \in {"in", "out"}

\* Does not hold, although filediscovery_lock_excl.go:12-13 takes a lock that is
\* too old for a remnant of a crash and lets the file exclude other processes:
\* of two that find a remnant stale the second removes the first one's new lock.
ExclusiveIfPrompt ==
    []Prompt =>
       [](\A p, q \in Lockers : stage[p] = "in" /\ stage[q] = "in" => p = q)

\* Does not hold, although filediscovery_lock_excl.go:56 says that release removes
\* only a lock that one holds: it may be reclaimed between the two steps.
ReleaseRemovesOwn ==
    [][\A p \in Lockers :
          stage[p] = "remove" /\ stage'[p] = "out" =>
             lockFile \in {p, NoLockFile, Dead}]_lockVars

-----------------------------------------------------------------------------
(* The inductive invariant of the safety properties *)

\* The part of the type invariant that the arguments below need.
LockTypes ==
    /\ lockFile \in Lockers \cup {NoLockFile, Dead}
    /\ age \in Nat
    /\ stage \in [Lockers -> {"out", "timeout"} \cup Waiting \cup Holding]
    /\ waited \in [Lockers -> Nat]
    /\ seen \in [Lockers -> Nat]
    /\ looked \in [Lockers -> Nat]
    /\ DOMAIN disturbed = Lockers /\ disturbed = [p \in Lockers |-> disturbed[p]]

\* Unless a stale lock is being dealt with, the file is that of the only holder.
FileIsHolders ==
    /\ ~reclaiming => \A p \in Lockers : stage[p] \in Holding => lockFile = p
    /\ \A p \in Lockers : stage[p] = "reclaim" => reclaiming

\* If nobody has disturbed a process while it waits, the file it found has been there all the
\* time and is as old as the wait is long, or stale.
Undisturbed(p) ==
    /\ lockFile # NoLockFile => age > StaleLockAge \/ age >= waited[p]
    /\ stage[p] = "stat" => lockFile # NoLockFile
    /\ stage[p] = "judge" => Stale(p) \/ seen[p] + looked[p] >= waited[p]
    /\ stage[p] = "poll" => looked[p] + StaleLockAge >= waited[p]

WaitsAgree ==
    \A p \in Lockers :
       /\ stage[p] \in {"out"} \cup Holding => waited[p] = 0
       /\ stage[p] \notin {"judge", "poll", "timeout"} => looked[p] = 0
       /\ stage[p] \in Waiting /\ ~disturbed[p] => Undisturbed(p)
       /\ stage[p] = "timeout" =>
             disturbed[p] \/ looked[p] > LockWaitTimeout - StaleLockAge

LockIInv == LockTypes /\ FileIsHolders /\ WaitsAgree
=============================================================================
