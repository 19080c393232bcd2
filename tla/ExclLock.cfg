\* Three processes and a crash; the stale age is half the waiting time, as in the code.
CONSTANTS
    Lockers = {a, b}
    NoLockFile = NoLockFile
    Dead = Dead
    StaleLockAge = 1
    LockWaitTimeout = 2
    MaxCrashes = 1
SPECIFICATION FairLockSpec
INVARIANTS MutualExclusion TimeoutHasCause
PROPERTIES AcquireReturns
