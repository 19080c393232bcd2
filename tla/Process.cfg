\* Every choice of servers and transport; another goroutine starts and stops cleaning up.
CONSTANTS
    Procs = {main, p}
    Main = main
    Loops = {1, 2}
    Nil = Nil
SPECIFICATION RunFairSpec
INVARIANTS AtMostOneLoop StoppedForGood ListedIsBound ExitIsOrderly
PROPERTIES ShutdownCompletes
CHECK_DEADLOCK FALSE
