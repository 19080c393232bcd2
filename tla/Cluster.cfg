\* Two nodes, one client and two handlers: a circle of forwarded calls.
CONSTANTS
    Nodes = {a, b}
    Clients = {c}
    Handlers = {h, k}
    NoTask = NoTask
    Orphan = orphan
SPECIFICATION FairClusterSpec
INVARIANTS ForwardedOnce ConfigErrorHasCause
PROPERTIES GetReturns
