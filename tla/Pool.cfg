\* One peer besides the node itself, a TLS configuration and two tokens; one request and
\* two goroutines that configure and stop the pool.
CONSTANTS
    Self = self
    Peers = {a}
    Plain = plain
    TLSConfigs = {t}
    Tokens = {u, v}
    Ids = {1, 2, 3, 4}
    Admins = {x, y}
    Requests = {r}
    Nil = Nil
SPECIFICATION FairSpec
INVARIANTS ConnectionsAccounted GettersCurrent BreaksForCause
PROPERTIES ReleasedAfterStop
