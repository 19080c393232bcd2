\* Two callers of two keys, whose loads share the peer's breaker; the peer may panic.
CONSTANTS
    c1 = c1
    c2 = c2
    Callers <- MCCallers
    Keys = {k1, k2}
    TTLs = {0, 60}
    Nil = Nil
    PeerPanics = TRUE
SYMMETRY MCSymmetry
SPECIFICATION Spec
INVARIANTS NoAbandonedTicket PeerTroubleIsHidden TTLChangeTakesHold
