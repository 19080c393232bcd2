---------------------------- MODULE BreakerGate ----------------------------
(***************************************************************************)
(* What a circuit breaker promises its callers: requests flow freely while *)
(* it is closed; while it is not, at most one request is let through; and  *)
(* each change of mode voids every request that was let through before it. *)
(* There is no clock, no threshold and no generation counter here.         *)
(***************************************************************************)
EXTENDS Naturals

CONSTANT Callers

VARIABLES
    mode,   \* "Closed", "Open" or "HalfOpen"
    live    \* the requests let through whose result still counts

vars == <<mode, live>>

TypeOK == mode \in {"Closed", "Open", "HalfOpen"} /\ live \subseteq Callers

Init == mode = "Closed" /\ live = {}

Admit(c) ==
    /\ mode = "Closed"
    /\ live' = live \cup {c}
    /\ UNCHANGED mode

Probe(c) ==
    /\ mode # "Closed"
    /\ live = {}
    /\ mode' = "HalfOpen"
    /\ live' = {c}

\* A result that leaves the mode alone.
Settle(c) ==
    /\ live' = live \ {c}
    /\ UNCHANGED mode

\* A result that counts closes the gate or opens it, and voids all others.
Close(c) ==
    /\ c \in live
    /\ mode = "HalfOpen"
    /\ mode' = "Closed"
    /\ live' = {}

Trip(c) ==
    /\ c \in live
    /\ mode' = "Open"
    /\ live' = {}

Next == \E c \in Callers : Admit(c) \/ Probe(c) \/ Settle(c) \/ Close(c) \/ Trip(c)

Spec == Init /\ [][Next]_vars
=============================================================================
