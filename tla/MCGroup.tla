------------------------------- MODULE MCGroup -------------------------------
(* A group with interchangeable callers. *)
EXTENDS Group, TLC

CONSTANTS c1, c2

MCCallers == {c1, c2}
MCSymmetry == Permutations(MCCallers)
=============================================================================
