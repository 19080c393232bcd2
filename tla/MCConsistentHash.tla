-------------------------- MODULE MCConsistentHash --------------------------
(* A ring with interchangeable peers. *)
EXTENDS ConsistentHash, TLC

CONSTANTS a, b, c

MCNodes == {a, b, c}
MCSymmetry == Permutations(MCNodes)
=============================================================================
