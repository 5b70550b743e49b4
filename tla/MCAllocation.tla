---------------------------- MODULE MCAllocation ----------------------------
(* Instances of Allocation for TLC. *)
EXTENDS Allocation, TLC

(* Everywhere, refused, and two copies (one of three peers stays spare). *)
MCFactors == {-1, 0, 2}

Symmetry == Permutations(Peers) \cup Permutations(Users)
=============================================================================
