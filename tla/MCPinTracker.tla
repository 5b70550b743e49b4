---------------------------- MODULE MCPinTracker ----------------------------
(* Instances of PinTracker for TLC. *)
EXTENDS PinTracker, TLC

Symmetry == Permutations(Cids) \cup Permutations(Callers)
=============================================================================
