--------------------------- MODULE MCGlobalStatus ---------------------------
(* Instances of GlobalStatus for TLC. *)
EXTENDS GlobalStatus, TLC

Symmetry == Permutations(Peers \ {Self}) \cup Permutations(Cids)
=============================================================================
