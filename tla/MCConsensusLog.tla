--------------------------- MODULE MCConsensusLog ---------------------------
(* Instances of ConsensusLog for TLC.  NextFree chooses among free         *)
(* activations, which are all equal to Free: any other choice leads to the *)
(* same state up to their names, so Acts may be permuted.                  *)
EXTENDS ConsensusLog, TLC

Symmetry == Permutations(Peers) \cup Permutations(Acts) \cup Permutations(Requests)
=============================================================================
