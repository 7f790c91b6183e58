------------------------------- MODULE MCTours -------------------------------
(* Instances of Tours for TLC.  Both ships and both tours are used alike,  *)
(* so the safety runs may permute them; the liveness run may not.          *)
EXTENDS Tours, TLC

Symmetry == Permutations(Ships) \cup Permutations(Pool)
=============================================================================
