---------------------------- MODULE MCProcessView ---------------------------
(* Two processes, windows too small for both and large enough.              *)
EXTENDS ProcessView, TLC
Symmetry == Permutations(Pids)
=============================================================================
