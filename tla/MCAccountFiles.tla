-------------------------- MODULE MCAccountFiles --------------------------
(* AccountFiles for TLC: its goroutines are alike. *)
EXTENDS AccountFiles, TLC

Symmetry == Permutations(Threads)
=============================================================================
