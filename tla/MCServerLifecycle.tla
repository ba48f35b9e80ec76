--------------------------- MODULE MCServerLifecycle ---------------------------
(* Small instances of ServerLifecycle for TLC. *)
EXTENDS ServerLifecycle, TLC

\* Nothing tells two goroutines, processes or sockets apart but their history.
Symmetry ==
  Permutations(Ops) \cup Permutations(Procs) \cup Permutations(Listeners)
    \cup Permutations(Conns)
=============================================================================
