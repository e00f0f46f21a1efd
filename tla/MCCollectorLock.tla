--------------------------- MODULE MCCollectorLock ---------------------------
(* CollectorLock on small instances: see the cfg files that name this module. *)
EXTENDS CollectorLock, TLC

Symmetry == Permutations(Collectors) \cup Permutations(Pids)
=============================================================================
