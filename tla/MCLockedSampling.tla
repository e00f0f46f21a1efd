-------------------------- MODULE MCLockedSampling --------------------------
(* LockedSampling on a small instance: see MCLockedSampling.cfg.             *)
EXTENDS LockedSampling, TLC

Symmetry ==
  Permutations(Collectors) \cup Permutations(Pids) \cup Permutations(Sessions)
    \cup Permutations(Scopes) \cup Permutations(Rows)
=============================================================================
