----------------------------- MODULE MCReconcile -----------------------------
(* Reconcile on a small instance: see MCReconcile.cfg.                       *)
EXTENDS Reconcile, TLC

Symmetry == Permutations(Reconcilers) \cup Permutations(Intents) \cup Permutations(Signatures)
=============================================================================
