----------------------------- MODULE MCExecution -----------------------------
(* Execution on small instances: see the cfg files that name this module.    *)
EXTENDS Execution, TLC

\* Everything that is only compared for equality.
Symmetry == Permutations(Executors) \cup Permutations(Intents) \cup Permutations(Signatures)
=============================================================================
