---------------------------- MODULE MCReservation ----------------------------
(* Reservation on a small instance: see MCReservation.cfg.                   *)
EXTENDS Reservation, TLC

Symmetry == Permutations(Sessions) \cup Permutations(Rows) \cup Permutations(Scopes)
=============================================================================
