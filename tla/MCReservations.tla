--------------------------- MODULE MCReservations ---------------------------
(* A small instance of Reservations for TLC. *)
EXTENDS Reservations, TLC
Symmetry == Permutations(Request)
=============================================================================
