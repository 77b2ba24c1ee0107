------------------------------ MODULE MCForum -------------------------------
(* A small instance of Forum for TLC. *)
EXTENDS Forum, TLC
Symmetry == Permutations(Request)
=============================================================================
