----------------------------- MODULE MCServices -----------------------------
(* A small instance of Services for TLC. *)
EXTENDS Services, TLC
Symmetry == Permutations(Call) \cup Permutations(Unit)
=============================================================================
