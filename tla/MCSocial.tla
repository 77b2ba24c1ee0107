------------------------------ MODULE MCSocial ------------------------------
(* Small instances of Social for TLC. *)
EXTENDS Social, TLC
Symmetry == Permutations(User) \cup Permutations(Tx)
=============================================================================
