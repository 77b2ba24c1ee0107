---------------------------- MODULE MCMembership ----------------------------
(* Small instances of Membership for TLC. *)
EXTENDS Membership, TLC
Symmetry == Permutations(Request) \cup Permutations(User) \cup Permutations(Invitation)
=============================================================================
