---------------------------- MODULE MCMessaging ----------------------------
(* Small instances of Messaging for TLC. *)
EXTENDS Messaging, TLC
Symmetry == Permutations(User) \cup Permutations(Conv) \cup Permutations(Request)
=============================================================================
