------------------------------- MODULE People -------------------------------
(***************************************************************************)
(* What the members of a building and its services have in common.         *)
(***************************************************************************)
CONSTANTS
  User, \* people, each with one e-mail address
  None  \* nobody, and no row
=============================================================================
