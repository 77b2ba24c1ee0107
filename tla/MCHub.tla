------------------------------- MODULE MCHub -------------------------------
(* Small instances of Hub for TLC. *)
EXTENDS Hub, TLC

CONSTANTS k1, k2, u1, u2, b1, b2

\* Two connections of two users, or one connection.
MCUserOf  == k1 :> u1 @@ k2 :> u2
MCOneConn == k1 :> u1

\* The lists of buildings: none or two; none, one or two.
MCTwo   == {<<>>, <<b1, b2>>}
MCLists == {<<>>, <<b1>>, <<b1, b2>>}

\* The two users exchange places together with their connections.
Swap == {k1 :> k1 @@ k2 :> k2 @@ u1 :> u1 @@ u2 :> u2,
         k1 :> k2 @@ k2 :> k1 @@ u1 :> u2 @@ u2 :> u1}
=============================================================================
