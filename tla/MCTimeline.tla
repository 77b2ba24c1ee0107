----------------------------- MODULE MCTimeline -----------------------------
(* Small instances of Timeline for TLC. *)
EXTENDS Timeline, TLC
CONSTANTS o1, o2, q1, q2, u1, u2, p1, r
\* Two polls with one option each.
MCPollOf == o1 :> q1 @@ o2 :> q2
\* One user has reposted the post; another likes the repost.
MCAuthorOf == r :> u1
MCOriginalOf == r :> p1
MCFans == {<<r, u2>>}
Symmetry == Permutations(Tx \ Old)
=============================================================================
