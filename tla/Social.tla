------------------------------- MODULE Social -------------------------------
(***************************************************************************)
(* FollowUser and UnfollowUser of internal/repository/social_repo.go: one  *)
(* transaction each, over user_follows and the two counters in users, at   *)
(* PostgreSQL's READ COMMITTED.                                            *)
(*                                                                         *)
(* As in Timeline, effects are applied at the commit, and what a           *)
(* transaction has locked follows from how far it is.  Here two rows of    *)
(* one table are locked in an order that depends on the request, so        *)
(* transactions can wait for each other in a circle; PostgreSQL then       *)
(* aborts one of them.                                                     *)
(***************************************************************************)
EXTENDS Integers, FiniteSets

CONSTANTS
  User,
  Tx,    \* requests; each runs one transaction
  None

ASSUME SocialAssumption == None \notin User

VARIABLES
  follows,    \* user_follows: pairs of follower and followed, UNIQUE
  following,  \* users.following_count
  followers,  \* users.follower_count
  kind,       \* what each request does
  at,         \* how far its transaction is
  user,       \* the caller
  target,     \* whom he follows or no longer follows
  hit         \* rows inserted, or that its DELETE is after or has got

counters == <<following, followers>>
args     == <<kind, user, target>>
vars     == <<follows, counters, args, at, hit>>

Init ==
  /\ follows = {}
  /\ following = [u \in User |-> 0]
  /\ followers = [u \in User |-> 0]
  /\ kind = [t \in Tx |-> None]
  /\ at = [t \in Tx |-> "idle"]
  /\ user = [t \in Tx |-> None]
  /\ target = [t \in Tx |-> None]
  /\ hit = [t \in Tx |-> 0]

-----------------------------------------------------------------------------
(* Transactions and locks *)

Open(t) == at[t] \notin {"idle", "done", "aborted"}

Pair(t) == <<user[t], target[t]>>

\* Mutant: UnfollowUser updates the other user first.
OrderByKind(t) == IF kind[t] = "follow" THEN <<user[t], target[t]>> ELSE <<target[t], user[t]>>

\* The rows of users in the order they are updated.
LockOrder(t) == <<user[t], target[t]>>

\* Transaction s has inserted or deleted the row of t's pair, or its key.
HoldsRow(s, t) == /\ Pair(s) = Pair(t) /\ hit[s] > 0
                  /\ at[s] \in {"first", "second", "commit"}

\* Transaction s has updated the row of user u.
HoldsUser(s, u) == \/ at[s] \in {"second", "commit"} /\ LockOrder(s)[1] = u
                   \/ at[s] = "commit" /\ LockOrder(s)[2] = u

\* The next statement of t needs what s has locked.
WaitsFor(t, s) ==
  /\ s # t
  /\ \/ (at[t] = "delete" \/ (at[t] = "write" /\ kind[t] = "follow")) /\ HoldsRow(s, t)
     \/ at[t] = "first" /\ HoldsUser(s, LockOrder(t)[1])
     \/ at[t] = "second" /\ HoldsUser(s, LockOrder(t)[2])

Free(t) == \A s \in Tx : ~WaitsFor(t, s)

\* Every transaction of S waits for one of S and is waited for by one of S.
Circle(S) ==
  S # {} /\ \A t \in S : (\E s \in S : WaitsFor(t, s)) /\ (\E s \in S : WaitsFor(s, t))

Goto(t, step) == at' = [at EXCEPT ![t] = step]

Touch(t, rows, step) ==
  /\ hit' = [hit EXCEPT ![t] = rows]
  /\ Goto(t, step)
  /\ UNCHANGED <<follows, counters, args>>

Abort(t) == Touch(t, 0, "aborted")

-----------------------------------------------------------------------------
\* "Cannot follow yourself"; UnfollowUser does not check that.
Begin(t, k, u, v) ==
  /\ at[t] = "idle"
  /\ k = "follow" => u # v
  /\ kind' = [kind EXCEPT ![t] = k]
  /\ user' = [user EXCEPT ![t] = u]
  /\ target' = [target EXCEPT ![t] = v]
  /\ Goto(t, "write")
  /\ UNCHANGED <<follows, counters, hit>>

\* INSERT ... ON CONFLICT DO NOTHING waits for whoever has the key, and goes on
\* with or without a row.
InsertFollow(t) ==
  /\ kind[t] = "follow" /\ at[t] = "write"
  /\ Free(t)
  /\ Touch(t, IF Pair(t) \in follows THEN 0 ELSE 1, "first")

\* "Not following, no-op": the deferred Rollback runs.
NoOp(t) == "done"

\* Mutant: UnfollowUser does not look at the rows affected either.
UnfollowAnyway(t) ==
  /\ kind[t] = "unfollow" /\ at[t] = "write"
  /\ IF Pair(t) \in follows THEN Touch(t, 1, "delete") ELSE Touch(t, 0, "first")

\* DELETE begins: this is what it sees ...
BeginUnfollow(t) ==
  /\ kind[t] = "unfollow" /\ at[t] = "write"
  /\ IF Pair(t) \in follows THEN Touch(t, 1, "delete") ELSE Touch(t, 0, NoOp(t))

\* ... and the row is its own once nobody else has it.
DeleteFollow(t) ==
  /\ at[t] = "delete"
  /\ Free(t)
  /\ Touch(t, hit[t], "first")

\* The two UPDATEs of users, each of which waits for its row.
UpdateFirst(t) ==
  /\ at[t] = "first"
  /\ Free(t)
  /\ Touch(t, hit[t], "second")

UpdateSecond(t) ==
  /\ at[t] = "second"
  /\ Free(t)
  /\ Touch(t, hit[t], "commit")

CommitFollow(t) ==
  /\ kind[t] = "follow" /\ at[t] = "commit"
  /\ follows' = IF hit[t] = 1 THEN follows \cup {Pair(t)} ELSE follows
  /\ following' = [following EXCEPT ![user[t]] = @ + 1]
  /\ followers' = [followers EXCEPT ![target[t]] = @ + 1]
  /\ Goto(t, "done")
  /\ UNCHANGED <<args, hit>>

\* Those who wait to delete the same row.
Losers(t) == {s \in Tx : at[s] = "delete" /\ Pair(s) = Pair(t)}

\* GREATEST(n - 1, 0)
Less(n) == IF n > 1 THEN n - 1 ELSE 0

\* Whoever waits for the deleted row finds it gone.
CommitUnfollow(t) ==
  /\ kind[t] = "unfollow" /\ at[t] = "commit"
  /\ follows' = follows \ {Pair(t)}
  /\ following' = [following EXCEPT ![user[t]] = Less(@)]
  /\ followers' = [followers EXCEPT ![target[t]] = Less(@)]
  /\ at' = [s \in Tx |-> IF s = t THEN "done" ELSE IF s \in Losers(t) THEN NoOp(s) ELSE at[s]]
  /\ hit' = [s \in Tx |-> IF s \in Losers(t) THEN 0 ELSE hit[s]]
  /\ UNCHANGED args

\* PostgreSQL finds a circle and aborts a transaction in it.
DeadlockAbort(t) ==
  /\ \E S \in SUBSET Tx : t \in S /\ Circle(S)
  /\ Abort(t)

\* A statement fails or the connection is lost: the transaction rolls back.
Fail(t) == Open(t) /\ Abort(t)

Step(t) ==
  \/ InsertFollow(t) \/ BeginUnfollow(t) \/ DeleteFollow(t)
  \/ UpdateFirst(t) \/ UpdateSecond(t)
  \/ CommitFollow(t) \/ CommitUnfollow(t)
  \/ DeadlockAbort(t)

Start(t) == \E k \in {"follow", "unfollow"}, u, v \in User : Begin(t, k, u, v)

Next == \E t \in Tx : Start(t) \/ Step(t) \/ Fail(t)

Spec == Init /\ [][Next]_vars

-----------------------------------------------------------------------------
(* Properties *)

\* The variables have the types of the columns and of the Go locals.
TypeOK ==
  /\ follows \subseteq User \X User
  /\ following \in [User -> Nat]
  /\ followers \in [User -> Nat]
  /\ kind \in [Tx -> {"follow", "unfollow", None}]
  /\ at \in [Tx -> {"idle", "write", "delete", "first", "second", "commit", "done", "aborted"}]
  /\ user \in [Tx -> User \cup {None}]
  /\ target \in [Tx -> User \cup {None}]
  /\ hit \in [Tx -> {0, 1}]

\* The follows that found the row there already.
Repeats == {t \in Tx : kind[t] = "follow" /\ at[t] = "done" /\ hit[t] = 0}

FollowsBy(u) == Cardinality({f \in follows : f[1] = u})
FollowsOf(u) == Cardinality({f \in follows : f[2] = u})

\* Whatever overlaps and fails, the counters differ from the rows by exactly the
\* follows that were repeated: FollowUser does not look at the rows affected,
\* UnfollowUser does, and GREATEST never hides anything.
CountsDriftByRepeats ==
  \A u \in User :
    /\ following[u] = FollowsBy(u) + Cardinality({t \in Repeats : user[t] = u})
    /\ followers[u] = FollowsOf(u) + Cardinality({t \in Repeats : target[t] = u})

\* Transactions wait in a circle only if their users follow, or no longer follow,
\* each other in a circle: both operations lock the caller before the target.
OnlyMutualFollowsDeadlock ==
  \A S \in SUBSET Tx : Circle(S) => \A t \in S : \E s \in S : user[s] = target[t]
=============================================================================
