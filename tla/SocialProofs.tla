---------------------------- MODULE SocialProofs ----------------------------
(***************************************************************************)
(* Theorems about Social: its types, and where its deadlocks can come from. *)
(***************************************************************************)
EXTENDS Social, FiniteSetTheorems, TLAPS

\* A transaction that another one waits for has executed a statement that locks.
LEMMA HolderIsPastWrite ==
  ASSUME NEW t \in Tx, NEW s \in Tx, WaitsFor(t, s)
  PROVE  at[s] \in {"first", "second", "commit"}
  BY DEF WaitsFor, HoldsRow, HoldsUser

\* A transaction that has done its work waits for nobody.
LEMMA WaiterIsBeforeCommit ==
  ASSUME NEW t \in Tx, NEW s \in Tx, WaitsFor(t, s)
  PROVE  at[t] \in {"write", "delete", "first", "second"}
  BY DEF WaitsFor

\* Everyone in a circle has updated his first row of users and wants the second:
\* at "first" he could only keep those waiting who hold nothing themselves.
LEMMA CircleIsBetweenUpdates ==
  ASSUME NEW S \in SUBSET Tx, Circle(S), NEW t \in S
  PROVE  at[t] = "second"
<1>1. PICK s \in S : WaitsFor(t, s)
  BY DEF Circle
<1>2. PICK x \in S : WaitsFor(x, t)
  BY DEF Circle
<1>3. PICK y \in S : WaitsFor(y, x)
  BY DEF Circle
<1>4. at[t] \in {"first", "second"}
  BY <1>1, <1>2, HolderIsPastWrite, WaiterIsBeforeCommit
<1>5. at[x] \in {"first", "second"}
  BY <1>2, <1>3, HolderIsPastWrite, WaiterIsBeforeCommit
<1>6. \E u : HoldsUser(t, u)
  BY <1>2, <1>5 DEF WaitsFor
<1> QED
  BY <1>4, <1>6 DEF HoldsUser

\* Deadlocks come from mutual follows only, for any number of users and requests.
THEOREM MutualFollowsOnly == Spec => []OnlyMutualFollowsDeadlock
<1>1. OnlyMutualFollowsDeadlock
  <2> SUFFICES ASSUME NEW S \in SUBSET Tx, Circle(S), NEW t \in S
               PROVE  \E s \in S : user[s] = target[t]
    BY DEF OnlyMutualFollowsDeadlock
  <2>1. PICK s \in S : WaitsFor(t, s)
    BY DEF Circle
  <2>2. at[t] = "second" /\ at[s] = "second"
    BY CircleIsBetweenUpdates
  <2>3. LockOrder(s)[1] = LockOrder(t)[2]
    BY <2>1, <2>2 DEF WaitsFor, HoldsUser
  <2> QED
    BY <2>3 DEF LockOrder
<1> QED
  BY <1>1, PTL
-----------------------------------------------------------------------------
\* The callers and targets of open requests are users: what TypeOK needs to be
\* inductive, for a commit adds their pair to user_follows.
Typed == TypeOK /\ \A t \in Tx : Open(t) => Pair(t) \in User \X User

\* They hold when the server starts.
LEMMA InitTyped == Init => Typed
  BY DEF Init, Typed, TypeOK, Open, Pair

\* A step within the transaction leaves the tables alone.
LEMMA TouchTyped ==
  ASSUME Typed, NEW t \in Tx, NEW n \in {0, 1}, Open(t),
         NEW step \in {"delete", "first", "second", "commit", "done", "aborted"},
         Touch(t, n, step)
  PROVE  Typed'
  BY DEF Typed, TypeOK, Open, Pair, Touch, Goto, counters, args

\* A request begins with two users.
LEMMA BeginTyped ==
  ASSUME Typed, NEW t \in Tx, NEW k \in {"follow", "unfollow"}, NEW u \in User, NEW v \in User,
         Begin(t, k, u, v)
  PROVE  Typed'
<1>1. TypeOK'
  BY DEF Typed, TypeOK, Begin, Goto, counters
<1>2. ASSUME NEW s \in Tx, Open(s)' PROVE Pair(s)' \in User \X User
  BY <1>2 DEF Typed, TypeOK, Begin, Goto, Open, Pair
<1> QED
  BY <1>1, <1>2 DEF Typed

\* A follow that commits adds a pair of users.
LEMMA CommitFollowTyped ==
  ASSUME Typed, NEW t \in Tx, CommitFollow(t)
  PROVE  Typed'
<1>1. Pair(t) \in User \X User /\ user[t] \in User /\ target[t] \in User
  BY DEF Typed, Open, Pair, CommitFollow
<1>2. TypeOK'
  BY <1>1 DEF Typed, TypeOK, CommitFollow, Goto, args
<1>3. ASSUME NEW s \in Tx, Open(s)' PROVE Pair(s)' \in User \X User
  BY <1>3 DEF Typed, TypeOK, CommitFollow, Goto, Open, Pair, args
<1> QED
  BY <1>2, <1>3 DEF Typed

\* GREATEST keeps the counters from going below zero.
LEMMA CommitUnfollowTyped ==
  ASSUME Typed, NEW t \in Tx, CommitUnfollow(t)
  PROVE  Typed'
<1>1. user[t] \in User /\ target[t] \in User
  BY DEF Typed, Open, Pair, CommitUnfollow
<1>2. \A n \in Nat : Less(n) \in Nat
  BY DEF Less
<1>3. /\ following' \in [User -> Nat]
      /\ followers' \in [User -> Nat]
  BY <1>1, <1>2 DEF Typed, TypeOK, CommitUnfollow
<1>4. at' \in [Tx -> {"idle", "write", "delete", "first", "second", "commit", "done", "aborted"}]
  BY DEF Typed, TypeOK, CommitUnfollow, NoOp
<1>5. hit' \in [Tx -> {0, 1}]
  BY DEF Typed, TypeOK, CommitUnfollow
<1>6. follows' \subseteq User \X User /\ UNCHANGED <<kind, user, target>>
  BY DEF Typed, TypeOK, CommitUnfollow, args
<1>7. ASSUME NEW s \in Tx, Open(s)' PROVE Open(s)
  BY <1>7 DEF Typed, TypeOK, CommitUnfollow, Open, NoOp
<1>8. \A s \in Tx : Open(s)' => Pair(s)' \in User \X User
  BY <1>6, <1>7 DEF Typed, Pair
<1> QED
  BY <1>3, <1>4, <1>5, <1>6, <1>8 DEF Typed, TypeOK

\* Every step keeps the types.
LEMMA NextTyped ==
  ASSUME Typed, [Next]_vars
  PROVE  Typed'
<1>1. ASSUME NEW t \in Tx, Start(t) PROVE Typed'
  BY <1>1, BeginTyped DEF Start
<1>2. ASSUME NEW t \in Tx, InsertFollow(t) PROVE Typed'
  BY <1>2, TouchTyped DEF InsertFollow, Open
<1>3. ASSUME NEW t \in Tx, BeginUnfollow(t) PROVE Typed'
  BY <1>3, TouchTyped DEF BeginUnfollow, Open, NoOp
<1>4. ASSUME NEW t \in Tx, DeleteFollow(t) \/ UpdateFirst(t) \/ UpdateSecond(t) PROVE Typed'
  <2>1. hit[t] \in {0, 1}
    BY DEF Typed, TypeOK
  <2> QED
    BY <1>4, <2>1, TouchTyped DEF DeleteFollow, UpdateFirst, UpdateSecond, Open
<1>5. ASSUME NEW t \in Tx, DeadlockAbort(t) PROVE Typed'
  <2>1. at[t] = "second"
    BY <1>5, CircleIsBetweenUpdates DEF DeadlockAbort
  <2> QED
    BY <1>5, <2>1, TouchTyped DEF DeadlockAbort, Abort, Open
<1>6. ASSUME NEW t \in Tx, Fail(t) PROVE Typed'
  BY <1>6, TouchTyped DEF Fail, Abort
<1>7. CASE UNCHANGED vars
  BY <1>7 DEF Typed, TypeOK, Open, Pair, vars, counters, args
<1> QED
  BY <1>1, <1>2, <1>3, <1>4, <1>5, <1>6, <1>7, CommitFollowTyped, CommitUnfollowTyped
  DEF Next, Step

\* The types hold for any number of users and requests; in particular no counter
\* is ever negative.
THEOREM TypeCorrect == Spec => []TypeOK
<1>1. Typed => TypeOK
  BY DEF Typed
<1> QED
  BY InitTyped, NextTyped, <1>1, PTL DEF Spec
-----------------------------------------------------------------------------
(* The counters *)

\* t has inserted or deleted the row of its pair and has not ended.
Writing(t) == at[t] \in {"first", "second", "commit"} /\ hit[t] = 1

\* Nobody else has then: the unique key and the row lock see to it.
Exclusive ==
  \A t, s \in Tx : t # s /\ Pair(t) = Pair(s) => ~(Writing(t) /\ Writing(s))

\* So the row a follow has inserted is not there otherwise, and the row that an
\* unfollow waits for or has deleted is.
Claim(t) ==
  /\ at[t] = "delete" => kind[t] = "unfollow" /\ hit[t] = 1
  /\ at[t] \in {"delete", "first", "second", "commit"} /\ kind[t] = "unfollow" =>
       hit[t] = 1 /\ Pair(t) \in follows
  /\ Writing(t) /\ kind[t] = "follow" => Pair(t) \notin follows

Claims == \A t \in Tx : Claim(t)

\* Only so many rows and repeated follows as there have been requests.
Finite == IsFiniteSet(follows) /\ IsFiniteSet(Repeats)

IInv == Typed /\ Exclusive /\ Claims /\ Finite /\ CountsDriftByRepeats

\* What the commit of an unfollow does to the requests.
LEMMA UnfollowCommitted ==
  ASSUME Typed, Claims, NEW t \in Tx, CommitUnfollow(t)
  PROVE  /\ UNCHANGED <<kind, user, target>>
         /\ at'[t] = "done"
         /\ \A s \in Tx \ {t} : IF at[s] = "delete" /\ Pair(s) = Pair(t)
                                THEN at'[s] = "done" /\ hit'[s] = 0 /\ kind[s] = "unfollow"
                                ELSE at'[s] = at[s] /\ hit'[s] = hit[s]
  BY DEF CommitUnfollow, Losers, NoOp, args, Claims, Claim, Typed, TypeOK

\* The rows stay apart from each other while no other row is begun to be written.
LEMMA ExclusiveKept ==
  ASSUME Exclusive, UNCHANGED <<user, target>>, NEW t \in Tx,
         \A s \in Tx \ {t} : Writing(s)' => Writing(s),
         Writing(t)' => Writing(t) \/ \A s \in Tx \ {t} : Pair(s) = Pair(t) => ~Writing(s)
  PROVE  Exclusive'
  BY DEF Exclusive, Pair

\* A step keeps two requests from writing one row.
LEMMA StepExclusive ==
  ASSUME Typed, Exclusive, Claims, [Next]_vars
  PROVE  Exclusive'
<1>0. /\ at \in [Tx -> {"idle", "write", "delete", "first", "second", "commit", "done", "aborted"}]
      /\ hit \in [Tx -> {0, 1}]
  BY DEF Typed, TypeOK
<1>1. ASSUME NEW t \in Tx, Start(t) PROVE Exclusive'
  <2>1. PICK k \in {"follow", "unfollow"}, u \in User, v \in User : Begin(t, k, u, v)
    BY <1>1 DEF Start
  <2>2. /\ ~Writing(t)'
        /\ \A s \in Tx \ {t} : Writing(s)' = Writing(s) /\ Pair(s)' = Pair(s)
    BY <1>0, <2>1 DEF Begin, Goto, Writing, Pair, Typed, TypeOK
  <2> QED
    BY <2>2 DEF Exclusive
<1>2. ASSUME NEW t \in Tx, InsertFollow(t) \/ DeleteFollow(t) PROVE Exclusive'
  <2>1. \A s \in Tx \ {t} : Pair(s) = Pair(t) => ~Writing(s)
    BY <1>2 DEF InsertFollow, DeleteFollow, Free, WaitsFor, HoldsRow, Writing
  <2> QED
    BY <1>0, <1>2, <2>1, ExclusiveKept DEF InsertFollow, DeleteFollow, Touch, Goto, args, Writing
<1>3. ASSUME NEW t \in Tx, BeginUnfollow(t) \/ UpdateFirst(t) \/ UpdateSecond(t) PROVE Exclusive'
  BY <1>0, <1>3, ExclusiveKept
  DEF BeginUnfollow, UpdateFirst, UpdateSecond, NoOp, Touch, Goto, args, Writing
<1>4. ASSUME NEW t \in Tx, DeadlockAbort(t) \/ Fail(t) PROVE Exclusive'
  BY <1>0, <1>4, ExclusiveKept DEF DeadlockAbort, Fail, Abort, Touch, Goto, args, Writing
<1>5. ASSUME NEW t \in Tx, CommitFollow(t) PROVE Exclusive'
  BY <1>0, <1>5, ExclusiveKept DEF CommitFollow, Goto, args, Writing
<1>6. ASSUME NEW t \in Tx, CommitUnfollow(t) PROVE Exclusive'
  BY <1>6, UnfollowCommitted, ExclusiveKept DEF Writing
<1>7. ASSUME UNCHANGED vars PROVE Exclusive'
  BY <1>7 DEF vars, args, Exclusive, Writing, Pair
<1> QED
  BY <1>1, <1>2, <1>3, <1>4, <1>5, <1>6, <1>7 DEF Next, Step

\* A step keeps what the requests claim of their rows.
LEMMA StepClaims ==
  ASSUME Typed, Exclusive, Claims, [Next]_vars
  PROVE  Claims'
<1>0. /\ at \in [Tx -> {"idle", "write", "delete", "first", "second", "commit", "done", "aborted"}]
      /\ hit \in [Tx -> {0, 1}]
  BY DEF Typed, TypeOK
<1>1. ASSUME NEW t \in Tx, Start(t) PROVE Claims'
  <2>1. PICK k \in {"follow", "unfollow"}, u \in User, v \in User : Begin(t, k, u, v)
    BY <1>1 DEF Start
  <2>2. /\ at'[t] = "write" /\ UNCHANGED <<follows, hit>>
        /\ \A s \in Tx \ {t} : at'[s] = at[s] /\ kind'[s] = kind[s] /\ Pair(s)' = Pair(s)
    BY <1>0, <2>1 DEF Begin, Goto, Pair, Typed, TypeOK
  <2> QED
    BY <2>2 DEF Claims, Claim, Writing
<1>2. ASSUME NEW t \in Tx,
             \/ InsertFollow(t) \/ DeleteFollow(t) \/ BeginUnfollow(t) \/ UpdateFirst(t) \/ UpdateSecond(t)
             \/ DeadlockAbort(t) \/ Fail(t)
      PROVE  Claims'
  <2>1. /\ UNCHANGED <<follows, kind, user, target>>
        /\ \A s \in Tx \ {t} : at'[s] = at[s] /\ hit'[s] = hit[s]
    BY <1>0, <1>2 DEF InsertFollow, DeleteFollow, BeginUnfollow, UpdateFirst, UpdateSecond,
                      DeadlockAbort, Fail, Abort, Touch, Goto, args
  <2>2. Claim(t)'
    BY <1>0, <1>2, <2>1
    DEF InsertFollow, DeleteFollow, BeginUnfollow, UpdateFirst, UpdateSecond, DeadlockAbort, Fail,
        Abort, NoOp, Touch, Goto, Claims, Claim, Writing, Pair
  <2> QED
    BY <2>1, <2>2 DEF Claims, Claim, Writing, Pair
<1>3. ASSUME NEW t \in Tx, CommitFollow(t) PROVE Claims'
  <2> SUFFICES ASSUME NEW s \in Tx PROVE Claim(s)'
    BY DEF Claims
  <2>1. /\ follows' = IF hit[t] = 1 THEN follows \cup {Pair(t)} ELSE follows
        /\ UNCHANGED <<kind, user, target, hit>> /\ at'[t] = "done"
        /\ \A r \in Tx \ {t} : at'[r] = at[r]
        /\ hit[t] = 1 => Writing(t)
    BY <1>0, <1>3 DEF CommitFollow, Goto, args, Writing
  <2>2. s # t /\ hit[t] = 1 /\ Pair(s) = Pair(t) => ~Writing(s)
    BY <2>1 DEF Exclusive
  <2> QED
    BY <2>1, <2>2 DEF Claims, Claim, Writing, Pair
<1>4. ASSUME NEW t \in Tx, CommitUnfollow(t) PROVE Claims'
  <2> SUFFICES ASSUME NEW s \in Tx PROVE Claim(s)'
    BY DEF Claims
  <2>1. follows' = follows \ {Pair(t)} /\ Writing(t)
    BY <1>4 DEF CommitUnfollow, Claims, Claim, Writing
  <2>2. s # t /\ Pair(s) = Pair(t) => ~Writing(s)
    BY <2>1 DEF Exclusive
  <2>3. Pair(s)' = Pair(s) /\ Claim(s)
    BY <1>4, UnfollowCommitted DEF Pair, Claims
  <2>4. CASE s = t \/ (at[s] = "delete" /\ Pair(s) = Pair(t))
    BY <1>4, <2>4, UnfollowCommitted DEF Claim, Writing
  <2>5. CASE s # t /\ ~(at[s] = "delete" /\ Pair(s) = Pair(t))
    <3>1. at'[s] = at[s] /\ hit'[s] = hit[s] /\ kind'[s] = kind[s]
      BY <1>4, <2>5, UnfollowCommitted
    <3> QED
      BY <1>0, <2>1, <2>2, <2>3, <2>5, <3>1 DEF Claim, Writing
  <2> QED
    BY <2>4, <2>5
<1>5. ASSUME UNCHANGED vars PROVE Claims'
  BY <1>5 DEF vars, args, Claims, Claim, Writing, Pair
<1> QED
  BY <1>1, <1>2, <1>3, <1>4, <1>5 DEF Next, Step

\* One element more, or one less, if it is one of those counted.
LEMMA OneMore ==
  ASSUME NEW A, NEW B, NEW x, NEW c \in BOOLEAN, IsFiniteSet(A), x \notin A,
         B = IF c THEN A \cup {x} ELSE A
  PROVE  Cardinality(B) = Cardinality(A) + (IF c THEN 1 ELSE 0)
<1>1. IsFiniteSet(A) => Cardinality(A) \in Nat
  BY FS_CardinalityType
<1>2. CASE c
  <2>1. Cardinality(A \cup {x}) = Cardinality(A) + 1
    BY FS_AddElement
  <2> QED
    BY <1>2, <2>1
<1>3. CASE ~c
  BY <1>1, <1>3
<1> QED
  BY <1>2, <1>3

\* ... and one element less.
LEMMA OneLess ==
  ASSUME NEW A, NEW B, NEW x, NEW c \in BOOLEAN, IsFiniteSet(A), c => x \in A,
         B = IF c THEN A \ {x} ELSE A
  PROVE  Cardinality(B) = Cardinality(A) - (IF c THEN 1 ELSE 0)
  BY FS_RemoveElement, FS_CardinalityType

\* What each user's counters count.
RowsBy(u) == {f \in follows : f[1] = u}
RowsOf(u) == {f \in follows : f[2] = u}
By(u)     == {t \in Repeats : user[t] = u}
Of(u)     == {t \in Repeats : target[t] = u}

\* They are finitely many.
LEMMA CountedAreFinite ==
  ASSUME Finite, NEW u
  PROVE  /\ IsFiniteSet(RowsBy(u)) /\ IsFiniteSet(RowsOf(u)) /\ IsFiniteSet(By(u)) /\ IsFiniteSet(Of(u))
         /\ Cardinality(RowsBy(u)) \in Nat /\ Cardinality(RowsOf(u)) \in Nat
         /\ Cardinality(By(u)) \in Nat /\ Cardinality(Of(u)) \in Nat
<1>1. IsFiniteSet(RowsBy(u)) /\ IsFiniteSet(RowsOf(u))
  BY FS_Subset DEF Finite, RowsBy, RowsOf
<1>2. IsFiniteSet(By(u)) /\ IsFiniteSet(Of(u))
  BY FS_Subset DEF Finite, By, Of
<1> QED
  BY <1>1, <1>2, FS_CardinalityType

\* The property in these terms.
LEMMA DriftBySets ==
  CountsDriftByRepeats <=>
    \A u \in User : /\ following[u] = Cardinality(RowsBy(u)) + Cardinality(By(u))
                    /\ followers[u] = Cardinality(RowsOf(u)) + Cardinality(Of(u))
  BY DEF CountsDriftByRepeats, FollowsBy, FollowsOf, RowsBy, RowsOf, By, Of

\* While no request commits, neither the rows nor the repeats change.
LEMMA DriftKept ==
  ASSUME Finite, CountsDriftByRepeats, UNCHANGED <<follows, following, followers>>,
         Repeats' = Repeats, \A t \in Repeats : user'[t] = user[t] /\ target'[t] = target[t]
  PROVE  Finite' /\ CountsDriftByRepeats'
<1>1. \A u : /\ {t \in Repeats : user[t] = u}' = {t \in Repeats : user[t] = u}
             /\ {t \in Repeats : target[t] = u}' = {t \in Repeats : target[t] = u}
  OBVIOUS
<1> QED
  BY <1>1 DEF Finite, CountsDriftByRepeats, FollowsBy, FollowsOf

\* A step keeps each counter at its rows plus its repeats.
LEMMA StepDrift ==
  ASSUME Typed, Claims, Finite, CountsDriftByRepeats, [Next]_vars
  PROVE  Finite' /\ CountsDriftByRepeats'
<1>0. /\ at \in [Tx -> {"idle", "write", "delete", "first", "second", "commit", "done", "aborted"}]
      /\ hit \in [Tx -> {0, 1}] /\ following \in [User -> Nat] /\ followers \in [User -> Nat]
  BY DEF Typed, TypeOK
<1>a. ASSUME NEW u \in User
      PROVE  /\ following[u] = Cardinality(RowsBy(u)) + Cardinality(By(u))
             /\ followers[u] = Cardinality(RowsOf(u)) + Cardinality(Of(u))
             /\ IsFiniteSet(RowsBy(u)) /\ IsFiniteSet(RowsOf(u))
             /\ IsFiniteSet(By(u)) /\ IsFiniteSet(Of(u))
             /\ Cardinality(RowsBy(u)) \in Nat /\ Cardinality(RowsOf(u)) \in Nat
             /\ Cardinality(By(u)) \in Nat /\ Cardinality(Of(u)) \in Nat
  BY DriftBySets, CountedAreFinite
<1>1. ASSUME NEW t \in Tx, Start(t) PROVE Finite' /\ CountsDriftByRepeats'
  <2>1. PICK k \in {"follow", "unfollow"}, u \in User, v \in User : Begin(t, k, u, v)
    BY <1>1 DEF Start
  <2>2. /\ at[t] = "idle" /\ at'[t] = "write" /\ UNCHANGED <<follows, following, followers, hit>>
        /\ \A s \in Tx \ {t} : /\ at'[s] = at[s] /\ kind'[s] = kind[s]
                               /\ user'[s] = user[s] /\ target'[s] = target[s]
    BY <1>0, <2>1 DEF Begin, Goto, counters, Typed, TypeOK
  <2>3. Repeats' = Repeats /\ t \notin Repeats
    BY <2>2 DEF Repeats
  <2>4. \A s \in Repeats : user'[s] = user[s] /\ target'[s] = target[s]
    BY <2>2, <2>3 DEF Repeats
  <2> QED
    BY <2>2, <2>3, <2>4, DriftKept
<1>2. ASSUME NEW t \in Tx,
             \/ InsertFollow(t) \/ DeleteFollow(t) \/ BeginUnfollow(t) \/ UpdateFirst(t) \/ UpdateSecond(t)
             \/ DeadlockAbort(t) \/ Fail(t)
      PROVE  Finite' /\ CountsDriftByRepeats'
  <2>0. Open(t)
    BY <1>2, CircleIsBetweenUpdates
    DEF InsertFollow, DeleteFollow, BeginUnfollow, UpdateFirst, UpdateSecond, DeadlockAbort, Fail, Open
  <2>1. /\ UNCHANGED <<follows, following, followers, kind, user, target>>
        /\ \A s \in Tx \ {t} : at'[s] = at[s] /\ hit'[s] = hit[s]
    BY <1>0, <1>2 DEF InsertFollow, DeleteFollow, BeginUnfollow, UpdateFirst, UpdateSecond,
                      DeadlockAbort, Fail, Abort, Touch, Goto, counters, args
  <2>2. at'[t] = "done" => kind[t] = "unfollow"
    BY <1>0, <1>2
    DEF InsertFollow, DeleteFollow, BeginUnfollow, UpdateFirst, UpdateSecond, DeadlockAbort, Fail,
        Abort, Touch, Goto
  <2>3. Repeats' = Repeats
    BY <2>0, <2>1, <2>2 DEF Repeats, Open
  <2> QED
    BY <2>1, <2>3, DriftKept
<1>3. ASSUME NEW t \in Tx, CommitFollow(t) PROVE Finite' /\ CountsDriftByRepeats'
  <2>1. /\ kind[t] = "follow" /\ at[t] = "commit" /\ at'[t] = "done"
        /\ UNCHANGED <<kind, user, target, hit>> /\ \A s \in Tx \ {t} : at'[s] = at[s]
        /\ user[t] \in User /\ target[t] \in User
    BY <1>0, <1>3 DEF CommitFollow, Goto, args, Typed, Open, Pair
  <2>2. /\ \A u \in User : following'[u] = following[u] + (IF user[t] = u THEN 1 ELSE 0)
        /\ \A u \in User : followers'[u] = followers[u] + (IF target[t] = u THEN 1 ELSE 0)
    BY <1>0, <1>3, <2>1 DEF CommitFollow
  <2>3. CASE hit[t] = 1
    <3>1. Repeats' = Repeats
      BY <2>1, <2>3 DEF Repeats
    <3>2. follows' = follows \cup {Pair(t)} /\ Pair(t) \notin follows
      BY <1>3, <2>1, <2>3 DEF CommitFollow, Claims, Claim, Writing
    <3>3. IsFiniteSet(follows')
      BY <3>2, FS_AddElement DEF Finite
    <3>4. ASSUME NEW u \in User
          PROVE  /\ Cardinality(RowsBy(u)') = Cardinality(RowsBy(u)) + (IF user[t] = u THEN 1 ELSE 0)
                 /\ Cardinality(RowsOf(u)') = Cardinality(RowsOf(u)) + (IF target[t] = u THEN 1 ELSE 0)
      <4>1. Pair(t)[1] = user[t] /\ Pair(t)[2] = target[t]
        BY DEF Pair
      <4>2. /\ RowsBy(u)' = IF user[t] = u THEN RowsBy(u) \cup {Pair(t)} ELSE RowsBy(u)
            /\ RowsOf(u)' = IF target[t] = u THEN RowsOf(u) \cup {Pair(t)} ELSE RowsOf(u)
            /\ Pair(t) \notin RowsBy(u) /\ Pair(t) \notin RowsOf(u)
        BY <3>2, <4>1 DEF RowsBy, RowsOf
      <4>3. (user[t] = u) \in BOOLEAN /\ (target[t] = u) \in BOOLEAN
        OBVIOUS
      <4> QED
        BY <1>a, <4>2, <4>3, OneMore
    <3>5. \A u \in User : By(u)' = By(u) /\ Of(u)' = Of(u)
      BY <2>1, <3>1 DEF By, Of
    <3>6. CountsDriftByRepeats'
      <4> SUFFICES ASSUME NEW u \in User
                   PROVE  /\ following'[u] = Cardinality(RowsBy(u)') + Cardinality(By(u)')
                          /\ followers'[u] = Cardinality(RowsOf(u)') + Cardinality(Of(u)')
        BY DEF CountsDriftByRepeats, FollowsBy, FollowsOf, RowsBy, RowsOf, By, Of
      <4> QED
        BY <1>a, <2>2, <3>4, <3>5
    <3> QED
      BY <3>1, <3>3, <3>6 DEF Finite
  <2>4. CASE hit[t] = 0
    <3>1. Repeats' = Repeats \cup {t} /\ t \notin Repeats
      BY <2>1, <2>4 DEF Repeats
    <3>2. follows' = follows
      BY <1>3, <2>4 DEF CommitFollow
    <3>3. IsFiniteSet(Repeats')
      BY <3>1, FS_AddElement DEF Finite
    <3>4. ASSUME NEW u \in User
          PROVE  /\ Cardinality(By(u)') = Cardinality(By(u)) + (IF user[t] = u THEN 1 ELSE 0)
                 /\ Cardinality(Of(u)') = Cardinality(Of(u)) + (IF target[t] = u THEN 1 ELSE 0)
      <4>1. /\ By(u)' = IF user[t] = u THEN By(u) \cup {t} ELSE By(u)
            /\ Of(u)' = IF target[t] = u THEN Of(u) \cup {t} ELSE Of(u)
            /\ t \notin By(u) /\ t \notin Of(u)
        BY <2>1, <3>1 DEF By, Of
      <4>2. (user[t] = u) \in BOOLEAN /\ (target[t] = u) \in BOOLEAN
        OBVIOUS
      <4> QED
        BY <1>a, <4>1, <4>2, OneMore
    <3>5. \A u \in User : RowsBy(u)' = RowsBy(u) /\ RowsOf(u)' = RowsOf(u)
      BY <3>2 DEF RowsBy, RowsOf
    <3>6. CountsDriftByRepeats'
      <4> SUFFICES ASSUME NEW u \in User
                   PROVE  /\ following'[u] = Cardinality(RowsBy(u)') + Cardinality(By(u)')
                          /\ followers'[u] = Cardinality(RowsOf(u)') + Cardinality(Of(u)')
        BY DEF CountsDriftByRepeats, FollowsBy, FollowsOf, RowsBy, RowsOf, By, Of
      <4> QED
        BY <1>a, <2>2, <3>4, <3>5
    <3> QED
      BY <3>2, <3>3, <3>6 DEF Finite
  <2> QED
    BY <1>0, <2>3, <2>4
<1>4. ASSUME NEW t \in Tx, CommitUnfollow(t) PROVE Finite' /\ CountsDriftByRepeats'
  <2>1. /\ kind[t] = "unfollow" /\ at[t] = "commit" /\ user[t] \in User /\ target[t] \in User
        /\ UNCHANGED <<kind, user, target>>
        /\ follows' = follows \ {Pair(t)} /\ Pair(t) \in follows
    BY <1>4 DEF CommitUnfollow, args, Typed, Open, Pair, Claims, Claim
  <2>2. Repeats' = Repeats
    BY <1>4, <2>1, UnfollowCommitted DEF Repeats
  <2>3. IsFiniteSet(follows')
    BY <2>1, FS_RemoveElement DEF Finite
  <2>4. ASSUME NEW u \in User
        PROVE  /\ Cardinality(RowsBy(u)') = Cardinality(RowsBy(u)) - (IF user[t] = u THEN 1 ELSE 0)
               /\ Cardinality(RowsOf(u)') = Cardinality(RowsOf(u)) - (IF target[t] = u THEN 1 ELSE 0)
               /\ Cardinality(RowsBy(u)') \in Nat /\ Cardinality(RowsOf(u)') \in Nat
    <3>1. Pair(t)[1] = user[t] /\ Pair(t)[2] = target[t]
      BY DEF Pair
    <3>2. /\ RowsBy(u)' = IF user[t] = u THEN RowsBy(u) \ {Pair(t)} ELSE RowsBy(u)
          /\ RowsOf(u)' = IF target[t] = u THEN RowsOf(u) \ {Pair(t)} ELSE RowsOf(u)
          /\ user[t] = u => Pair(t) \in RowsBy(u)
          /\ target[t] = u => Pair(t) \in RowsOf(u)
      BY <2>1, <3>1 DEF RowsBy, RowsOf
    <3>3. (user[t] = u) \in BOOLEAN /\ (target[t] = u) \in BOOLEAN
      OBVIOUS
    <3>4. IsFiniteSet(RowsBy(u)') /\ IsFiniteSet(RowsOf(u)')
      BY <2>3, FS_Subset DEF RowsBy, RowsOf
    <3>5. Cardinality(RowsBy(u)') \in Nat /\ Cardinality(RowsOf(u)') \in Nat
      BY <3>4, FS_CardinalityType
    <3> QED
      BY <1>a, <3>2, <3>3, <3>5, OneLess
  <2>5. \A u \in User : By(u)' = By(u) /\ Of(u)' = Of(u)
    BY <2>1, <2>2 DEF By, Of
  <2>6. /\ \A u \in User : following'[u] = IF user[t] = u THEN Less(following[u]) ELSE following[u]
        /\ \A u \in User : followers'[u] = IF target[t] = u THEN Less(followers[u]) ELSE followers[u]
    BY <1>0, <1>4, <2>1 DEF CommitUnfollow
  <2>7. CountsDriftByRepeats'
    <3> SUFFICES ASSUME NEW u \in User
                 PROVE  /\ following'[u] = Cardinality(RowsBy(u)') + Cardinality(By(u)')
                        /\ followers'[u] = Cardinality(RowsOf(u)') + Cardinality(Of(u)')
      BY DEF CountsDriftByRepeats, FollowsBy, FollowsOf, RowsBy, RowsOf, By, Of
    <3> QED
      BY <1>a, <2>4, <2>5, <2>6 DEF Less
  <2> QED
    BY <2>2, <2>3, <2>7 DEF Finite
<1>5. ASSUME UNCHANGED vars PROVE Finite' /\ CountsDriftByRepeats'
  <2>1. Repeats' = Repeats
    BY <1>5 DEF vars, args, Repeats
  <2> QED
    BY <1>5, <2>1, DriftKept DEF vars, counters, args
<1> QED
  BY <1>1, <1>2, <1>3, <1>4, <1>5 DEF Next, Step

\* Whatever overlaps and fails, each counter is above the rows by exactly the follows
\* that found their row there already.
THEOREM DriftsByRepeats == Spec => []CountsDriftByRepeats
<1>1. Init => IInv
  <2> SUFFICES ASSUME Init PROVE IInv
    OBVIOUS
  <2>1. Exclusive /\ Claims
    BY DEF Init, Exclusive, Claims, Claim, Writing
  <2>2. Repeats = {} /\ follows = {}
    BY DEF Init, Repeats
  <2>3. Finite
    BY <2>2, FS_EmptySet DEF Finite
  <2>4. ASSUME NEW u \in User
        PROVE  /\ FollowsBy(u) = 0 /\ Cardinality({t \in Repeats : user[t] = u}) = 0
               /\ FollowsOf(u) = 0 /\ Cardinality({t \in Repeats : target[t] = u}) = 0
    <3>1. /\ {f \in follows : f[1] = u} = {} /\ {f \in follows : f[2] = u} = {}
          /\ {t \in Repeats : user[t] = u} = {} /\ {t \in Repeats : target[t] = u} = {}
      BY <2>2
    <3> QED
      BY <3>1, FS_EmptySet DEF FollowsBy, FollowsOf
  <2>5. CountsDriftByRepeats
    BY <2>4 DEF Init, CountsDriftByRepeats
  <2> QED
    BY <2>1, <2>3, <2>5, InitTyped DEF IInv
<1>2. IInv /\ [Next]_vars => IInv'
  BY NextTyped, StepExclusive, StepClaims, StepDrift DEF IInv
<1>3. IInv => CountsDriftByRepeats
  BY DEF IInv
<1> QED
  BY <1>1, <1>2, <1>3, PTL DEF Spec
=============================================================================
