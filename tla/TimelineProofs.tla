--------------------------- MODULE TimelineProofs ---------------------------
(***************************************************************************)
(* Proofs about Timeline for any numbers of users, posts, polls, options   *)
(* and transactions.                                                       *)
(***************************************************************************)
EXTENDS Timeline, FiniteSetTheorems, TLAPS

\* A transaction that is open knows its caller and its subject.
Arguments ==
  \A t \in Tx : Open(t) =>
    /\ user[t] \in User
    /\ IF kind[t] = "vote"
       THEN subject[t] \in Poll /\ option[t] \in Option
       ELSE kind[t] \in {"like", "repost", "unrepost", "comment"} /\ subject[t] \in Row

Typed == TypeOK /\ Arguments

\* A request has made its repost before anything is about it, and no step of its own
\* follows; until then no counter of the row is anything but zero.
Rooted ==
  /\ \A r \in reposts : kind[r] = "repost" /\ at[r] = "done"
  /\ \A t, r \in Tx : subject[t] = r => at[r] = "done"
  /\ \A l \in likes : l[1] \in Tx => at[l[1]] = "done"
  /\ \A r \in Tx : at[r] # "done" =>
       likeCount[r] = 0 /\ repostCount[r] = 0 /\ comments[r] = 0 /\ commentCount[r] = 0

\* t has inserted or deleted rows and has not ended.
Writing(t) == at[t] \in {"cascade", "count", "total", "commit"}

\* Two rivals have never inserted or deleted the same row.
Exclusive ==
  \A t, s \in Tx : s \in Rivals(t) /\ Writing(s) /\ Writing(t) => hit[s] \cap hit[t] = {}

\* What a transaction has seen of the rows is still so: the row it has inserted is
\* not there otherwise, those it is deleting or waiting for are, but for the likes
\* that are gone with their post.
Claim(t) ==
  /\ at[t] = "delete" => Removes(t)
  /\ at[t] = "cascade" => kind[t] = "unrepost"
  /\ at[t] = "total" => kind[t] = "vote"
  /\ kind[t] = "like" /\ at[t] = "delete" => hit[t] = {subject[t]} /\ Liked(t)
  /\ kind[t] = "like" /\ at[t] \in {"count", "commit"} =>
       IF found[t] THEN hit[t] = {} \/ (hit[t] = {subject[t]} /\ (Liked(t) \/ ~Exists(subject[t])))
                   ELSE hit[t] = {subject[t]} /\ ~Liked(t)
  /\ kind[t] = "unrepost" /\ at[t] \in {"delete", "cascade", "count", "commit"} =>
       /\ hit[t] # {}
       /\ \A r \in hit[t] : r \in reposts /\ subject[r] = subject[t] /\ user[r] = user[t]
  /\ kind[t] = "vote" /\ at[t] \in {"count", "total", "commit"} => hit[t] = {subject[t]} /\ ~Voted(t)

Claims == \A t \in Tx : Claim(t)

\* Without two requests of a kind by one user on one subject, what a transaction has
\* checked stays so, too, while its post is there.
Unrivalled(t) ==
  /\ \A s \in Rivals(t) : ~(Open(s) /\ Open(t))
  /\ kind[t] = "like" /\ at[t] = "write" => (found[t] <=> Liked(t)) \/ ~Exists(subject[t])
  /\ kind[t] = "like" /\ at[t] \in {"count", "commit"} => hit[t] # {} \/ ~Exists(subject[t])
  /\ kind[t] = "repost" /\ at[t] \in {"write", "count", "commit"} =>
       \A r \in RepostsOf(subject[t]) : user[r] # user[t]

Alone == ~doubled => \A t \in Tx : Unrivalled(t)

\* ... and nobody has reposted anything twice.
OnceEach ==
  ~doubled => \A r, s \in reposts : subject[r] = subject[s] /\ user[r] = user[s] => r = s

\* The counted rows are finitely many, and counted.
Counted ==
  /\ IsFiniteSet(likes) /\ IsFiniteSet(reposts)
  /\ \A q \in Poll : IsFiniteSet(Voters(q))
  /\ \A o \in Option : IsFiniteSet(VotesFor(o))
  /\ CountsExactWhenSingle
  /\ VotesExact

IInv == Typed /\ Rooted /\ Exclusive /\ Claims /\ Alone /\ OnceEach /\ Counted
-----------------------------------------------------------------------------
(* Deadlocks *)

\* A transaction waits only for those further on than itself, in the order of these
\* stages: the counted row, what depends on it, the post or the option, the poll.
\* The exceptions are those that wait for a repost that is being deleted.
LEMMA WaitsForLaterStage ==
  ASSUME Claims, NEW t \in Tx, NEW s \in Tx, WaitsFor(t, s), ~Undercuts(s, t), ~Undercuts(t, s)
  PROVE  \/ at[t] \in {"write", "delete"} /\ at[s] \in {"cascade", "count", "total", "commit"}
         \/ at[t] = "cascade" /\ at[s] \in {"count", "commit"}
         \/ at[t] = "count" /\ at[s] \in {"total", "commit"}
         \/ at[t] = "total" /\ at[s] = "commit"
<1> USE DEF Deletes, Cascaded
<1>1. CASE at[t] \in {"write", "delete"}
  BY <1>1 DEF WaitsFor, HoldsKey, LocksPost, HoldsPost, SharesKey
<1>2. CASE at[t] = "cascade"
  <2>1. CASE \E r \in hit[t] : Unliked(s, r)
    BY <1>2, <2>1 DEF Unliked
  <2>2. CASE \E r \in hit[t] : \E x \in RepostsOf(r) : LocksPost(s, x)
    <3>0. PICK r \in hit[t] : \E x \in RepostsOf(r) : LocksPost(s, x)
      BY <2>2
    <3>1. PICK x \in RepostsOf(r) : LocksPost(s, x)
      BY <3>0
    <3>2. kind[t] = "unrepost" /\ x \in reposts /\ subject[x] = r
      BY <1>2 DEF Claims, Claim, RepostsOf
    <3>3. ~Deletes(s, x)
      <4> SUFFICES ASSUME Deletes(s, x) PROVE FALSE
        OBVIOUS
      <4>1. subject[s] = r
        BY <3>2 DEF Claims, Claim
      <4> QED
        BY <3>2, <4>1 DEF Undercuts
    <3> QED
      BY <1>2, <3>1, <3>3 DEF LocksPost, HoldsPost
  <2> QED
    BY <1>2, <2>1, <2>2 DEF WaitsFor, NeedsKey
<1>3. CASE at[t] = "count"
  BY <1>3 DEF WaitsFor, NeedsKey, LocksPost, HoldsPost, HoldsOption, Undercuts
<1>4. CASE at[t] = "total"
  BY <1>4 DEF WaitsFor, NeedsKey, HoldsPoll
<1> QED
  BY <1>1, <1>2, <1>3, <1>4 DEF WaitsFor, NeedsKey

\* In any set of transactions of which none removes the repost another is about,
\* or one that is reposted in it, somebody can go on.
LEMMA NoOtherDeadlock ==
  ASSUME Claims
  PROVE  OnlyUndercutsDeadlock
<1> SUFFICES ASSUME NEW S \in SUBSET Tx, S # {}, \A s, t \in S : ~Undercuts(s, t),
                    \A t \in S : \E s \in S : WaitsFor(t, s)
             PROVE  FALSE
  BY DEF OnlyUndercutsDeadlock
<1>1. \A t \in S : at[t] # "commit"
  BY WaitsForLaterStage
<1>2. \A t \in S : at[t] # "total"
  BY <1>1, WaitsForLaterStage
<1>3. \A t \in S : at[t] # "count"
  BY <1>1, <1>2, WaitsForLaterStage
<1>4. \A t \in S : at[t] # "cascade"
  BY <1>1, <1>3, WaitsForLaterStage
<1>5. PICK t \in S : TRUE
  OBVIOUS
<1> QED
  BY <1>1, <1>2, <1>3, <1>4, <1>5, WaitsForLaterStage
-----------------------------------------------------------------------------
(* What the steps do *)

Stage == {"idle", "check", "write", "delete", "cascade", "count", "total", "commit", "done", "aborted"}
Kind  == {"like", "repost", "unrepost", "comment", "vote"}

\* An entry of a table of tables is replaced.
LEMMA NestedExcept ==
  ASSUME NEW S, NEW T, NEW V, NEW f \in [S -> [T -> V]], NEW x \in S, NEW y \in T, NEW v \in V
  PROVE  LET g == [f EXCEPT ![x][y] = v]
         IN  /\ g \in [S -> [T -> V]]
             /\ \A a \in S, b \in T : g[a][b] = IF a = x /\ b = y THEN v ELSE f[a][b]
<1> DEFINE row == [f[x] EXCEPT ![y] = v]
<1>1. row \in [T -> V] /\ \A b \in T : row[b] = IF b = y THEN v ELSE f[x][b]
  OBVIOUS
<1>2. [f EXCEPT ![x][y] = v] = [f EXCEPT ![x] = row]
  OBVIOUS
<1> HIDE DEF row
<1> QED
  BY <1>1, <1>2

\* How a request begins.
LEMMA Started ==
  ASSUME Typed, NEW t \in Tx, Start(t)
  PROVE  \E u \in User, k \in Kind, x \in Row \cup Poll, o \in Option \cup {None} :
           /\ Begin(t, k, u, x, o)
           /\ IF k = "vote" THEN x \in Poll /\ o \in Option ELSE x \in Post \cup reposts /\ o = None
<1>1. PICK u \in User : \/ \E k \in Kind \ {"vote"}, p \in Post \cup reposts : Begin(t, k, u, p, None)
                        \/ \E q \in Poll, o \in Option : Begin(t, "vote", u, q, o)
  BY DEF Start, Kind
<1>2. Post \cup reposts \subseteq Row
  BY DEF Typed, TypeOK, Row
<1>3. CASE \E k \in Kind \ {"vote"}, p \in Post \cup reposts : Begin(t, k, u, p, None)
  BY <1>2, <1>3
<1>4. CASE \E q \in Poll, o \in Option : Begin(t, "vote", u, q, o)
  BY <1>4 DEF Kind
<1> QED
  BY <1>1, <1>3, <1>4

\* What it changes.
LEMMA Begun ==
  ASSUME Typed, NEW t \in Tx, NEW k, NEW u, NEW x, NEW o, Begin(t, k, u, x, o)
  PROVE  /\ UNCHANGED <<rowVars, countVars, found, hit>>
         /\ at[t] = "idle" /\ at'[t] = IF k \in {"unrepost", "comment"} THEN "write" ELSE "check"
         /\ kind'[t] = k /\ user'[t] = u /\ subject'[t] = x /\ option'[t] = o
         /\ \A s \in Tx \ {t} : /\ at'[s] = at[s] /\ kind'[s] = kind[s] /\ user'[s] = user[s]
                                /\ subject'[s] = subject[s] /\ option'[s] = option[s]
  BY DEF Begin, Goto, Typed, TypeOK

\* What the commit of a DELETE does to each transaction's rows and progress.
LEMMA DeleteCommitted ==
  ASSUME Typed, NEW t \in Tx, at[t] = "commit", CommitDelete(t)
  PROVE  /\ hit' \in [Tx -> SUBSET (Row \cup Poll)]
         /\ at' \in [Tx -> Stage]
         /\ at'[t] = "done" /\ hit'[t] = hit[t]
         /\ \A s \in Tx \ {t} :
              IF at[s] = "delete"
              THEN hit'[s] = Left(s, t) /\ at'[s] = IF hit'[s] = {} THEN NothingLeft(s) ELSE "delete"
              ELSE hit'[s] = hit[s] /\ at'[s] = at[s]
<1>1. \A s \in Tx : Left(s, t) \subseteq hit[s]
  BY DEF Left
<1> QED
  BY <1>1 DEF Typed, TypeOK, Stage, CommitDelete, NothingLeft

\* What the steps inside a transaction leave alone: no request opens, and its
\* arguments stay.
Inside(t) ==
  /\ UNCHANGED <<kind, user, subject, option, doubled>>
  /\ at' \in [Tx -> Stage]
  /\ hit' \in [Tx -> SUBSET (Row \cup Poll)]
  /\ found' \in [Tx -> BOOLEAN]
  /\ Open(t)
  /\ \A s \in Tx \ {t} : at'[s] = at[s] \/ (at[s] = "delete" /\ at'[s] \in {"count", "aborted"})

\* A step of one transaction that writes neither rows nor counters yet.
Quiet(t) ==
  /\ Inside(t)
  /\ UNCHANGED <<rowVars, countVars>>
  /\ \A s \in Tx \ {t} : at'[s] = at[s] /\ hit'[s] = hit[s] /\ found'[s] = found[s]

LEMMA QuietSteps ==
  ASSUME Typed, NEW t \in Tx, Open(t)
  PROVE  /\ Abort(t) => Quiet(t) /\ at'[t] = "aborted" /\ hit'[t] = hit[t] /\ found'[t] = found[t]
         /\ \A rows \in SUBSET (Row \cup Poll), step \in Stage :
              Touch(t, rows, step) =>
                Quiet(t) /\ at'[t] = step /\ hit'[t] = rows /\ found'[t] = found[t]
         /\ Goto(t, "write") /\ UNCHANGED <<rowVars, countVars, argVars, found, hit>> =>
              Quiet(t) /\ at'[t] = "write" /\ hit'[t] = hit[t] /\ found'[t] = found[t]
<1> USE DEF Typed, TypeOK, Quiet, Inside, Goto, argVars, Stage
<1>1. Abort(t) => Quiet(t) /\ at'[t] = "aborted" /\ hit'[t] = hit[t] /\ found'[t] = found[t]
  BY DEF Abort
<1>2. ASSUME NEW rows \in SUBSET (Row \cup Poll), NEW step \in Stage, Touch(t, rows, step)
      PROVE  Quiet(t) /\ at'[t] = step /\ hit'[t] = rows /\ found'[t] = found[t]
  BY <1>2 DEF Touch
<1>3. Goto(t, "write") /\ UNCHANGED <<rowVars, countVars, argVars, found, hit>> =>
        Quiet(t) /\ at'[t] = "write" /\ hit'[t] = hit[t] /\ found'[t] = found[t]
  OBVIOUS
<1> QED
  BY <1>1, <1>2, <1>3

\* What each step before the commit does.
LEMMA QuietStep ==
  ASSUME Typed, NEW t \in Tx,
         \/ CheckLike(t) \/ CheckRepost(t) \/ CheckVote(t) \/ BeginDelete(t) \/ Delete(t)
         \/ Cascade(t) \/ InsertLike(t) \/ InsertRow(t) \/ InsertVote(t) \/ Count(t) \/ Fail(t)
  PROVE  Quiet(t)
<1>1. Open(t) /\ hit[t] \in SUBSET (Row \cup Poll)
  BY DEF Typed, TypeOK, Open, CheckLike, CheckRepost, CheckVote, BeginDelete, Delete, Cascade,
         InsertLike, InsertRow, InsertVote, Count, Fail
<1>2. subject[t] \in Row \cup Poll /\ Mine(t) \in SUBSET (Row \cup Poll)
  BY <1>1 DEF Typed, TypeOK, Arguments, Mine, RepostsOf, Row
<1>3. CASE CheckLike(t)
  BY <1>1, <1>3 DEF CheckLike, Quiet, Inside, Goto, Stage, argVars, Typed, TypeOK, Liked
<1>4. CASE CheckRepost(t) \/ CheckVote(t) \/ Fail(t)
  BY <1>1, <1>4, QuietSteps DEF CheckRepost, CheckVote, Fail
<1>5. CASE BeginDelete(t)
  BY <1>1, <1>2, <1>5, QuietSteps DEF BeginDelete, NothingLeft, Stage
<1>6. CASE Delete(t) \/ Cascade(t) \/ Count(t)
  BY <1>1, <1>6, QuietSteps DEF Delete, Cascade, Count, Stage
<1>7. CASE InsertLike(t) \/ InsertRow(t) \/ InsertVote(t)
  BY <1>1, <1>2, <1>7, QuietSteps DEF InsertLike, InsertRow, InsertVote, Stage
<1> QED
  BY <1>3, <1>4, <1>5, <1>6, <1>7

\* ... and each that commits.
Committing(t) == Inside(t) /\ at[t] = "commit" /\ at'[t] = "done" /\ hit'[t] = hit[t] /\ UNCHANGED found

LEMMA LikeCommitted ==
  ASSUME Typed, NEW t \in Tx, CommitLike(t)
  PROVE  LET p == subject[t]
         IN  /\ Committing(t)
             /\ kind[t] = "like" /\ p \in Row /\ user[t] \in User
             /\ UNCHANGED <<reposts, comments, votes, repostCount, commentCount, voteCount, totalVotes>>
             /\ likes' = IF hit[t] = {} THEN likes
                         ELSE IF found[t] THEN likes \ {<<p, user[t]>>} ELSE likes \cup {<<p, user[t]>>}
             /\ likeCount' \in [Row -> Int]
             /\ \A q \in Row : likeCount'[q] = IF q = p /\ Exists(p)
                                               THEN IF found[t] THEN likeCount[q] - 1 ELSE likeCount[q] + 1
                                               ELSE likeCount[q]
             /\ found[t] => CommitDelete(t)
             /\ ~found[t] => \A s \in Tx \ {t} : hit'[s] = hit[s] /\ at'[s] = at[s]
<1>1. kind[t] = "like" /\ at[t] = "commit" /\ Open(t)
  BY DEF CommitLike, Open
<1>2. subject[t] \in Row /\ user[t] \in User
  BY <1>1 DEF Typed, Arguments
<1>3. found[t] => CommitDelete(t)
  BY DEF CommitLike
<1>4. ~found[t] => Goto(t, "done") /\ UNCHANGED hit
  BY DEF CommitLike
<1>5. Committing(t)
  <2>1. CASE found[t]
    BY <1>1, <1>3, <2>1, DeleteCommitted
    DEF CommitLike, Committing, Inside, NothingLeft, argVars, Typed, TypeOK
  <2>2. CASE ~found[t]
    BY <1>1, <1>4, <2>2 DEF CommitLike, Committing, Inside, Goto, argVars, Typed, TypeOK, Stage
  <2> QED
    BY <2>1, <2>2
<1>6. likeCount \in [Row -> Int] /\ likeCount[subject[t]] \in Int
  BY <1>2 DEF Typed, TypeOK
<1>7. likeCount' = WithCount(likeCount, subject[t],
                             IF found[t] THEN likeCount[subject[t]] - 1 ELSE likeCount[subject[t]] + 1)
  BY DEF CommitLike
<1>8. ~found[t] => \A s \in Tx \ {t} : hit'[s] = hit[s] /\ at'[s] = at[s]
  BY <1>4 DEF Goto, Typed, TypeOK
<1>9. /\ likeCount' \in [Row -> Int]
      /\ \A q \in Row : likeCount'[q] = IF q = subject[t] /\ Exists(subject[t])
                                        THEN IF found[t] THEN likeCount[q] - 1 ELSE likeCount[q] + 1
                                        ELSE likeCount[q]
  <2> DEFINE n == IF found[t] THEN likeCount[subject[t]] - 1 ELSE likeCount[subject[t]] + 1
  <2>1. n \in Int
    BY <1>6
  <2>2. likeCount' = WithCount(likeCount, subject[t], n)
    BY <1>7
  <2> HIDE DEF n
  <2>3. /\ likeCount' \in [Row -> Int]
        /\ \A q \in Row : likeCount'[q] = IF q = subject[t] /\ Exists(subject[t]) THEN n ELSE likeCount[q]
    BY <1>2, <1>6, <2>1, <2>2 DEF WithCount
  <2> QED
    BY <2>3 DEF n
<1>10. likes' = IF hit[t] = {} THEN likes
                ELSE IF found[t] THEN likes \ {<<subject[t], user[t]>>}
                ELSE likes \cup {<<subject[t], user[t]>>}
  BY DEF CommitLike
<1>11. UNCHANGED <<reposts, comments, votes, repostCount, commentCount, voteCount, totalVotes>>
  BY DEF CommitLike
<1> QED
  BY <1>1, <1>2, <1>3, <1>5, <1>8, <1>9, <1>10, <1>11

LEMMA RepostCommitted ==
  ASSUME Typed, NEW t \in Tx, CommitRepost(t)
  PROVE  LET p == subject[t]
         IN  /\ Committing(t)
             /\ kind[t] = "repost" /\ p \in Row /\ user[t] \in User
             /\ UNCHANGED <<likes, comments, votes, likeCount, commentCount, voteCount, totalVotes, hit>>
             /\ reposts' = reposts \cup {t}
             /\ repostCount' \in [Row -> Nat]
             /\ \A q \in Row : repostCount'[q] = IF q = p /\ Exists(p) THEN repostCount[q] + 1
                                                 ELSE repostCount[q]
             /\ \A s \in Tx \ {t} : at'[s] = at[s]
<1>1. kind[t] = "repost" /\ at[t] = "commit" /\ Open(t)
  BY DEF CommitRepost, Open
<1>2. subject[t] \in Row /\ user[t] \in User
  BY <1>1 DEF Typed, Arguments
<1>3. Committing(t) /\ \A s \in Tx \ {t} : at'[s] = at[s]
  BY <1>1 DEF CommitRepost, Committing, Inside, Goto, argVars, Typed, TypeOK, Stage
<1>4. repostCount \in [Row -> Nat] /\ repostCount[subject[t]] \in Nat
  BY <1>2 DEF Typed, TypeOK
<1>5. repostCount' = WithCount(repostCount, subject[t], repostCount[subject[t]] + 1)
  BY DEF CommitRepost
<1>6. /\ repostCount' \in [Row -> Nat]
      /\ \A q \in Row : repostCount'[q] = IF q = subject[t] /\ Exists(subject[t])
                                          THEN repostCount[subject[t]] + 1 ELSE repostCount[q]
  BY <1>2, <1>4, <1>5 DEF WithCount
<1>7. /\ UNCHANGED <<likes, comments, votes, likeCount, commentCount, voteCount, totalVotes, hit>>
      /\ reposts' = reposts \cup {t}
  BY DEF CommitRepost
<1> QED
  BY <1>1, <1>2, <1>3, <1>6, <1>7

LEMMA UnrepostCommitted ==
  ASSUME Typed, NEW t \in Tx, CommitUnrepost(t)
  PROVE  LET p == subject[t]
         IN  /\ Committing(t)
             /\ kind[t] = "unrepost" /\ p \in Row /\ user[t] \in User
             /\ UNCHANGED <<votes, likeCount, commentCount, voteCount, totalVotes>>
             /\ reposts' = reposts \ hit[t]
             /\ likes' = {l \in likes : l[1] \notin hit[t]}
             /\ comments' \in [Row -> Nat]
             /\ \A q \in Row : comments'[q] = IF q \in hit[t] THEN 0 ELSE comments[q]
             /\ repostCount' \in [Row -> Nat]
             /\ \A q \in Row : repostCount'[q] = IF q = p /\ Exists(p)
                                                 THEN IF repostCount[q] > 1 THEN repostCount[q] - 1 ELSE 0
                                                 ELSE repostCount[q]
             /\ CommitDelete(t)
<1>1. kind[t] = "unrepost" /\ at[t] = "commit" /\ Open(t) /\ CommitDelete(t)
  BY DEF CommitUnrepost, Open
<1>2. subject[t] \in Row /\ user[t] \in User
  BY <1>1 DEF Typed, Arguments
<1>3. Committing(t)
  BY <1>1, DeleteCommitted DEF CommitUnrepost, Committing, Inside, NothingLeft, argVars, Typed, TypeOK
<1>4. repostCount \in [Row -> Nat] /\ repostCount[subject[t]] \in Nat /\ comments \in [Row -> Nat]
  BY <1>2 DEF Typed, TypeOK
<1>5. comments' \in [Row -> Nat] /\ \A q \in Row : comments'[q] = IF q \in hit[t] THEN 0 ELSE comments[q]
  BY <1>4 DEF CommitUnrepost
<1>6. PICK n \in Nat : /\ n = IF repostCount[subject[t]] > 1 THEN repostCount[subject[t]] - 1 ELSE 0
                       /\ repostCount' = WithCount(repostCount, subject[t], n)
  BY <1>4 DEF CommitUnrepost
<1>7. /\ repostCount' \in [Row -> Nat]
      /\ \A q \in Row : repostCount'[q] = IF q = subject[t] /\ Exists(subject[t]) THEN n ELSE repostCount[q]
  BY <1>2, <1>4, <1>6 DEF WithCount
<1>8. /\ UNCHANGED <<votes, likeCount, commentCount, voteCount, totalVotes>>
      /\ reposts' = reposts \ hit[t]
      /\ likes' = {l \in likes : l[1] \notin hit[t]}
  BY DEF CommitUnrepost
<1> QED
  BY <1>1, <1>2, <1>3, <1>5, <1>6, <1>7, <1>8

LEMMA CommentCommitted ==
  ASSUME Typed, NEW t \in Tx, CommitComment(t)
  PROVE  LET p == subject[t]
         IN  /\ Committing(t)
             /\ kind[t] = "comment" /\ p \in Row
             /\ UNCHANGED <<likes, reposts, votes, likeCount, repostCount, voteCount, totalVotes, hit>>
             /\ comments' \in [Row -> Nat] /\ commentCount' \in [Row -> Nat]
             /\ \A q \in Row :
                  /\ comments'[q] = IF q = p THEN comments[q] + 1 ELSE comments[q]
                  /\ commentCount'[q] = IF q = p /\ Exists(p) THEN commentCount[q] + 1 ELSE commentCount[q]
             /\ \A s \in Tx \ {t} : at'[s] = at[s]
<1>1. kind[t] = "comment" /\ at[t] = "commit" /\ Open(t)
  BY DEF CommitComment, Open
<1>2. subject[t] \in Row
  BY <1>1 DEF Typed, Arguments
<1>3. Committing(t) /\ \A s \in Tx \ {t} : at'[s] = at[s]
  BY <1>1 DEF CommitComment, Committing, Inside, Goto, argVars, Typed, TypeOK, Stage
<1>4. /\ commentCount \in [Row -> Nat] /\ commentCount[subject[t]] \in Nat
      /\ comments \in [Row -> Nat] /\ comments[subject[t]] \in Nat
  BY <1>2 DEF Typed, TypeOK
<1>5. /\ comments' \in [Row -> Nat]
      /\ \A q \in Row : comments'[q] = IF q = subject[t] THEN comments[q] + 1 ELSE comments[q]
  BY <1>2, <1>4 DEF CommitComment
<1>6. commentCount' = WithCount(commentCount, subject[t], commentCount[subject[t]] + 1)
  BY DEF CommitComment
<1>7. /\ commentCount' \in [Row -> Nat]
      /\ \A q \in Row : commentCount'[q] = IF q = subject[t] /\ Exists(subject[t])
                                           THEN commentCount[subject[t]] + 1 ELSE commentCount[q]
  BY <1>2, <1>4, <1>6 DEF WithCount
<1>8. UNCHANGED <<likes, reposts, votes, likeCount, repostCount, voteCount, totalVotes, hit>>
  BY DEF CommitComment
<1> QED
  BY <1>1, <1>2, <1>3, <1>5, <1>7, <1>8

LEMMA VoteCommitted ==
  ASSUME Typed, NEW t \in Tx, CommitVote(t)
  PROVE  /\ Committing(t)
         /\ kind[t] = "vote" /\ subject[t] \in Poll /\ user[t] \in User /\ option[t] \in Option
         /\ UNCHANGED <<likes, reposts, comments, likeCount, repostCount, commentCount, hit>>
         /\ votes' \in [Poll -> [User -> Option \cup {None}]]
         /\ voteCount' \in [Option -> Nat] /\ totalVotes' \in [Poll -> Nat]
         /\ \A q \in Poll, u \in User :
              votes'[q][u] = IF q = subject[t] /\ u = user[t] THEN option[t] ELSE votes[q][u]
         /\ \A q \in Poll : totalVotes'[q] = IF q = subject[t] THEN totalVotes[q] + 1 ELSE totalVotes[q]
         /\ \A o \in Option : voteCount'[o] = IF o = option[t] THEN voteCount[o] + 1 ELSE voteCount[o]
         /\ \A s \in Tx \ {t} : at'[s] = at[s]
<1>1. kind[t] = "vote" /\ at[t] = "commit" /\ Open(t)
  BY DEF CommitVote, Open
<1>2. subject[t] \in Poll /\ user[t] \in User /\ option[t] \in Option
  BY <1>1 DEF Typed, Arguments
<1>3. Committing(t) /\ \A s \in Tx \ {t} : at'[s] = at[s]
  BY <1>1 DEF CommitVote, Committing, Inside, Goto, argVars, Typed, TypeOK, Stage
<1>4. votes' = [votes EXCEPT ![subject[t]][user[t]] = option[t]]
  BY DEF CommitVote
<1>5. votes \in [Poll -> [User -> Option \cup {None}]]
  BY DEF Typed, TypeOK
<1>6. /\ votes' \in [Poll -> [User -> Option \cup {None}]]
      /\ \A q \in Poll, u \in User :
           votes'[q][u] = IF q = subject[t] /\ u = user[t] THEN option[t] ELSE votes[q][u]
  BY <1>2, <1>4, <1>5, NestedExcept
<1>7. /\ voteCount' \in [Option -> Nat] /\ totalVotes' \in [Poll -> Nat]
      /\ \A q \in Poll : totalVotes'[q] = IF q = subject[t] THEN totalVotes[q] + 1 ELSE totalVotes[q]
      /\ \A o \in Option : voteCount'[o] = IF o = option[t] THEN voteCount[o] + 1 ELSE voteCount[o]
  BY <1>2 DEF CommitVote, Typed, TypeOK
<1> QED
  BY <1>1, <1>2, <1>3, <1>6, <1>7 DEF CommitVote
-----------------------------------------------------------------------------
(* Types *)

\* They hold when the model begins.
LEMMA InitTyped == TimelineAssumption /\ Init => Typed /\ Rooted
<1> SUFFICES ASSUME TimelineAssumption, Init PROVE Typed /\ Rooted
  OBVIOUS
<1> USE DEF TimelineAssumption
<1>1. ASSUME NEW p \in Row
      PROVE  /\ Cardinality({l \in Fans : l[1] = p}) \in Nat
             /\ Cardinality({r \in Old : OriginalOf[r] = p}) \in Nat
  <2>1. IsFiniteSet({l \in Fans : l[1] = p}) /\ IsFiniteSet({r \in Old : OriginalOf[r] = p})
    BY FS_Subset
  <2> QED
    BY <2>1, FS_CardinalityType
<1>2. TypeOK
  <2> DEFINE fans(p) == Cardinality({l \in Fans : l[1] = p})
             olds(p) == Cardinality({r \in Old : OriginalOf[r] = p})
  <2>1. likeCount \in [Row -> Int] /\ repostCount \in [Row -> Nat]
    <3>1. likeCount = [p \in Row |-> fans(p)] /\ repostCount = [p \in Row |-> olds(p)]
      BY DEF Init
    <3>2. \A p \in Row : fans(p) \in Int /\ olds(p) \in Nat
      BY <1>1
    <3> HIDE DEF fans, olds
    <3> QED
      BY <3>1, <3>2
  <2>2. votes \in [Poll -> [User -> Option \cup {None}]]
    BY DEF Init
  <2>3. likes \subseteq Row \X User /\ reposts \subseteq Tx
    BY DEF Init, Row
  <2>4. /\ comments \in [Row -> Nat] /\ commentCount \in [Row -> Nat]
        /\ voteCount \in [Option -> Nat] /\ totalVotes \in [Poll -> Nat]
    BY DEF Init
  <2>5. /\ kind \in [Tx -> {"like", "repost", "unrepost", "comment", "vote", None}]
        /\ at \in [Tx -> {"idle", "check", "write", "delete", "cascade", "count", "total", "commit",
                          "done", "aborted"}]
        /\ user \in [Tx -> User \cup {None}]
        /\ subject \in [Tx -> Row \cup Poll \cup {None}]
    BY DEF Init, Row
  <2>6. /\ option \in [Tx -> Option \cup {None}]
        /\ found \in [Tx -> BOOLEAN]
        /\ hit \in [Tx -> SUBSET (Row \cup Poll)]
        /\ doubled \in BOOLEAN
    BY DEF Init
  <2> QED
    BY <2>1, <2>2, <2>3, <2>4, <2>5, <2>6 DEF TypeOK
<1>3. Arguments
  BY DEF Init, Arguments, Open
<1>4. ASSUME NEW r \in Tx, at[r] # "done"
      PROVE  likeCount[r] = 0 /\ repostCount[r] = 0 /\ comments[r] = 0 /\ commentCount[r] = 0
  <2>1. r \notin Old /\ r \in Row /\ r \notin Post
    BY <1>4 DEF Init, Row
  <2>2. {l \in Fans : l[1] = r} = {} /\ {s \in Old : OriginalOf[s] = r} = {}
    BY <2>1
  <2> QED
    BY <2>1, <2>2, FS_EmptySet DEF Init
<1>5. \A t, r \in Tx : subject[t] = r => at[r] = "done"
  BY DEF Init, Row
<1>6. \A r \in reposts : kind[r] = "repost" /\ at[r] = "done"
  BY DEF Init
<1>7. \A l \in likes : l[1] \in Tx => at[l[1]] = "done"
  BY DEF Init
<1> QED
  BY <1>2, <1>3, <1>4, <1>5, <1>6, <1>7 DEF Typed, Rooted

\* A request that has ended stays so.
LEMMA InsideStays ==
  ASSUME Typed, NEW t \in Tx, Inside(t)
  PROVE  /\ \A s \in Tx : Open(s)' => Open(s)
         /\ \A s \in Tx : at[s] = "done" => at'[s] = "done"
         /\ Arguments'
<1>1. \A s \in Tx : Open(s)' => Open(s)
  BY DEF Inside, Open
<1>2. \A s \in Tx : at[s] = "done" => at'[s] = "done"
  BY DEF Inside, Open
<1> QED
  BY <1>1, <1>2 DEF Inside, Arguments, Typed

\* Every step keeps the types.
LEMMA StepTyped ==
  ASSUME TimelineAssumption, Typed, [Next]_vars
  PROVE  Typed'
<1> USE DEF Typed
<1>1. ASSUME NEW t \in Tx, Start(t) PROVE Typed'
  <2>1. PICK u \in User, k \in Kind, x \in Row \cup Poll, o \in Option \cup {None} :
          /\ Begin(t, k, u, x, o)
          /\ IF k = "vote" THEN x \in Poll /\ o \in Option ELSE x \in Post \cup reposts /\ o = None
    BY <1>1, Started
  <2>2. TypeOK'
    BY <2>1 DEF TypeOK, Begin, Goto, rowVars, countVars, Kind
  <2>3. Arguments'
    <3>1. k # "vote" => x \in Row
      BY <2>1 DEF TypeOK, Row
    <3> QED
      BY <2>1, <3>1, Begun DEF Arguments, Open, Kind
  <2> QED
    BY <2>2, <2>3
<1>2. ASSUME NEW t \in Tx, Quiet(t) PROVE Typed'
  <2>1. TypeOK'
    BY <1>2 DEF TypeOK, Quiet, Inside, Stage, rowVars, countVars
  <2> QED
    BY <1>2, <2>1, InsideStays DEF Quiet
<1>3. ASSUME NEW t \in Tx, CommitLike(t) PROVE Typed'
  <2>0. likes' \subseteq Row \X User
    <3>1. likes \subseteq Row \X User /\ <<subject[t], user[t]>> \in Row \X User
      BY <1>3, LikeCommitted DEF TypeOK
    <3>2. \A l \in likes' : l \in likes \/ l = <<subject[t], user[t]>>
      BY <1>3, LikeCommitted
    <3> QED
      BY <3>1, <3>2
  <2>1. TypeOK'
    BY <1>3, <2>0, LikeCommitted DEF TypeOK, Committing, Inside, Stage
  <2> QED
    BY <1>3, <2>1, LikeCommitted, InsideStays DEF Committing
<1>4. ASSUME NEW t \in Tx, CommitRepost(t) PROVE Typed'
  <2>1. TypeOK'
    BY <1>4, RepostCommitted DEF TypeOK, Committing, Inside, Stage
  <2> QED
    BY <1>4, <2>1, RepostCommitted, InsideStays DEF Committing
<1>5. ASSUME NEW t \in Tx, CommitUnrepost(t) PROVE Typed'
  <2>1. TypeOK'
    BY <1>5, UnrepostCommitted DEF TypeOK, Committing, Inside, Stage
  <2> QED
    BY <1>5, <2>1, UnrepostCommitted, InsideStays DEF Committing
<1>6. ASSUME NEW t \in Tx, CommitComment(t) PROVE Typed'
  <2>1. TypeOK'
    BY <1>6, CommentCommitted DEF TypeOK, Committing, Inside, Stage
  <2> QED
    BY <1>6, <2>1, CommentCommitted, InsideStays DEF Committing
<1>7. ASSUME NEW t \in Tx, CommitVote(t) PROVE Typed'
  <2>1. TypeOK'
    BY <1>7, VoteCommitted DEF TypeOK, Committing, Inside, Stage
  <2> QED
    BY <1>7, <2>1, VoteCommitted, InsideStays DEF Committing
<1>8. ASSUME UNCHANGED vars PROVE Typed'
  BY <1>8 DEF vars, rowVars, countVars, argVars, TypeOK, Arguments, Open
<1> QED
  BY <1>1, <1>2, <1>3, <1>4, <1>5, <1>6, <1>7, <1>8, QuietStep DEF Next, Step

\* The ways a step may be taken.
LEMMA Steps ==
  ASSUME Typed, [Next]_vars
  PROVE  \/ \E t \in Tx : Start(t)
         \/ \E t \in Tx : Quiet(t) /\ \/ CheckLike(t) \/ CheckRepost(t) \/ CheckVote(t) \/ BeginDelete(t)
                                      \/ Delete(t) \/ Cascade(t) \/ InsertLike(t) \/ InsertRow(t)
                                      \/ InsertVote(t) \/ Count(t) \/ Fail(t)
         \/ \E t \in Tx : \/ CommitLike(t) \/ CommitRepost(t) \/ CommitUnrepost(t)
                          \/ CommitComment(t) \/ CommitVote(t)
         \/ UNCHANGED vars
  BY QuietStep DEF Next, Step

\* A repost is made once.
LEMMA StepRooted ==
  ASSUME TimelineAssumption, Typed, Rooted, Claims, [Next]_vars
  PROVE  Rooted'
<1>1. ASSUME NEW t \in Tx, Start(t) PROVE Rooted'
  <2>1. PICK u \in User, k \in Kind, x \in Row \cup Poll, o \in Option \cup {None} :
          /\ Begin(t, k, u, x, o)
          /\ IF k = "vote" THEN x \in Poll /\ o \in Option ELSE x \in Post \cup reposts /\ o = None
    BY <1>1, Started
  <2>2. x \in Tx => x \in reposts
    BY <2>1 DEF TimelineAssumption, Row
  <2>3. \A r \in Tx : at[r] = "done" => at'[r] = "done" /\ kind'[r] = kind[r]
    BY <2>1, Begun
  <2>4. /\ UNCHANGED <<likes, reposts, likeCount, repostCount, comments, commentCount>>
        /\ \A s \in Tx : subject'[s] = IF s = t THEN x ELSE subject[s]
    BY <2>1, Begun DEF rowVars, countVars
  <2>5. reposts \subseteq Tx
    BY DEF Typed, TypeOK
  <2> QED
    BY <2>2, <2>3, <2>4, <2>5 DEF Rooted
<1>2. ASSUME NEW t \in Tx, Quiet(t) PROVE Rooted'
  BY <1>2, InsideStays DEF Rooted, Quiet, Inside, rowVars, countVars, Typed, TypeOK
\* A commit adds to what is about a row that is there; a new row has nothing.
<1>3. ASSUME NEW t \in Tx, Committing(t),
             \A r \in reposts' : r \in reposts \/ (r = t /\ kind[t] = "repost"),
             \A l \in likes' : l \in likes \/ l[1] = subject[t],
             \A r \in Tx : r # subject[t] =>
               /\ likeCount'[r] = likeCount[r] /\ repostCount'[r] = repostCount[r]
               /\ comments'[r] = comments[r] \/ comments'[r] = 0
               /\ commentCount'[r] = commentCount[r]
      PROVE  Rooted'
  <2>1. /\ UNCHANGED <<kind, subject>> /\ at'[t] = "done"
        /\ \A r \in Tx : at[r] = "done" => at'[r] = "done"
    BY <1>3, InsideStays DEF Committing, Inside
  <2>2. reposts \subseteq Tx
    BY DEF Typed, TypeOK
  <2> QED
    BY <1>3, <2>1, <2>2 DEF Rooted
<1>4. \A r \in Tx : r \in Row
  BY DEF Row
<1>5. ASSUME NEW t \in Tx, CommitLike(t) PROVE Rooted'
  BY <1>3, <1>4, <1>5, LikeCommitted
<1>6. ASSUME NEW t \in Tx, CommitRepost(t) PROVE Rooted'
  BY <1>3, <1>4, <1>6, RepostCommitted
<1>7. ASSUME NEW t \in Tx, CommitUnrepost(t) PROVE Rooted'
  BY <1>3, <1>4, <1>7, UnrepostCommitted
<1>8. ASSUME NEW t \in Tx, CommitComment(t) PROVE Rooted'
  BY <1>3, <1>4, <1>8, CommentCommitted
<1>9. ASSUME NEW t \in Tx, CommitVote(t) PROVE Rooted'
  BY <1>3, <1>4, <1>9, VoteCommitted
<1>10. ASSUME UNCHANGED vars PROVE Rooted'
  BY <1>10 DEF vars, rowVars, countVars, argVars, Rooted
<1> QED
  BY <1>1, <1>2, <1>5, <1>6, <1>7, <1>8, <1>9, <1>10, Steps
-----------------------------------------------------------------------------
(* Rows and rivals *)

\* Nobody begins to write what a rival has written.
LEMMA ExclusiveKept ==
  ASSUME Exclusive, UNCHANGED <<kind, user, subject>>, NEW t \in Tx,
         \A s \in Tx \ {t} : Writing(s)' => hit'[s] = {} \/ (Writing(s) /\ hit'[s] = hit[s]),
         Writing(t)' => \/ hit'[t] = {}
                        \/ Writing(t) /\ hit'[t] = hit[t]
                        \/ \A r \in Rivals(t) : Writing(r) => hit[r] \cap hit'[t] = {}
  PROVE  Exclusive'
<1> SUFFICES ASSUME NEW a \in Tx, NEW b \in Tx, b \in Rivals(a), Writing(a)', Writing(b)'
             PROVE  hit'[b] \cap hit'[a] = {}
  BY DEF Exclusive, Rivals
<1>1. a \in Rivals(b) /\ a # b
  BY DEF Rivals
<1>2. CASE a = t
  BY <1>1, <1>2 DEF Exclusive
<1>3. CASE b = t
  BY <1>1, <1>3 DEF Exclusive
<1>4. CASE a # t /\ b # t
  BY <1>1, <1>4 DEF Exclusive
<1> QED
  BY <1>2, <1>3, <1>4

\* A statement that needs the row or its key finds no rival that has written it.
LEMMA FreeOfRivals ==
  ASSUME Claims, NEW t \in Tx, Free(t), NEW r \in Rivals(t), Writing(r)
  PROVE  /\ NeedsKey(t) => hit[r] = {}
         /\ kind[t] = "unrepost" /\ at[t] = "delete" => hit[r] \cap hit[t] = {}
<1>1. r \in Tx /\ r # t /\ kind[r] = kind[t] /\ ~WaitsFor(t, r) /\ Claim(r)
  BY DEF Rivals, Free, Claims
<1>2. NeedsKey(t) => hit[r] = {}
  BY <1>1 DEF WaitsFor, NeedsKey, HoldsKey, Writing, Claim
<1>3. kind[t] = "unrepost" /\ at[t] = "delete" => hit[r] \cap hit[t] = {}
  BY <1>1 DEF WaitsFor, LocksPost, Deletes, Writing, Claim
<1> QED
  BY <1>2, <1>3

\* A step keeps rivals apart.
LEMMA StepExclusive ==
  ASSUME Typed, Exclusive, Claims, [Next]_vars
  PROVE  Exclusive'
<1>1. ASSUME NEW t \in Tx, Start(t) PROVE Exclusive'
  <2>1. PICK u \in User, k \in Kind, x \in Row \cup Poll, o \in Option \cup {None} : Begin(t, k, u, x, o)
    BY <1>1, Started
  <2>2. /\ ~Writing(t)'
        /\ \A s \in Tx \ {t} : /\ Writing(s)' <=> Writing(s)
                               /\ hit'[s] = hit[s] /\ kind'[s] = kind[s] /\ user'[s] = user[s]
                               /\ subject'[s] = subject[s]
    BY <2>1, Begun DEF Writing
  <2> QED
    BY <2>2 DEF Exclusive, Rivals
<1>2. ASSUME NEW t \in Tx, Quiet(t), CheckLike(t) \/ CheckVote(t) \/ CheckRepost(t) \/ Fail(t)
      PROVE  Exclusive'
  <2>1. ~Writing(t)'
    BY <1>2 DEF CheckLike, CheckVote, CheckRepost, Fail, Abort, Goto, Writing, Typed, TypeOK
  <2> QED
    BY <1>2, <2>1, ExclusiveKept DEF Quiet, Inside, Writing
<1>3. ASSUME NEW t \in Tx, Quiet(t), BeginDelete(t) PROVE Exclusive'
  <2>1. Writing(t)' => hit'[t] = {}
    BY <1>3 DEF BeginDelete, Touch, Goto, NothingLeft, Writing, Typed, TypeOK
  <2> QED
    BY <1>3, <2>1, ExclusiveKept DEF Quiet, Inside, Writing
<1>4. ASSUME NEW t \in Tx, Quiet(t), Delete(t) PROVE Exclusive'
  <2>1. hit'[t] = hit[t]
    BY <1>4 DEF Delete, Touch, Typed, TypeOK
  <2>2. NeedsKey(t) \/ (kind[t] = "unrepost" /\ at[t] = "delete")
    BY <1>4 DEF Delete, Claims, Claim, Removes, NeedsKey
  <2>3. \A r \in Rivals(t) : Writing(r) => hit[r] \cap hit'[t] = {}
    BY <1>4, <2>1, <2>2, FreeOfRivals DEF Delete
  <2> QED
    BY <1>4, <2>3, ExclusiveKept DEF Quiet, Inside, Writing
<1>5. ASSUME NEW t \in Tx, Quiet(t), Cascade(t) \/ Count(t) PROVE Exclusive'
  <2>1. hit'[t] = hit[t] /\ Writing(t)
    BY <1>5 DEF Cascade, Count, Touch, Writing, Typed, TypeOK
  <2> QED
    BY <1>5, <2>1, ExclusiveKept DEF Quiet, Inside, Writing
<1>6. ASSUME NEW t \in Tx, Quiet(t), InsertLike(t) \/ InsertVote(t) PROVE Exclusive'
  <2>1. NeedsKey(t) /\ Free(t)
    BY <1>6 DEF InsertLike, InsertVote, NeedsKey
  <2>2. \A r \in Rivals(t) : Writing(r) => hit[r] \cap hit'[t] = {}
    BY <2>1, FreeOfRivals
  <2> QED
    BY <1>6, <2>2, ExclusiveKept DEF Quiet, Inside, Writing
<1>7. ASSUME NEW t \in Tx, Quiet(t), InsertRow(t) PROVE Exclusive'
  <2>1. Writing(t)' => hit'[t] = {}
    BY <1>7 DEF InsertRow, Touch, Abort, Goto, Writing, Typed, TypeOK
  <2> QED
    BY <1>7, <2>1, ExclusiveKept DEF Quiet, Inside, Writing
<1>8. ASSUME NEW t \in Tx, CommitLike(t) PROVE Exclusive'
  <2>1. CASE found[t]
    BY <1>8, <2>1, LikeCommitted, DeleteCommitted, ExclusiveKept
    DEF Committing, Inside, Writing, NothingLeft
  <2>2. CASE ~found[t]
    BY <1>8, <2>2, LikeCommitted, ExclusiveKept DEF Committing, Inside, Writing
  <2> QED
    BY <2>1, <2>2
<1>9. ASSUME NEW t \in Tx, CommitRepost(t) \/ CommitComment(t) \/ CommitVote(t) PROVE Exclusive'
  BY <1>9, RepostCommitted, CommentCommitted, VoteCommitted, ExclusiveKept
  DEF Committing, Inside, Writing
<1>10. ASSUME NEW t \in Tx, CommitUnrepost(t) PROVE Exclusive'
  BY <1>10, UnrepostCommitted, DeleteCommitted, ExclusiveKept
  DEF Committing, Inside, Writing, NothingLeft
<1>11. ASSUME UNCHANGED vars PROVE Exclusive'
  BY <1>11 DEF vars, argVars, Exclusive, Writing, Rivals
<1> QED
  BY <1>1, <1>2, <1>3, <1>4, <1>5, <1>6, <1>7, <1>8, <1>9, <1>10, <1>11, Steps
-----------------------------------------------------------------------------
\* A request claims nothing before its first write, nor after its end.
LEMMA NothingClaimed ==
  ASSUME NEW r \in Tx, at'[r] \in {"idle", "check", "write", "done", "aborted"}
  PROVE  Claim(r)'
  BY DEF Claim

\* What a request claims stays true while it does nothing and its rows stay.
LEMMA ClaimKept ==
  ASSUME NEW r \in Tx, Claim(r),
         kind'[r] = kind[r], user'[r] = user[r], subject'[r] = subject[r],
         at'[r] = at[r], hit'[r] = hit[r], found'[r] = found[r],
         kind[r] = "like" /\ at[r] \in {"delete", "count", "commit"} =>
           IF found[r] THEN Liked(r)' \/ (at[r] # "delete" /\ ~Exists(subject[r])')
                       ELSE Liked(r)' => Liked(r),
         kind[r] = "unrepost" /\ at[r] \in {"delete", "cascade", "count", "commit"} =>
           \A x \in hit[r] : x \in reposts' /\ subject'[x] = subject[x] /\ user'[x] = user[x],
         kind[r] = "vote" /\ at[r] \in {"count", "total", "commit"} => (Voted(r)' => Voted(r))
  PROVE  Claim(r)'
<1>1. CASE kind[r] = "like"
  BY <1>1 DEF Claim, Removes
<1>2. CASE kind[r] = "unrepost"
  BY <1>2 DEF Claim, Removes
<1>3. CASE kind[r] = "vote"
  BY <1>3 DEF Claim, Removes
<1>4. CASE kind[r] \notin {"like", "unrepost", "vote"}
  BY <1>4 DEF Claim, Removes
<1> QED
  BY <1>1, <1>2, <1>3, <1>4

\* ... as it does when no row changes at all.
LEMMA ClaimUntouched ==
  ASSUME NEW r \in Tx, Claim(r),
         kind'[r] = kind[r], user'[r] = user[r], subject'[r] = subject[r],
         at'[r] = at[r], hit'[r] = hit[r], found'[r] = found[r],
         \A x \in reposts : x \in reposts' /\ subject'[x] = subject[x] /\ user'[x] = user[x],
         UNCHANGED <<likes, votes>>,
         Exists(subject[r])' => Exists(subject[r])
  PROVE  Claim(r)'
<1>1. (Liked(r)' <=> Liked(r)) /\ (Voted(r)' <=> Voted(r))
  BY DEF Liked, Voted
<1>2. CASE kind[r] = "like" /\ found[r] /\ at[r] \in {"count", "commit"} /\ hit[r] = {}
  BY <1>2 DEF Claim, Removes
<1>3. CASE ~(kind[r] = "like" /\ found[r] /\ at[r] \in {"count", "commit"} /\ hit[r] = {})
  <2>1. kind[r] = "like" /\ at[r] \in {"delete", "count", "commit"} =>
          IF found[r] THEN Liked(r)' \/ (at[r] # "delete" /\ ~Exists(subject[r])')
                      ELSE Liked(r)' => Liked(r)
    BY <1>1, <1>3 DEF Claim
  <2>2. kind[r] = "unrepost" /\ at[r] \in {"delete", "cascade", "count", "commit"} =>
          \A x \in hit[r] : x \in reposts' /\ subject'[x] = subject[x] /\ user'[x] = user[x]
    BY DEF Claim
  <2> QED
    BY <1>1, <2>1, <2>2, ClaimKept
<1> QED
  BY <1>2, <1>3

\* A step keeps what the requests claim of their rows.
LEMMA StepClaims ==
  ASSUME TimelineAssumption, Typed, Rooted, Exclusive, Claims, [Next]_vars
  PROVE  Claims'
<1>1. ASSUME NEW t \in Tx, Start(t) PROVE Claims'
  <2>1. PICK u \in User, k \in Kind, x \in Row \cup Poll, o \in Option \cup {None} : Begin(t, k, u, x, o)
    BY <1>1, Started
  <2>2. Claim(t)'
    BY <2>1, Begun, NothingClaimed
  <2> SUFFICES ASSUME NEW r \in Tx \ {t} PROVE Claim(r)'
    BY <2>2 DEF Claims
  <2>3. t \notin reposts /\ reposts \subseteq Tx
    BY <2>1, Begun DEF Rooted, Typed, TypeOK
  <2>4. /\ kind'[r] = kind[r] /\ user'[r] = user[r] /\ subject'[r] = subject[r]
        /\ at'[r] = at[r] /\ hit'[r] = hit[r] /\ found'[r] = found[r]
        /\ \A q \in reposts : q \in reposts' /\ subject'[q] = subject[q] /\ user'[q] = user[q]
        /\ UNCHANGED <<likes, votes, reposts>>
    BY <2>1, <2>3, Begun DEF rowVars
  <2> QED
    BY <2>4, ClaimUntouched DEF Claims, Exists
<1>2. ASSUME NEW t \in Tx, Quiet(t), Claim(t)' PROVE Claims'
  <2> SUFFICES ASSUME NEW r \in Tx \ {t} PROVE Claim(r)'
    BY <1>2 DEF Claims
  <2> QED
    BY <1>2, ClaimUntouched DEF Claims, Quiet, Inside, rowVars, Exists
<1>3. ASSUME NEW t \in Tx, Quiet(t), Abort(t) PROVE Claims'
  BY <1>2, <1>3, NothingClaimed DEF Abort, Goto, Typed, TypeOK
<1>4. ASSUME NEW t \in Tx, Quiet(t), CheckLike(t) \/ CheckRepost(t) \/ CheckVote(t) PROVE Claims'
  <2>1. at'[t] \in {"write", "aborted"}
    BY <1>4 DEF CheckLike, CheckRepost, CheckVote, Abort, Goto, Typed, TypeOK
  <2> QED
    BY <1>2, <1>4, <2>1, NothingClaimed
<1>5. ASSUME NEW t \in Tx, Quiet(t), BeginDelete(t) PROVE Claims'
  <2> DEFINE seen == IF kind[t] = "unrepost" THEN Mine(t)
                     ELSE IF Liked(t) THEN {subject[t]} ELSE {}
             step == IF seen # {} THEN "delete" ELSE NothingLeft(t)
  <2>1. /\ hit'[t] = seen /\ at'[t] = step /\ Removes(t)
        /\ UNCHANGED <<likes, reposts, found, kind, user, subject>>
    BY <1>5 DEF BeginDelete, Touch, Goto, Typed, TypeOK, rowVars, argVars
  <2>2. CASE kind[t] = "like"
    BY <1>2, <1>5, <2>1, <2>2 DEF Claim, Liked, NothingLeft, Removes
  <2>3. CASE kind[t] = "unrepost"
    <3>1. \A r \in Mine(t) : r \in reposts /\ subject[r] = subject[t] /\ user[r] = user[t]
      BY DEF Mine, RepostsOf
    <3> QED
      BY <1>2, <1>5, <2>1, <2>3, <3>1 DEF Claim, NothingLeft, Removes
  <2> QED
    BY <2>1, <2>2, <2>3 DEF Removes
<1>6. ASSUME NEW t \in Tx, Quiet(t), Delete(t) \/ Cascade(t) \/ Count(t) PROVE Claims'
  <2>1. /\ hit'[t] = hit[t] /\ UNCHANGED <<likes, reposts, votes, found, kind, user, subject>>
        /\ at'[t] = IF at[t] = "delete" THEN IF kind[t] = "unrepost" THEN "cascade" ELSE "count"
                    ELSE IF at[t] = "cascade" THEN "count"
                    ELSE IF kind[t] = "vote" /\ at[t] = "count" THEN "total" ELSE "commit"
        /\ at[t] \in {"delete", "cascade", "count", "total"}
    BY <1>6 DEF Delete, Cascade, Count, Touch, Goto, Typed, TypeOK, rowVars, argVars
  <2>2. Claim(t)'
    BY <2>1 DEF Claims, Claim, Liked, Voted, Removes, Exists
  <2> QED
    BY <1>2, <1>6, <2>2
<1>7. ASSUME NEW t \in Tx, Quiet(t), InsertLike(t) \/ InsertRow(t) \/ InsertVote(t) PROVE Claims'
  <2>1. CASE Abort(t)
    BY <1>3, <1>7, <2>1
  <2>2. CASE ~Abort(t)
    <3>1. /\ at'[t] = "count" /\ UNCHANGED <<likes, votes, found, kind, user, subject>>
          /\ kind[t] \in {"like", "vote"} => hit'[t] = {subject[t]}
          /\ kind[t] \in {"repost", "comment", "like", "vote"}
          /\ kind[t] = "like" => ~found[t] /\ ~Liked(t)
          /\ kind[t] = "vote" => ~Voted(t)
      BY <1>7, <2>2
      DEF InsertLike, InsertRow, InsertVote, Touch, Goto, Typed, TypeOK, rowVars, argVars
    <3>2. Claim(t)'
      BY <3>1 DEF Claim, Liked, Voted
    <3> QED
      BY <1>2, <1>7, <3>2
  <2> QED
    BY <2>1, <2>2
\* A commit is about a post that was there before; what is about it is not new.
<1>8. \A r \in Tx, t \in Tx : at[t] = "commit" => subject[r] # t
  BY DEF Rooted
<1>9. ASSUME NEW t \in Tx, CommitLike(t) PROVE Claims'
  <2> SUFFICES ASSUME NEW r \in Tx PROVE Claim(r)'
    BY DEF Claims
  <2>1. Claim(t) /\ Claim(r)
    BY DEF Claims
  <2>2. /\ UNCHANGED <<kind, user, subject, reposts, votes, found>>
        /\ at'[t] = "done" /\ kind[t] = "like" /\ at[t] = "commit"
        /\ subject[t] \in Row /\ user[t] \in User
    BY <1>9, LikeCommitted DEF Committing, Inside
  <2>3. r # t => IF found[t] /\ r \in Rivals(t) /\ at[r] = "delete"
                 THEN /\ hit'[r] = hit[r] \ hit[t]
                      /\ at'[r] = IF hit'[r] = {} THEN NothingLeft(r) ELSE "delete"
                 ELSE hit'[r] = hit[r] /\ at'[r] = at[r]
    <3>1. CASE found[t]
      <4>1. /\ CommitDelete(t)
            /\ Left(r, t) = IF r \in Rivals(t) THEN hit[r] \ hit[t] ELSE hit[r]
        BY <1>9, <2>2, <3>1, LikeCommitted DEF Left
      <4>2. at[r] = "delete" => hit[r] # {}
        BY <2>1 DEF Claim, Removes
      <4> QED
        BY <2>2, <3>1, <4>1, <4>2, DeleteCommitted
    <3>2. CASE ~found[t]
      BY <1>9, <3>2, LikeCommitted
    <3> QED
      BY <3>1, <3>2
  <2>4. CASE r = t
    BY <2>2, <2>4, NothingClaimed
  <2>5. CASE r # t /\ r \notin Rivals(t)
    <3>1. kind[r] = "like" => (Liked(r)' <=> Liked(r))
      BY <1>9, <2>2, <2>5, LikeCommitted DEF Rivals, Liked
    <3>2. Voted(r)' <=> Voted(r)
      BY <2>2 DEF Voted
    <3>3. Exists(subject[r])' <=> Exists(subject[r])
      BY <2>2 DEF Exists
    <3>4. kind[r] # "like" => Claim(r)'
      BY <2>1, <2>2, <2>3, <2>5, <3>2 DEF Claim, Removes
    <3>5. kind[r] = "like" => Claim(r)'
      BY <2>1, <2>2, <2>3, <2>5, <3>1, <3>3 DEF Claim, Removes
    <3> QED
      BY <3>4, <3>5
  <2>6. CASE r \in Rivals(t)
    <3>1. /\ kind[r] = "like" /\ r # t /\ subject[r] = subject[t]
          /\ (Liked(r) <=> Liked(t)) /\ (Liked(r)' <=> Liked(t)')
      BY <2>2, <2>6 DEF Rivals, Liked
    <3>2. Exists(subject[r])' <=> Exists(subject[r])
      BY <2>2 DEF Exists
    <3>3. CASE hit[t] = {}
      <4>1. UNCHANGED likes
        BY <1>9, <3>3, LikeCommitted
      <4>2. at[r] = "delete" => hit[r] # {} /\ hit[r] \ hit[t] = hit[r]
        BY <2>1, <3>1, <3>3 DEF Claim
      <4>3. hit'[r] = hit[r] /\ at'[r] = at[r] /\ (Liked(r)' <=> Liked(r))
        BY <2>2, <2>3, <3>1, <4>1, <4>2 DEF Liked
      <4> QED
        BY <2>1, <2>2, <3>1, <3>2, <4>3 DEF Claim, Removes
    <3>4. CASE hit[t] # {}
      <4>1. hit[t] = {subject[t]} /\ (~found[t] => ~Liked(t))
        BY <2>1, <2>2, <3>4 DEF Claim
      <4>2. Writing(r) => hit[r] = {}
        <5>1. Writing(r) => hit[r] \cap hit[t] = {}
          BY <2>2, <2>6 DEF Exclusive, Writing, Rivals
        <5>2. Writing(r) => hit[r] = {} \/ hit[r] = {subject[t]}
          BY <2>1, <3>1 DEF Claim, Writing
        <5> QED
          BY <4>1, <5>1, <5>2
      <4>3. CASE at[r] = "delete"
        <5>1. hit[r] = {subject[t]} /\ found[r] /\ Liked(t)
          BY <2>1, <3>1, <4>3 DEF Claim, Removes
        <5>2. found[t]
          BY <4>1, <5>1
        <5>3. hit'[r] = {} /\ at'[r] = "count"
          BY <2>3, <2>6, <3>1, <4>1, <4>3, <5>1, <5>2 DEF NothingLeft
        <5> QED
          BY <2>2, <3>1, <5>1, <5>3 DEF Claim
      <4>4. CASE at[r] \in {"count", "commit"}
        <5>1. hit[r] = {} /\ hit'[r] = {} /\ at'[r] = at[r]
          BY <2>3, <3>1, <4>2, <4>4 DEF Writing
        <5> QED
          BY <2>1, <2>2, <3>1, <4>4, <5>1 DEF Claim
      <4>5. CASE at[r] \notin {"delete", "count", "commit"}
        BY <2>1, <2>2, <2>3, <3>1, <4>5 DEF Claim
      <4> QED
        BY <4>3, <4>4, <4>5
    <3> QED
      BY <3>3, <3>4
  <2> QED
    BY <2>4, <2>5, <2>6
<1>10. ASSUME NEW t \in Tx, CommitRepost(t) \/ CommitComment(t) PROVE Claims'
  <2> SUFFICES ASSUME NEW r \in Tx PROVE Claim(r)'
    BY DEF Claims
  <2>1. /\ UNCHANGED <<kind, user, subject, likes, votes, found, hit>>
        /\ at[t] = "commit" /\ at'[t] = "done" /\ (r # t => at'[r] = at[r])
        /\ reposts' = reposts \/ reposts' = reposts \cup {t}
    BY <1>10, RepostCommitted, CommentCommitted DEF Committing, Inside
  <2>2. CASE r = t
    BY <2>1, <2>2, NothingClaimed
  <2>3. CASE r # t
    <3>1. Exists(subject[r])' => Exists(subject[r])
      BY <1>8, <2>1 DEF Exists
    <3> QED
      BY <2>1, <2>3, <3>1, ClaimUntouched DEF Claims
  <2> QED
    BY <2>2, <2>3
<1>11. ASSUME NEW t \in Tx, CommitUnrepost(t) PROVE Claims'
  <2> SUFFICES ASSUME NEW r \in Tx PROVE Claim(r)'
    BY DEF Claims
  <2>1. Claim(t) /\ Claim(r)
    BY DEF Claims
  <2>2. /\ UNCHANGED <<kind, user, subject, votes, found>>
        /\ at'[t] = "done" /\ kind[t] = "unrepost" /\ at[t] = "commit"
        /\ reposts' = reposts \ hit[t]
        /\ likes' = {l \in likes : l[1] \notin hit[t]}
        /\ CommitDelete(t)
    BY <1>11, UnrepostCommitted DEF Committing, Inside
  <2>3. r # t => IF at[r] = "delete"
                 THEN hit'[r] = Left(r, t) /\ at'[r] = IF hit'[r] = {} THEN NothingLeft(r) ELSE "delete"
                 ELSE hit'[r] = hit[r] /\ at'[r] = at[r]
    BY <2>2, DeleteCommitted
  <2>4. \A x \in hit[t] : x \in reposts /\ subject[x] = subject[t] /\ user[x] = user[t]
    BY <2>1, <2>2 DEF Claim
  <2>5. \A x \in hit[t] : ~Exists(x)'
    BY <2>2, <2>4 DEF Exists, Typed, TypeOK, TimelineAssumption
  <2>6. CASE r = t
    BY <2>2, <2>6, NothingClaimed
  <2>7. CASE r # t /\ kind[r] = "like"
    <3>1. Liked(r) => Liked(r)' \/ subject[r] \in hit[t]
      BY <2>2 DEF Liked
    <3>2. Liked(r)' => Liked(r)
      BY <2>2 DEF Liked
    <3>3. subject[r] \in hit[t] => ~Exists(subject[r])'
      BY <2>2, <2>4 DEF Exists, Typed, TypeOK, TimelineAssumption
    <3>4. ~Exists(subject[r]) => ~Exists(subject[r])'
      BY <2>2 DEF Exists
    <3>5. CASE at[r] = "delete" /\ subject[r] \in hit[t]
      <4>1. hit'[r] = {} /\ at'[r] = "count" /\ found[r]
        BY <2>1, <2>2, <2>3, <2>7, <3>5 DEF Left, NothingLeft, Claim, Removes
      <4> QED
        BY <2>2, <2>7, <4>1 DEF Claim
    <3>6. CASE at[r] = "delete" /\ subject[r] \notin hit[t]
      <4>1. r \notin Rivals(t) /\ hit[r] # {}
        BY <2>1, <2>2, <2>7, <3>6 DEF Rivals, Claim
      <4>2. hit'[r] = hit[r] /\ at'[r] = at[r]
        BY <2>3, <2>7, <3>6, <4>1 DEF Left
      <4> QED
        BY <2>1, <2>2, <2>7, <3>1, <3>6, <4>2 DEF Claim, Removes
    <3>7. CASE at[r] # "delete"
      BY <2>1, <2>2, <2>3, <2>7, <3>1, <3>2, <3>3, <3>4, <3>7 DEF Claim
    <3> QED
      BY <3>5, <3>6, <3>7
  <2>8. CASE r # t /\ kind[r] = "unrepost"
    <3>0. at'[r] # "total"
      BY <2>1, <2>3, <2>8 DEF Claim, NothingLeft
    <3> SUFFICES ASSUME at'[r] \in {"delete", "cascade", "count", "commit"} PROVE Claim(r)'
      BY <2>2, <2>8, <3>0 DEF Claim
    <3>1. at[r] = at'[r]
      BY <2>3, <2>8 DEF NothingLeft
    <3>2. \A x \in hit[r] : x \in reposts /\ subject[x] = subject[r] /\ user[x] = user[r]
      BY <2>1, <2>8, <3>1 DEF Claim
    <3>3. hit'[r] \subseteq hit[r] /\ hit'[r] # {}
      BY <2>1, <2>3, <2>8, <3>1 DEF Left, NothingLeft, Claim
    <3>4. hit[r] \cap hit[t] # {} => r \in Rivals(t) /\ t \in Rivals(r)
      BY <2>2, <2>4, <2>8, <3>2 DEF Rivals
    <3>5. hit'[r] \cap hit[t] = {}
      <4>1. CASE at[r] = "delete"
        BY <2>3, <2>8, <3>4, <4>1 DEF Left
      <4>2. CASE at[r] # "delete"
        BY <2>2, <2>3, <2>8, <3>1, <3>4, <4>2 DEF Exclusive, Writing
      <4> QED
        BY <4>1, <4>2
    <3> QED
      BY <2>1, <2>2, <2>8, <3>1, <3>2, <3>3, <3>5 DEF Claim, Removes
  <2>9. CASE r # t /\ kind[r] \notin {"like", "unrepost"}
    <3>1. at[r] # "delete"
      BY <2>1, <2>9 DEF Claim, Removes
    <3>2. Voted(r)' <=> Voted(r)
      BY <2>2 DEF Voted
    <3> QED
      BY <2>1, <2>2, <2>3, <2>9, <3>1, <3>2 DEF Claim
  <2> QED
    BY <2>6, <2>7, <2>8, <2>9
<1>12. ASSUME NEW t \in Tx, CommitVote(t) PROVE Claims'
  <2> SUFFICES ASSUME NEW r \in Tx PROVE Claim(r)'
    BY DEF Claims
  <2>1. Claim(t) /\ Claim(r)
    BY DEF Claims
  <2>2. /\ UNCHANGED <<kind, user, subject, likes, reposts, hit, found>>
        /\ at'[t] = "done" /\ (r # t => at'[r] = at[r])
        /\ kind[t] = "vote" /\ at[t] = "commit"
    BY <1>12, VoteCommitted DEF Committing, Inside
  <2>3. CASE r = t
    BY <2>2, <2>3, NothingClaimed
  <2>4. CASE r # t /\ r \notin Rivals(t)
    <3>1. kind[r] = "vote" /\ at[r] \in {"count", "total", "commit"} => (Voted(r)' => Voted(r))
      <4> SUFFICES ASSUME kind[r] = "vote", at[r] \in {"count", "total", "commit"}, Voted(r)'
                   PROVE  Voted(r)
        OBVIOUS
      <4>1. subject[r] \in Poll /\ user[r] \in User
        BY DEF Typed, Arguments, Open
      <4>2. subject[r] # subject[t] \/ user[r] # user[t]
        BY <2>2, <2>4 DEF Rivals
      <4>3. votes'[subject[r]][user[r]] = votes[subject[r]][user[r]]
        BY <1>12, <4>1, <4>2, VoteCommitted
      <4> QED
        BY <2>2, <4>3 DEF Voted
    <3>2. (Liked(r)' <=> Liked(r)) /\ (Exists(subject[r])' <=> Exists(subject[r]))
      BY <2>2 DEF Liked, Exists
    <3> QED
      BY <2>1, <2>2, <2>4, <3>1, <3>2 DEF Claim, Removes
  <2>5. CASE r \in Rivals(t)
    <3>1. kind[r] = "vote" /\ r # t /\ subject[r] = subject[t]
      BY <2>2, <2>5 DEF Rivals
    <3>2. hit[t] = {subject[t]}
      BY <2>1, <2>2 DEF Claim
    <3>3. ~(at[r] \in {"count", "total", "commit"})
      <4> SUFFICES ASSUME at[r] \in {"count", "total", "commit"} PROVE FALSE
        OBVIOUS
      <4>1. hit[r] = {subject[t]}
        BY <2>1, <3>1 DEF Claim
      <4> QED
        BY <2>2, <2>5, <3>2, <4>1 DEF Exclusive, Writing, Rivals
    <3> QED
      BY <2>1, <2>2, <3>1, <3>3 DEF Claim, Removes
  <2> QED
    BY <2>3, <2>4, <2>5
<1>13. ASSUME UNCHANGED vars PROVE Claims'
  BY <1>13, ClaimUntouched DEF vars, rowVars, argVars, Claims, Exists
<1>14. ASSUME NEW t \in Tx, Quiet(t), Fail(t) PROVE Claims'
  BY <1>3, <1>14 DEF Fail
<1> QED
  BY <1>1, <1>4, <1>5, <1>6, <1>7, <1>9, <1>10, <1>11, <1>12, <1>13, <1>14, Steps
-----------------------------------------------------------------------------
\* What one request of its kind may rely on stays so while neither it nor what it
\* has looked at changes, and nobody else opens.
LEMMA UnrivalledKept ==
  ASSUME NEW r \in Tx, Unrivalled(r), UNCHANGED <<kind, user, subject>>,
         \A s \in Tx : Open(s)' => Open(s),
         at'[r] = at[r], hit'[r] = hit[r], found'[r] = found[r],
         ~Exists(subject[r]) => ~Exists(subject[r])',
         kind[r] = "like" /\ at[r] = "write" => (Liked(r)' <=> Liked(r)) \/ ~Exists(subject[r])',
         kind[r] = "repost" /\ at[r] \in {"write", "count", "commit"} =>
           \A x \in RepostsOf(subject[r])' : x \in RepostsOf(subject[r]) \/ user[x] # user[r]
  PROVE  Unrivalled(r)'
<1>1. \A s \in Rivals(r)' : ~(Open(s) /\ Open(r))'
  BY DEF Unrivalled, Rivals
<1> QED
  BY <1>1 DEF Unrivalled

\* A request that has ended has no rivals to fear.
LEMMA UnrivalledAtEnd ==
  ASSUME NEW r \in Tx, at'[r] \in {"done", "aborted"}
  PROVE  Unrivalled(r)'
  BY DEF Unrivalled, Open

\* A step keeps what they have checked, and every repost single, while none has a rival.
LEMMA StepAlone ==
  ASSUME TimelineAssumption, Typed, Rooted, Claims, Alone, OnceEach, [Next]_vars
  PROVE  Alone' /\ OnceEach'
<1>1. ASSUME NEW t \in Tx, Start(t) PROVE Alone' /\ OnceEach'
  <2>1. PICK u \in User, k \in Kind, x \in Row \cup Poll, o \in Option \cup {None} : Begin(t, k, u, x, o)
    BY <1>1, Started
  <2>2. t \notin reposts /\ reposts \subseteq Tx /\ UNCHANGED <<likes, reposts>>
    BY <2>1, Begun DEF Rooted, Typed, TypeOK, rowVars
  <2>3. doubled' = (doubled \/ \E s \in Tx : Open(s) /\ kind[s] = k /\ user[s] = u /\ subject[s] = x)
    BY <2>1 DEF Begin
  <2>4. OnceEach'
    <3>1. \A s \in reposts : subject'[s] = subject[s] /\ user'[s] = user[s]
      BY <2>1, <2>2, Begun
    <3>2. reposts' = reposts /\ (~doubled' => ~doubled)
      BY <2>2, <2>3
    <3> QED
      BY <3>1, <3>2 DEF OnceEach
  <2> SUFFICES ASSUME ~doubled', NEW r \in Tx PROVE Unrivalled(r)'
    BY <2>4 DEF Alone
  <2>5. ~doubled /\ \A s \in Tx : Open(s) => ~(kind[s] = k /\ user[s] = u /\ subject[s] = x)
    BY <2>3
  <2>6. /\ at[t] = "idle" /\ kind'[t] = k /\ user'[t] = u /\ subject'[t] = x
        /\ at'[t] = IF k \in {"unrepost", "comment"} THEN "write" ELSE "check"
        /\ UNCHANGED <<likes, reposts, found, hit>>
        /\ \A s \in Tx \ {t} : /\ kind'[s] = kind[s] /\ user'[s] = user[s]
                               /\ subject'[s] = subject[s] /\ at'[s] = at[s]
    BY <2>1, Begun DEF rowVars
  <2>7. CASE r = t
    BY <2>5, <2>6, <2>7 DEF Unrivalled, Rivals, Open
  <2>8. CASE r # t
    <3>1. Unrivalled(r)
      BY <2>5 DEF Alone
    <3>2. \A s \in Rivals(r)' : ~(Open(s) /\ Open(r))'
      BY <2>5, <2>6, <2>8, <3>1 DEF Unrivalled, Rivals, Open
    <3>3. RepostsOf(subject[r])' = RepostsOf(subject[r])
      BY <2>2, <2>6, <2>8 DEF RepostsOf
    <3>4. \A s \in RepostsOf(subject[r]) : user'[s] = user[s]
      BY <2>2, <2>6 DEF RepostsOf
    <3>5. Exists(subject[r])' <=> Exists(subject[r])
      BY <2>6, <2>8 DEF Exists
    <3> QED
      BY <2>6, <2>8, <3>1, <3>2, <3>3, <3>4, <3>5 DEF Unrivalled, Liked
  <2> QED
    BY <2>7, <2>8
<1>2. ASSUME NEW t \in Tx, Quiet(t), ~doubled => Unrivalled(t)' PROVE Alone' /\ OnceEach'
  <2>1. /\ UNCHANGED <<kind, user, subject, doubled, likes, reposts>>
        /\ \A s \in Tx : Open(s)' => Open(s)
    BY <1>2, InsideStays DEF Quiet, Inside, rowVars
  <2>2. OnceEach'
    BY <2>1 DEF OnceEach
  <2> SUFFICES ASSUME ~doubled, NEW r \in Tx \ {t} PROVE Unrivalled(r)'
    BY <1>2, <2>1, <2>2 DEF Alone
  <2> QED
    BY <1>2, <2>1, UnrivalledKept DEF Alone, Quiet, Liked, Exists, RepostsOf
<1>3. ASSUME NEW t \in Tx, Quiet(t), Abort(t) PROVE Alone' /\ OnceEach'
  BY <1>2, <1>3, UnrivalledAtEnd DEF Abort, Goto, Typed, TypeOK
<1>4. ASSUME NEW t \in Tx, Quiet(t) PROVE ~doubled => \A s \in Rivals(t)' : ~(Open(s) /\ Open(t))'
  BY <1>4, InsideStays DEF Alone, Unrivalled, Rivals, Quiet, Inside
<1>5. ASSUME NEW t \in Tx, Quiet(t), CheckLike(t) \/ CheckRepost(t) \/ CheckVote(t)
      PROVE  Alone' /\ OnceEach'
  <2>1. CASE Abort(t)
    BY <1>3, <1>5, <2>1
  <2>2. CASE ~Abort(t)
    <3>1. /\ at'[t] = "write" /\ UNCHANGED <<kind, user, subject, likes, reposts>>
          /\ kind[t] = "like" => (found'[t] <=> Liked(t))
          /\ kind[t] = "repost" => Mine(t) = {} /\ Exists(subject[t])
      <4>1. CASE CheckLike(t)
        BY <4>1 DEF CheckLike, Goto, Typed, TypeOK, rowVars, argVars, Liked
      <4>2. CASE CheckRepost(t)
        BY <2>2, <4>2 DEF CheckRepost, Goto, Typed, TypeOK, rowVars, argVars
      <4>3. CASE CheckVote(t)
        BY <2>2, <4>3 DEF CheckVote, Goto, Typed, TypeOK, rowVars, argVars
      <4> QED
        BY <1>5, <4>1, <4>2, <4>3
    <3>2. kind[t] = "repost" => \A r \in RepostsOf(subject[t]) : user[r] # user[t]
      BY <3>1 DEF Mine
    <3>3. RepostsOf(subject[t])' = RepostsOf(subject[t])
      BY <3>1 DEF RepostsOf
    <3> QED
      BY <1>2, <1>4, <1>5, <3>1, <3>2, <3>3 DEF Unrivalled, Liked
  <2> QED
    BY <2>1, <2>2
<1>6. ASSUME NEW t \in Tx, Quiet(t), BeginDelete(t) PROVE Alone' /\ OnceEach'
  <2>1. /\ at[t] = "write" /\ Removes(t) /\ UNCHANGED <<kind, subject, reposts>>
        /\ kind[t] = "like" => IF Liked(t) THEN at'[t] = "delete" ELSE at'[t] = "count"
        /\ kind[t] = "unrepost" => at'[t] \in {"delete", "aborted"}
    BY <1>6 DEF BeginDelete, Touch, Goto, NothingLeft, Typed, TypeOK, rowVars, argVars
  <2>2. ~doubled /\ kind[t] = "like" /\ ~Liked(t) => ~Exists(subject[t])'
    BY <2>1 DEF Alone, Unrivalled, Removes, Exists
  <2> QED
    BY <1>2, <1>4, <1>6, <2>1, <2>2 DEF Unrivalled, Removes
<1>7. ASSUME NEW t \in Tx, Quiet(t), Delete(t) \/ Cascade(t) \/ Count(t) PROVE Alone' /\ OnceEach'
  <2>1. /\ at[t] \in {"delete", "cascade", "count", "total"}
        /\ at'[t] \in {"cascade", "count", "total", "commit"}
        /\ hit'[t] = hit[t] /\ UNCHANGED <<kind, user, subject, reposts>>
    BY <1>7 DEF Delete, Cascade, Count, Touch, Goto, Typed, TypeOK, rowVars, argVars
  <2>2. kind[t] = "like" => at[t] = "count" \/ hit[t] = {subject[t]}
    BY <2>1 DEF Claims, Claim
  <2>3. kind[t] = "repost" => at[t] = "count"
    BY <2>1 DEF Claims, Claim, Removes
  <2>4. RepostsOf(subject[t])' = RepostsOf(subject[t]) /\ (Exists(subject[t])' <=> Exists(subject[t]))
    BY <2>1 DEF RepostsOf, Exists
  <2> QED
    BY <1>2, <1>4, <1>7, <2>1, <2>2, <2>3, <2>4 DEF Alone, Unrivalled
<1>8. ASSUME NEW t \in Tx, Quiet(t), InsertLike(t) \/ InsertRow(t) \/ InsertVote(t)
      PROVE  Alone' /\ OnceEach'
  <2>1. CASE Abort(t)
    BY <1>3, <1>8, <2>1
  <2>2. CASE ~Abort(t)
    <3>1. /\ at[t] = "write" /\ at'[t] = "count" /\ UNCHANGED <<kind, user, subject, reposts>>
          /\ kind[t] = "like" => hit'[t] = {subject[t]}
      BY <1>8, <2>2
      DEF InsertLike, InsertRow, InsertVote, Touch, Goto, Typed, TypeOK, rowVars, argVars
    <3>2. RepostsOf(subject[t])' = RepostsOf(subject[t])
      BY <3>1 DEF RepostsOf
    <3> QED
      BY <1>2, <1>4, <1>8, <3>1, <3>2 DEF Alone, Unrivalled
  <2> QED
    BY <2>1, <2>2
\* A transaction commits while its rivals, if there is but one of its kind, are not open.
<1>9. ASSUME NEW t \in Tx, ~doubled, at[t] = "commit", NEW r \in Rivals(t)
      PROVE  ~Open(r) /\ at[r] # "delete"
  BY <1>9 DEF Alone, Unrivalled, Open
<1>10. ASSUME NEW t \in Tx, CommitLike(t) PROVE Alone' /\ OnceEach'
  <2>1. /\ at[t] = "commit" /\ at'[t] = "done" /\ kind[t] = "like"
        /\ UNCHANGED <<kind, user, subject, found, reposts, doubled>>
        /\ subject[t] \in Row /\ user[t] \in User
        /\ \A s \in Tx : Open(s)' => Open(s)
    BY <1>10, LikeCommitted, InsideStays DEF Committing, Inside
  <2>2. OnceEach'
    BY <2>1 DEF OnceEach
  <2> SUFFICES ASSUME ~doubled, NEW r \in Tx PROVE Unrivalled(r)'
    BY <2>1, <2>2 DEF Alone
  <2>3. r # t => at'[r] = at[r] /\ hit'[r] = hit[r]
    <3>1. CASE found[t] /\ r # t
      <4>1. at[r] = "delete" => hit[r] # {} /\ r \notin Rivals(t)
        BY <1>9, <2>1 DEF Claims, Claim, Removes
      <4>2. at[r] = "delete" => Left(r, t) = hit[r]
        BY <2>1, <4>1 DEF Left
      <4>3. CommitDelete(t)
        BY <1>10, <3>1, LikeCommitted
      <4>4. IF at[r] = "delete"
            THEN hit'[r] = Left(r, t) /\ at'[r] = IF hit'[r] = {} THEN NothingLeft(r) ELSE "delete"
            ELSE hit'[r] = hit[r] /\ at'[r] = at[r]
        BY <2>1, <3>1, <4>3, DeleteCommitted
      <4> QED
        BY <4>1, <4>2, <4>4
    <3>2. CASE ~found[t]
      BY <1>10, <3>2, LikeCommitted
    <3> QED
      BY <3>1, <3>2
  <2>4. CASE r = t
    BY <2>1, <2>4, UnrivalledAtEnd
  <2>5. CASE r # t
    <3>1. kind[r] = "like" /\ at[r] = "write" => (Liked(r)' <=> Liked(r))
      <4> SUFFICES ASSUME kind[r] = "like", at[r] = "write" PROVE Liked(r)' <=> Liked(r)
        OBVIOUS
      <4>1. <<subject[r], user[r]>> # <<subject[t], user[t]>>
        BY <1>9, <2>1, <2>5 DEF Rivals, Open
      <4> QED
        BY <1>10, <2>1, <2>5, <4>1, LikeCommitted DEF Liked
    <3>2. RepostsOf(subject[r])' = RepostsOf(subject[r]) /\ (Exists(subject[r])' <=> Exists(subject[r]))
      BY <2>1 DEF RepostsOf, Exists
    <3> QED
      BY <2>1, <2>3, <2>5, <3>1, <3>2, UnrivalledKept DEF Alone
  <2> QED
    BY <2>4, <2>5
<1>11. ASSUME NEW t \in Tx, CommitRepost(t) PROVE Alone' /\ OnceEach'
  <2>1. /\ at[t] = "commit" /\ at'[t] = "done" /\ kind[t] = "repost" /\ reposts' = reposts \cup {t}
        /\ UNCHANGED <<kind, user, subject, found, likes, hit, doubled>>
        /\ \A s \in Tx : Open(s)' => Open(s)
        /\ \A s \in Tx \ {t} : at'[s] = at[s]
        /\ t \notin reposts /\ reposts \subseteq Tx
    BY <1>11, RepostCommitted, InsideStays DEF Committing, Inside, Rooted, Typed, TypeOK
  <2> SUFFICES ASSUME ~doubled PROVE OnceEach' /\ \A r \in Tx : Unrivalled(r)'
    BY <2>1 DEF Alone, OnceEach
  <2>2. OnceEach'
    <3>1. \A s \in reposts : ~(subject[s] = subject[t] /\ user[s] = user[t])
      BY <2>1 DEF Alone, Unrivalled, RepostsOf
    <3> QED
      BY <2>1, <3>1 DEF OnceEach
  <2>3. ASSUME NEW r \in Tx PROVE Unrivalled(r)'
    <3>1. CASE r = t
      BY <2>1, <3>1, UnrivalledAtEnd
    <3>2. CASE r # t
      <4>1. ~Exists(subject[r]) => ~Exists(subject[r])'
        BY <2>1 DEF Exists, Rooted
      <4>2. Liked(r)' <=> Liked(r)
        BY <2>1 DEF Liked
      <4>3. kind[r] = "repost" /\ at[r] \in {"write", "count", "commit"} =>
              \A x \in RepostsOf(subject[r])' : x \in RepostsOf(subject[r]) \/ user[x] # user[r]
        BY <1>9, <2>1, <3>2 DEF RepostsOf, Rivals, Open
      <4> QED
        BY <2>1, <3>2, <4>1, <4>2, <4>3, UnrivalledKept DEF Alone
    <3> QED
      BY <3>1, <3>2
  <2> QED
    BY <2>2, <2>3
<1>12. ASSUME NEW t \in Tx, CommitUnrepost(t) PROVE Alone' /\ OnceEach'
  <2>1. /\ at[t] = "commit" /\ at'[t] = "done" /\ kind[t] = "unrepost" /\ reposts' = reposts \ hit[t]
        /\ UNCHANGED <<kind, user, subject, found, doubled>>
        /\ likes' = {l \in likes : l[1] \notin hit[t]}
        /\ CommitDelete(t)
        /\ \A s \in Tx : Open(s)' => Open(s)
    BY <1>12, UnrepostCommitted, InsideStays DEF Committing, Inside
  <2>2. hit[t] \cap Post = {}
    BY <2>1 DEF Claims, Claim, Typed, TypeOK, TimelineAssumption
  <2>3. OnceEach'
    BY <2>1 DEF OnceEach
  <2> SUFFICES ASSUME ~doubled, NEW r \in Tx PROVE Unrivalled(r)'
    BY <2>1, <2>3 DEF Alone
  <2>4. ~Exists(subject[r]) => ~Exists(subject[r])'
    BY <2>1 DEF Exists
  <2>5. subject[r] \in hit[t] => ~Exists(subject[r])'
    BY <2>1, <2>2 DEF Exists
  <2>6. (Liked(r)' <=> Liked(r)) \/ ~Exists(subject[r])'
    BY <2>1, <2>5 DEF Liked
  <2>7. RepostsOf(subject[r])' \subseteq RepostsOf(subject[r])
    BY <2>1 DEF RepostsOf
  <2>8. CASE r = t
    BY <2>1, <2>8, UnrivalledAtEnd
  <2>9. CASE r # t /\ at[r] # "delete"
    <3>1. at'[r] = at[r] /\ hit'[r] = hit[r]
      BY <2>1, <2>9, DeleteCommitted
    <3> QED
      BY <2>1, <2>4, <2>6, <2>7, <2>9, <3>1, UnrivalledKept DEF Alone
  <2>10. CASE r # t /\ at[r] = "delete"
    <3>1. Open(r) /\ \A s \in Rivals(r)' : ~(Open(s) /\ Open(r))'
      BY <2>1, <2>10 DEF Alone, Unrivalled, Rivals, Open
    <3>2. Removes(r)
      BY <2>10 DEF Claims, Claim
    <3>3. CASE kind[r] = "like"
      <4>1. hit[r] # {} /\ r \notin Rivals(t)
        BY <2>1, <2>10, <3>3 DEF Claims, Claim, Rivals
      <4>2. at'[r] = "delete" \/ (at'[r] = "count" /\ subject[r] \in hit[t])
        BY <2>1, <2>10, <3>3, <4>1, DeleteCommitted DEF Left, NothingLeft
      <4> QED
        BY <2>1, <2>5, <3>1, <3>3, <4>2 DEF Unrivalled
    <3>4. CASE kind[r] = "unrepost"
      BY <2>1, <3>1, <3>4 DEF Unrivalled
    <3> QED
      BY <3>2, <3>3, <3>4 DEF Removes
  <2> QED
    BY <2>8, <2>9, <2>10
<1>13. ASSUME NEW t \in Tx, CommitComment(t) \/ CommitVote(t) PROVE Alone' /\ OnceEach'
  <2>1. /\ UNCHANGED <<likes, reposts, kind, user, subject, doubled, found, hit>>
        /\ at'[t] = "done" /\ \A r \in Tx \ {t} : at'[r] = at[r]
        /\ \A s \in Tx : Open(s)' => Open(s)
    BY <1>13, CommentCommitted, VoteCommitted, InsideStays DEF Committing, Inside
  <2>2. OnceEach'
    BY <2>1 DEF OnceEach
  <2> SUFFICES ASSUME ~doubled, NEW r \in Tx \ {t} PROVE Unrivalled(r)'
    BY <2>1, <2>2, UnrivalledAtEnd DEF Alone
  <2> QED
    BY <2>1, UnrivalledKept DEF Alone, Liked, Exists, RepostsOf
<1>14. ASSUME UNCHANGED vars PROVE Alone' /\ OnceEach'
  BY <1>14 DEF vars, rowVars, argVars, Alone, OnceEach, Unrivalled, Rivals, Open, Liked, Exists, RepostsOf
<1>15. ASSUME NEW t \in Tx, Quiet(t), Fail(t) PROVE Alone' /\ OnceEach'
  BY <1>3, <1>15 DEF Fail
<1> QED
  BY <1>1, <1>5, <1>6, <1>7, <1>8, <1>10, <1>11, <1>12, <1>13, <1>14, <1>15, Steps
-----------------------------------------------------------------------------
(* The counters change with the rows. *)

\* One row more for a counter to count.
LEMMA OneMore ==
  ASSUME NEW S, NEW T, NEW x, IsFiniteSet(S), x \notin S, T = S \cup {x}
  PROVE  IsFiniteSet(T) /\ Cardinality(T) = Cardinality(S) + 1
  BY FS_AddElement

\* ... and one row less.
LEMMA OneLess ==
  ASSUME NEW S, NEW T, NEW x, IsFiniteSet(S), x \in S, T = S \ {x}
  PROVE  IsFiniteSet(T) /\ Cardinality(T) = Cardinality(S) - 1
  BY FS_RemoveElement

\* The rows of a post are finitely many.
LEMMA FewRows ==
  ASSUME Counted, NEW p
  PROVE  /\ IsFiniteSet(LikesOf(p)) /\ Cardinality(LikesOf(p)) \in Nat
         /\ IsFiniteSet(RepostsOf(p)) /\ Cardinality(RepostsOf(p)) \in Nat
<1>1. LikesOf(p) \subseteq likes /\ RepostsOf(p) \subseteq reposts
  BY DEF LikesOf, RepostsOf
<1>2. IsFiniteSet(LikesOf(p)) /\ IsFiniteSet(RepostsOf(p))
  BY <1>1, FS_Subset DEF Counted
<1> QED
  BY <1>2, FS_CardinalityType

\* What there is in the beginning has been counted.
LEMMA InitCounted == TimelineAssumption /\ Init => Counted
<1> SUFFICES ASSUME TimelineAssumption, Init PROVE Counted
  OBVIOUS
<1>1. ASSUME NEW p \in Post \cup reposts
      PROVE  /\ likeCount[p] = Cardinality(LikesOf(p)) /\ likeCount[p] \in Nat
             /\ repostCount[p] = Cardinality(RepostsOf(p))
             /\ commentCount[p] = comments[p]
  <2>1. p \in Row /\ reposts = Old /\ likes = Fans
    BY DEF Init, Row, TimelineAssumption
  <2>2. LikesOf(p) = {l \in Fans : l[1] = p}
    BY <2>1 DEF LikesOf
  <2>3. RepostsOf(p) = {r \in Old : OriginalOf[r] = p}
    BY <2>1 DEF RepostsOf, Init, TimelineAssumption
  <2>4. IsFiniteSet({l \in Fans : l[1] = p})
    BY FS_Subset DEF TimelineAssumption
  <2>5. Cardinality({l \in Fans : l[1] = p}) \in Nat
    BY <2>4, FS_CardinalityType
  <2>6. likeCount[p] = Cardinality({l \in Fans : l[1] = p})
    BY <2>1 DEF Init
  <2>7. repostCount[p] = Cardinality({r \in Old : OriginalOf[r] = p})
    BY <2>1 DEF Init
  <2>8. commentCount[p] = comments[p]
    BY <2>1 DEF Init
  <2> QED
    BY <2>2, <2>3, <2>5, <2>6, <2>7, <2>8
<1>2. ASSUME NEW q \in Poll PROVE Voters(q) = {} /\ totalVotes[q] = 0
  BY DEF Init, Voters
<1>3. ASSUME NEW o \in Option PROVE VotesFor(o) = {} /\ voteCount[o] = 0
  <2>1. \A q \in Poll, u \in User : votes[q][u] = None
    BY DEF Init
  <2>2. o # None
    BY DEF TimelineAssumption
  <2> QED
    BY <2>1, <2>2 DEF Init, VotesFor
<1>4. IsFiniteSet({}) /\ Cardinality({}) = 0
  BY FS_EmptySet
<1>5. CountsExactWhenSingle
  BY <1>1 DEF CountsExactWhenSingle
<1>6. VotesExact
  BY <1>1, <1>2, <1>3, <1>4 DEF VotesExact
<1> QED
  BY <1>2, <1>3, <1>4, <1>5, <1>6 DEF Counted, Init, TimelineAssumption

\* The commit of ToggleLike, which counts down even when it has deleted nothing.
LEMMA CommitLikeCounted ==
  ASSUME Typed, Claims, Alone, Counted, NEW t \in Tx, CommitLike(t), NEW p \in Post \cup reposts
  PROVE  /\ likeCount'[p] <= Cardinality(LikesOf(p)')
         /\ ~doubled => likeCount'[p] = Cardinality(LikesOf(p)')
<1> DEFINE pair == <<subject[t], user[t]>>
<1>1. /\ p \in Row /\ likeCount[p] \in Int
      /\ likeCount[p] <= Cardinality(LikesOf(p))
      /\ ~doubled => likeCount[p] = Cardinality(LikesOf(p))
  BY DEF Counted, CountsExactWhenSingle, Typed, TypeOK, Row
<1>2. IsFiniteSet(LikesOf(p)) /\ Cardinality(LikesOf(p)) \in Int
  BY FewRows
<1>3. /\ kind[t] = "like" /\ at[t] = "commit"
      /\ likes' = IF hit[t] = {} THEN likes
                  ELSE IF found[t] THEN likes \ {pair} ELSE likes \cup {pair}
      /\ likeCount'[p] = IF p = subject[t] THEN IF found[t] THEN likeCount[p] - 1 ELSE likeCount[p] + 1
                         ELSE likeCount[p]
  BY <1>1, LikeCommitted DEF Committing, Exists
<1>4. p = subject[t] =>
        /\ IF found[t] THEN hit[t] = {} \/ (hit[t] # {} /\ pair \in likes)
                       ELSE hit[t] # {} /\ pair \notin likes
        /\ ~doubled => hit[t] # {}
  BY <1>3 DEF Claims, Claim, Alone, Unrivalled, Liked, Exists
<1>5. CASE p # subject[t]
  <2>1. LikesOf(p)' = LikesOf(p)
    BY <1>3, <1>5 DEF LikesOf
  <2> QED
    BY <1>1, <1>3, <1>5, <2>1
<1>6. CASE p = subject[t] /\ found[t] /\ hit[t] = {}
  <2>1. LikesOf(p)' = LikesOf(p)
    BY <1>3, <1>6 DEF LikesOf
  <2> QED
    BY <1>1, <1>2, <1>3, <1>4, <1>6, <2>1
<1>7. CASE p = subject[t] /\ found[t] /\ hit[t] # {}
  <2>1. LikesOf(p)' = LikesOf(p) \ {pair} /\ pair \in LikesOf(p)
    BY <1>3, <1>4, <1>7 DEF LikesOf
  <2>2. Cardinality(LikesOf(p)') = Cardinality(LikesOf(p)) - 1
    BY <1>2, <2>1, OneLess
  <2> QED
    BY <1>1, <1>2, <1>3, <1>7, <2>2
<1>8. CASE p = subject[t] /\ ~found[t]
  <2>1. LikesOf(p)' = LikesOf(p) \cup {pair} /\ pair \notin LikesOf(p)
    BY <1>3, <1>4, <1>8 DEF LikesOf
  <2>2. Cardinality(LikesOf(p)') = Cardinality(LikesOf(p)) + 1
    BY <1>2, <2>1, OneMore
  <2> QED
    BY <1>1, <1>2, <1>3, <1>8, <2>2
<1> QED
  BY <1>5, <1>6, <1>7, <1>8

\* The commit of Repost, whose row begins with nothing.
LEMMA CommitRepostCounted ==
  ASSUME TimelineAssumption, Typed, Rooted, Counted, NEW t \in Tx, CommitRepost(t),
         NEW p \in Post \cup reposts \cup {t}
  PROVE  /\ LikesOf(p)' = LikesOf(p)
         /\ likeCount[p] <= Cardinality(LikesOf(p)) /\ commentCount[p] = comments[p]
         /\ ~doubled => /\ likeCount[p] = Cardinality(LikesOf(p))
                        /\ repostCount'[p] = Cardinality(RepostsOf(p)')
<1>1. /\ kind[t] = "repost" /\ at[t] = "commit" /\ subject[t] \in Row
      /\ UNCHANGED <<likes, subject>> /\ reposts' = reposts \cup {t}
      /\ \A q \in Row : repostCount'[q] = IF q = subject[t] /\ Exists(subject[t])
                                          THEN repostCount[q] + 1 ELSE repostCount[q]
  BY RepostCommitted DEF Committing, Inside
<1>2. t \notin reposts /\ t \notin Post /\ subject[t] # t /\ reposts \subseteq Tx
  BY <1>1 DEF Rooted, Typed, TypeOK, TimelineAssumption
<1>3. LikesOf(p)' = LikesOf(p)
  BY <1>1 DEF LikesOf
<1>4. CASE p = t
  <2>1. /\ likeCount[t] = 0 /\ repostCount[t] = 0 /\ commentCount[t] = comments[t]
        /\ LikesOf(t) = {} /\ RepostsOf(t)' = {}
    BY <1>1, <1>2 DEF Rooted, LikesOf, RepostsOf
  <2>2. repostCount'[t] = 0
    BY <1>1, <1>2, <2>1 DEF Row
  <2> QED
    BY <1>3, <1>4, <2>1, <2>2, FS_EmptySet
<1>5. CASE p # t
  <2>1. /\ p \in Post \cup reposts /\ p \in Row
        /\ likeCount[p] <= Cardinality(LikesOf(p)) /\ commentCount[p] = comments[p]
        /\ ~doubled => /\ likeCount[p] = Cardinality(LikesOf(p))
                       /\ repostCount[p] = Cardinality(RepostsOf(p))
    BY <1>2, <1>5 DEF Counted, CountsExactWhenSingle, VotesExact, Row
  <2>2. CASE p = subject[t]
    <3>1. RepostsOf(p)' = RepostsOf(p) \cup {t} /\ t \notin RepostsOf(p)
      BY <1>1, <1>2, <2>2 DEF RepostsOf
    <3>2. Cardinality(RepostsOf(p)') = Cardinality(RepostsOf(p)) + 1
      BY <3>1, FewRows, OneMore
    <3> QED
      BY <1>1, <1>3, <2>1, <2>2, <3>2 DEF Exists
  <2>3. CASE p # subject[t]
    <3>1. RepostsOf(p)' = RepostsOf(p)
      BY <1>1, <2>3 DEF RepostsOf
    <3> QED
      BY <1>1, <1>3, <2>1, <2>3, <3>1
  <2> QED
    BY <2>2, <2>3
<1> QED
  BY <1>4, <1>5

\* The commit of Unrepost, which has one repost to delete when none is doubled.
LEMMA CommitUnrepostCounted ==
  ASSUME TimelineAssumption, Typed, Claims, OnceEach, Counted, NEW t \in Tx, CommitUnrepost(t),
         NEW p \in Post \cup (reposts \ hit[t])
  PROVE  /\ LikesOf(p)' = LikesOf(p) /\ comments'[p] = comments[p]
         /\ ~doubled => repostCount'[p] = Cardinality(RepostsOf(p)')
<1>1. /\ kind[t] = "unrepost" /\ at[t] = "commit" /\ subject[t] \in Row
      /\ UNCHANGED subject /\ reposts' = reposts \ hit[t]
      /\ likes' = {l \in likes : l[1] \notin hit[t]}
      /\ \A q \in Row : comments'[q] = IF q \in hit[t] THEN 0 ELSE comments[q]
      /\ \A q \in Row : repostCount'[q] = IF q = subject[t] /\ Exists(subject[t])
                                          THEN IF repostCount[q] > 1 THEN repostCount[q] - 1 ELSE 0
                                          ELSE repostCount[q]
  BY UnrepostCommitted DEF Committing, Inside
<1>2. /\ hit[t] # {}
      /\ \A r \in hit[t] : r \in reposts /\ subject[r] = subject[t] /\ user[r] = user[t]
  BY <1>1 DEF Claims, Claim
<1>3. p \in Row /\ p \notin hit[t] /\ p \in Post \cup reposts
  BY <1>2 DEF Row, Typed, TypeOK, TimelineAssumption
<1>4. LikesOf(p)' = LikesOf(p) /\ comments'[p] = comments[p]
  BY <1>1, <1>3 DEF LikesOf
<1>5. ~doubled => repostCount[p] = Cardinality(RepostsOf(p))
  BY <1>3 DEF Counted, CountsExactWhenSingle
<1>6. CASE p = subject[t]
  <2> SUFFICES ASSUME ~doubled PROVE repostCount'[p] = Cardinality(RepostsOf(p)')
    BY <1>4
  <2>1. PICK r \in hit[t] : TRUE
    BY <1>2
  <2>2. hit[t] = {r}
    BY <1>2, <2>1 DEF OnceEach
  <2>3. r \in RepostsOf(p) /\ RepostsOf(p)' = RepostsOf(p) \ {r}
    BY <1>1, <1>2, <1>6, <2>2 DEF RepostsOf
  <2>4. Cardinality(RepostsOf(p)') = Cardinality(RepostsOf(p)) - 1 /\ Cardinality(RepostsOf(p)) \in Nat
    BY <2>3, FewRows, OneLess
  <2>5. IsFiniteSet(RepostsOf(p)')
    BY <2>3, FewRows, OneLess
  <2>6. Cardinality(RepostsOf(p)') \in Nat
    BY <2>5, FS_CardinalityType
  <2> QED
    BY <1>1, <1>3, <1>5, <1>6, <2>4, <2>6 DEF Exists
<1>7. CASE p # subject[t]
  <2>1. RepostsOf(p)' = RepostsOf(p)
    BY <1>1, <1>2, <1>7 DEF RepostsOf
  <2> QED
    BY <1>1, <1>3, <1>4, <1>5, <1>7, <2>1
<1> QED
  BY <1>6, <1>7

\* The commit of VotePoll.
LEMMA CommitVoteCounted ==
  ASSUME TimelineAssumption, Typed, Claims, Counted, NEW t \in Tx, CommitVote(t)
  PROVE  /\ \A q \in Poll : IsFiniteSet(Voters(q)') /\ totalVotes'[q] = Cardinality(Voters(q)')
         /\ \A o \in Option : IsFiniteSet(VotesFor(o)') /\ voteCount'[o] = Cardinality(VotesFor(o)')
<1>1. /\ subject[t] \in Poll /\ user[t] \in User /\ option[t] \in Option
      /\ \A q \in Poll, u \in User :
           votes'[q][u] = IF q = subject[t] /\ u = user[t] THEN option[t] ELSE votes[q][u]
  BY VoteCommitted
<1>2. votes[subject[t]][user[t]] = None /\ None \notin Option
  BY DEF CommitVote, Claims, Claim, Voted, TimelineAssumption
<1>3. /\ \A q \in Poll : totalVotes'[q] = IF q = subject[t] THEN totalVotes[q] + 1 ELSE totalVotes[q]
      /\ \A o \in Option : voteCount'[o] = IF o = option[t] THEN voteCount[o] + 1 ELSE voteCount[o]
  BY VoteCommitted
<1>4. ASSUME NEW q \in Poll
      PROVE  IsFiniteSet(Voters(q)') /\ totalVotes'[q] = Cardinality(Voters(q)')
  <2>1. IsFiniteSet(Voters(q)) /\ totalVotes[q] = Cardinality(Voters(q))
    BY DEF Counted, VotesExact
  <2>2. CASE q = subject[t]
    <3>1. Voters(q)' = Voters(q) \cup {user[t]} /\ user[t] \notin Voters(q)
      BY <1>1, <1>2, <2>2 DEF Voters
    <3>2. IsFiniteSet(Voters(q)') /\ Cardinality(Voters(q)') = Cardinality(Voters(q)) + 1
      BY <2>1, <3>1, OneMore
    <3> QED
      BY <1>3, <2>1, <2>2, <3>2
  <2>3. CASE q # subject[t]
    <3>1. Voters(q)' = Voters(q)
      BY <1>1, <2>3 DEF Voters
    <3> QED
      BY <1>3, <2>1, <2>3, <3>1
  <2> QED
    BY <2>2, <2>3
<1>5. ASSUME NEW o \in Option
      PROVE  IsFiniteSet(VotesFor(o)') /\ voteCount'[o] = Cardinality(VotesFor(o)')
  <2> DEFINE pair == <<subject[t], user[t]>>
  <2>1. IsFiniteSet(VotesFor(o)) /\ voteCount[o] = Cardinality(VotesFor(o))
    BY DEF Counted, VotesExact
  <2>2. CASE o = option[t]
    <3>1. VotesFor(o)' = VotesFor(o) \cup {pair} /\ pair \notin VotesFor(o)
      BY <1>1, <1>2, <2>2 DEF VotesFor
    <3>2. IsFiniteSet(VotesFor(o)') /\ Cardinality(VotesFor(o)') = Cardinality(VotesFor(o)) + 1
      <4> HIDE DEF pair
      <4> QED
        BY <2>1, <3>1, OneMore
    <3> QED
      BY <1>3, <2>1, <2>2, <3>2
  <2>3. CASE o # option[t]
    <3>1. VotesFor(o)' = VotesFor(o)
      BY <1>1, <1>2, <2>3 DEF VotesFor
    <3> QED
      BY <1>3, <2>1, <2>3, <3>1
  <2> QED
    BY <2>2, <2>3
<1> QED
  BY <1>4, <1>5

\* A step that leaves the rows of the posts there are, and their counters, alone.
LEMMA CountedKept ==
  ASSUME Counted, UNCHANGED <<likes, likeCount, reposts, repostCount, votes, voteCount, totalVotes>>,
         \A r \in reposts : subject'[r] = subject[r], doubled => doubled',
         \A p \in Post \cup reposts : commentCount'[p] = comments'[p]
  PROVE  Counted'
<1>1. /\ \A p \in Post \cup reposts : LikesOf(p)' = LikesOf(p) /\ RepostsOf(p)' = RepostsOf(p)
      /\ \A q \in Poll : Voters(q)' = Voters(q)
      /\ \A o \in Option : VotesFor(o)' = VotesFor(o)
  BY DEF LikesOf, RepostsOf, Voters, VotesFor
<1> QED
  BY <1>1 DEF Counted, CountsExactWhenSingle, VotesExact

\* What it takes for the counters to be right after a step that leaves the votes alone.
LEMMA CountedAgain ==
  ASSUME Counted, UNCHANGED <<votes, voteCount, totalVotes, doubled>>,
         IsFiniteSet(likes'), IsFiniteSet(reposts'),
         \A p \in Post \cup reposts' :
           /\ likeCount'[p] <= Cardinality(LikesOf(p)')
           /\ commentCount'[p] = comments'[p]
           /\ ~doubled => /\ likeCount'[p] = Cardinality(LikesOf(p)')
                          /\ repostCount'[p] = Cardinality(RepostsOf(p)')
  PROVE  Counted'
<1>1. /\ \A q \in Poll : Voters(q)' = Voters(q)
      /\ \A o \in Option : VotesFor(o)' = VotesFor(o)
  BY DEF Voters, VotesFor
<1> QED
  BY <1>1 DEF Counted, CountsExactWhenSingle, VotesExact

\* A step keeps the counters level with the rows.
LEMMA StepCounted ==
  ASSUME TimelineAssumption, Typed, Rooted, Claims, Alone, OnceEach, Counted, [Next]_vars
  PROVE  Counted'
<1>0. \A p \in Post \cup reposts :
        /\ likeCount[p] <= Cardinality(LikesOf(p))
        /\ commentCount[p] = comments[p]
        /\ ~doubled => /\ likeCount[p] = Cardinality(LikesOf(p))
                       /\ repostCount[p] = Cardinality(RepostsOf(p))
  BY DEF Counted, CountsExactWhenSingle, VotesExact
<1>1. ASSUME NEW t \in Tx, Start(t) PROVE Counted'
  <2>1. PICK u \in User, k \in Kind, x \in Row \cup Poll, o \in Option \cup {None} : Begin(t, k, u, x, o)
    BY <1>1, Started
  <2>2. /\ UNCHANGED <<rowVars, countVars>> /\ at[t] = "idle"
        /\ \A s \in Tx \ {t} : subject'[s] = subject[s]
    BY <2>1, Begun DEF Begin
  <2>3. doubled => doubled'
    BY <2>1 DEF Begin
  <2>4. \A r \in reposts : subject'[r] = subject[r]
    BY <2>1, <2>2, Begun DEF Rooted, Typed, TypeOK
  <2> QED
    BY <1>0, <2>1, <2>3, <2>4, Begun, CountedKept DEF rowVars, countVars
<1>2. ASSUME NEW t \in Tx, Quiet(t) PROVE Counted'
  BY <1>0, <1>2, CountedKept DEF Quiet, Inside, rowVars, countVars
<1>3. ASSUME NEW t \in Tx, CommitLike(t) PROVE Counted'
  <2>1. /\ UNCHANGED <<reposts, comments, votes, repostCount, commentCount, voteCount, totalVotes>>
        /\ UNCHANGED <<subject, doubled>>
        /\ \/ likes' = likes
           \/ likes' = likes \ {<<subject[t], user[t]>>}
           \/ likes' = likes \cup {<<subject[t], user[t]>>}
    BY <1>3, LikeCommitted DEF Committing, Inside
  <2>2. IsFiniteSet(likes) /\ IsFiniteSet(reposts')
    BY <2>1 DEF Counted
  <2>3. IsFiniteSet(likes')
    <3> DEFINE pair == <<subject[t], user[t]>>
    <3>1. IsFiniteSet(likes \ {pair}) /\ IsFiniteSet(likes \cup {pair})
      <4> HIDE DEF pair
      <4> QED
        BY <2>2, FS_AddElement, FS_RemoveElement
    <3> QED
      BY <2>1, <2>2, <3>1
  <2>4. \A p \in Post \cup reposts : RepostsOf(p)' = RepostsOf(p)
    BY <2>1 DEF RepostsOf
  <2>5. \A p \in Post \cup reposts : /\ likeCount'[p] <= Cardinality(LikesOf(p)')
                                     /\ ~doubled => likeCount'[p] = Cardinality(LikesOf(p)')
    BY <1>3, CommitLikeCounted
  <2> QED
    BY <1>0, <2>1, <2>2, <2>3, <2>4, <2>5, CountedAgain
<1>4. ASSUME NEW t \in Tx, CommitRepost(t) PROVE Counted'
  <2>1. /\ UNCHANGED <<likes, comments, votes, likeCount, commentCount, voteCount, totalVotes, doubled>>
        /\ reposts' = reposts \cup {t}
    BY <1>4, RepostCommitted DEF Committing, Inside
  <2>2. IsFiniteSet(likes') /\ IsFiniteSet(reposts')
    BY <2>1, FS_AddElement DEF Counted
  <2>3. \A p \in Post \cup reposts \cup {t} :
          /\ LikesOf(p)' = LikesOf(p)
          /\ likeCount[p] <= Cardinality(LikesOf(p)) /\ commentCount[p] = comments[p]
          /\ ~doubled => /\ likeCount[p] = Cardinality(LikesOf(p))
                         /\ repostCount'[p] = Cardinality(RepostsOf(p)')
    BY <1>4, CommitRepostCounted
  <2> QED
    BY <2>1, <2>2, <2>3, CountedAgain
<1>5. ASSUME NEW t \in Tx, CommitUnrepost(t) PROVE Counted'
  <2>1. /\ UNCHANGED <<votes, likeCount, commentCount, voteCount, totalVotes, doubled>>
        /\ reposts' = reposts \ hit[t] /\ likes' = {l \in likes : l[1] \notin hit[t]}
    BY <1>5, UnrepostCommitted DEF Committing, Inside
  <2>2. reposts' \subseteq reposts /\ likes' \subseteq likes
    BY <2>1
  <2>3. IsFiniteSet(likes') /\ IsFiniteSet(reposts')
    BY <2>2, FS_Subset DEF Counted
  <2>4. \A p \in Post \cup reposts' :
          /\ LikesOf(p)' = LikesOf(p) /\ comments'[p] = comments[p]
          /\ ~doubled => repostCount'[p] = Cardinality(RepostsOf(p)')
    BY <1>5, <2>1, CommitUnrepostCounted
  <2> QED
    BY <1>0, <2>1, <2>2, <2>3, <2>4, CountedAgain
<1>6. ASSUME NEW t \in Tx, CommitComment(t) PROVE Counted'
  <2>1. /\ UNCHANGED <<likes, reposts, votes, likeCount, repostCount, voteCount, totalVotes>>
        /\ UNCHANGED <<subject, doubled>>
        /\ \A q \in Row :
             /\ comments'[q] = IF q = subject[t] THEN comments[q] + 1 ELSE comments[q]
             /\ commentCount'[q] = IF q = subject[t] /\ Exists(subject[t]) THEN commentCount[q] + 1
                                   ELSE commentCount[q]
    BY <1>6, CommentCommitted DEF Committing, Inside
  <2>2. ASSUME NEW p \in Post \cup reposts PROVE commentCount'[p] = comments'[p]
    <3>1. p \in Row /\ Exists(p)
      BY DEF Row, Exists, Typed, TypeOK
    <3> QED
      BY <1>0, <2>1, <3>1
  <2> QED
    BY <2>1, <2>2, CountedKept
<1>7. ASSUME NEW t \in Tx, CommitVote(t) PROVE Counted'
  <2>1. /\ UNCHANGED <<likes, reposts, comments, likeCount, repostCount, commentCount>>
        /\ UNCHANGED <<subject, doubled>>
    BY <1>7, VoteCommitted DEF Committing, Inside
  <2>2. \A p \in Post \cup reposts : LikesOf(p)' = LikesOf(p) /\ RepostsOf(p)' = RepostsOf(p)
    BY <2>1 DEF LikesOf, RepostsOf
  <2> QED
    BY <1>0, <1>7, <2>1, <2>2, CommitVoteCounted DEF Counted, CountsExactWhenSingle, VotesExact
<1>8. ASSUME UNCHANGED vars PROVE Counted'
  BY <1>0, <1>8, CountedKept DEF vars, rowVars, countVars, argVars
<1> QED
  BY <1>1, <1>2, <1>3, <1>4, <1>5, <1>6, <1>7, <1>8, Steps
-----------------------------------------------------------------------------
\* All of it together is inductive.
THEOREM Invariance == Spec => []IInv
<1>1. Init => IInv
  <2> SUFFICES ASSUME Init PROVE IInv
    OBVIOUS
  <2>1. \A t \in Tx : at[t] \in {"idle", "done"}
    BY DEF Init
  <2>2. Exclusive /\ Claims /\ Alone
    BY <2>1 DEF Exclusive, Writing, Claims, Claim, Alone, Unrivalled, Open
  <2>3. ASSUME NEW r \in reposts, NEW s \in reposts, subject[r] = subject[s], user[r] = user[s]
        PROVE  r = s
    <3>1. /\ r \in Old /\ s \in Old /\ r \in Tx /\ s \in Tx
          /\ subject[r] = OriginalOf[r] /\ subject[s] = OriginalOf[s]
          /\ user[r] = AuthorOf[r] /\ user[s] = AuthorOf[s]
      BY TimelineAssumption DEF Init, TimelineAssumption
    <3> QED
      BY <2>3, <3>1, TimelineAssumption DEF TimelineAssumption
  <2>4. OnceEach
    BY <2>3 DEF OnceEach
  <2> QED
    BY <2>2, <2>4, InitTyped, InitCounted, TimelineAssumption DEF IInv
<1>2. IInv /\ [Next]_vars => IInv'
  <2> SUFFICES ASSUME IInv, [Next]_vars PROVE IInv'
    OBVIOUS
  <2>1. Typed'
    BY StepTyped, TimelineAssumption DEF IInv
  <2>2. Rooted'
    BY StepRooted, TimelineAssumption DEF IInv
  <2>3. Exclusive'
    BY StepExclusive DEF IInv
  <2>4. Claims'
    BY StepClaims, TimelineAssumption DEF IInv
  <2>5. Alone' /\ OnceEach'
    BY StepAlone, TimelineAssumption DEF IInv
  <2>6. Counted'
    BY StepCounted, TimelineAssumption DEF IInv
  <2> QED
    BY <2>1, <2>2, <2>3, <2>4, <2>5, <2>6 DEF IInv
<1> QED
  BY <1>1, <1>2, PTL DEF Spec

\* Every variable keeps the type of its column or local, repost counts never
\* below zero among them.
THEOREM TypeCorrect == Spec => []TypeOK
<1>1. IInv => TypeOK
  BY DEF IInv, Typed
<1> QED
  BY <1>1, Invariance, PTL

\* Likes and reposts are counted exactly while no user has two requests of a kind
\* open on one post, and no post ever shows more likes than it has.
THEOREM CountsExact == Spec => []CountsExactWhenSingle
<1>1. IInv => CountsExactWhenSingle
  BY DEF IInv, Counted
<1> QED
  BY <1>1, Invariance, PTL

\* Comments and poll votes are counted exactly, whatever happens.
THEOREM VotesCounted == Spec => []VotesExact
<1>1. IInv => VotesExact
  BY DEF IInv, Counted
<1> QED
  BY <1>1, Invariance, PTL

\* Transactions wait for each other in a circle only where one of them removes a
\* repost that others are about.
THEOREM OtherwiseDeadlockFree == Spec => []OnlyUndercutsDeadlock
<1>1. IInv => OnlyUndercutsDeadlock
  BY NoOtherDeadlock DEF IInv
<1> QED
  BY <1>1, Invariance, PTL
=============================================================================
