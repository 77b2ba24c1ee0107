------------------------------ MODULE Timeline ------------------------------
(***************************************************************************)
(* The transactions of internal/repository/timeline_repo.go that keep a    *)
(* denormalised counter beside the rows it counts: ToggleLike, Repost,     *)
(* Unrepost, CreateComment and VotePoll, at PostgreSQL's READ COMMITTED.   *)
(*                                                                         *)
(* A repost is itself a row of timeline_posts that can be liked, commented *)
(* on and reposted.  It is named here by the request that made it, whose   *)
(* caller is its author and whose subject its original.  Deleting it       *)
(* deletes its likes and comments and sets original_post_id of its own     *)
(* reposts to NULL (ON DELETE, migrations 000001 and 000003): a repost has *)
(* lost its original exactly when the original's row is gone.              *)
(*                                                                         *)
(* A statement sees what was committed when it began.  A row a transaction *)
(* has inserted, deleted or updated stays locked until it ends, and a      *)
(* conflicting statement waits for that.  So the effects of a transaction  *)
(* may be applied at its commit, and what it has locked follows from how   *)
(* far it is.  A DELETE that waited skips the rows that are gone by then.  *)
(* The key-share lock an INSERT takes on the post conflicts with deleting  *)
(* that post, not with updating it.                                        *)
(***************************************************************************)
EXTENDS Integers, FiniteSets

CONSTANTS
  User,
  Post,       \* rows of timeline_posts that are no reposts
  Poll,
  Option,     \* rows of poll_options
  PollOf,     \* the poll each option was created for
  Tx,         \* requests; each runs one transaction
  Old,        \* those that have made a repost before the model begins
  AuthorOf,   \* who has reposted
  OriginalOf, \* ... what
  Fans,       \* the likes there are in the beginning
  None

\* The ids of timeline_posts.
Row == Post \cup Tx

ASSUME TimelineAssumption ==
  /\ PollOf \in [Option -> Poll]
  /\ None \notin Option \cup Row
  /\ Post \cap Tx = {}
  /\ Poll \cap Row = {}
  /\ Old \subseteq Tx /\ IsFiniteSet(Old)
  /\ AuthorOf \in [Old -> User]
  /\ OriginalOf \in [Old -> Post]
  /\ \A r, s \in Old : AuthorOf[r] = AuthorOf[s] /\ OriginalOf[r] = OriginalOf[s] => r = s
  /\ Fans \subseteq (Post \cup Old) \X User /\ IsFiniteSet(Fans)

VARIABLES
  likes,       \* timeline_likes, UNIQUE(post_id, user_id)
  likeCount,   \* timeline_posts.like_count
  reposts,     \* the reposts there are
  repostCount, \* timeline_posts.repost_count
  comments,    \* how many comments each post has
  commentCount,\* timeline_posts.comment_count
  votes,       \* poll_votes, UNIQUE(poll_id, user_id): the option voted for
  voteCount,   \* poll_options.vote_count
  totalVotes,  \* polls.total_votes
  kind,        \* what each request does
  at,          \* how far its transaction is
  user,        \* the caller
  subject,     \* the post or poll it is about
  option,      \* the option voted for
  found,       \* ToggleLike: the like existed when checked
  hit,         \* reposts its DELETE is after or has got; for a like or a vote, its subject
  doubled      \* history: a user had two requests of a kind open on one subject

rowVars   == <<likes, reposts, comments, votes>>
countVars == <<likeCount, repostCount, commentCount, voteCount, totalVotes>>
argVars   == <<kind, user, subject, option, doubled>>
vars      == <<rowVars, countVars, argVars, at, found, hit>>

LikesOf(p) == {l \in likes : l[1] = p}
RepostsOf(p) == {r \in reposts : subject[r] = p}

Init ==
  /\ likes = Fans
  /\ likeCount = [p \in Row |-> Cardinality({l \in Fans : l[1] = p})]
  /\ reposts = Old
  /\ repostCount = [p \in Row |-> Cardinality({r \in Old : OriginalOf[r] = p})]
  /\ comments = [p \in Row |-> 0]
  /\ commentCount = [p \in Row |-> 0]
  /\ votes = [q \in Poll |-> [u \in User |-> None]]
  /\ voteCount = [o \in Option |-> 0]
  /\ totalVotes = [q \in Poll |-> 0]
  /\ kind = [t \in Tx |-> IF t \in Old THEN "repost" ELSE None]
  /\ at = [t \in Tx |-> IF t \in Old THEN "done" ELSE "idle"]
  /\ user = [t \in Tx |-> IF t \in Old THEN AuthorOf[t] ELSE None]
  /\ subject = [t \in Tx |-> IF t \in Old THEN OriginalOf[t] ELSE None]
  /\ option = [t \in Tx |-> None]
  /\ found = [t \in Tx |-> FALSE]
  /\ hit = [t \in Tx |-> {}]
  /\ doubled = FALSE

-----------------------------------------------------------------------------
(* Transactions and locks *)

Open(t) == at[t] \notin {"idle", "done", "aborted"}

Exists(p) == p \in Post \cup reposts

\* The other requests of the same kind by the same user on the same subject: the
\* only ones that can conflict over a like, repost or vote row or its key.
Rivals(t) == {s \in Tx \ {t} : /\ kind[s] = kind[t]
                                /\ user[s] = user[t]
                                /\ subject[s] = subject[t]}

Adds(t)    == kind[t] \in {"repost", "comment"} \/ (kind[t] = "like" /\ ~found[t])
Removes(t) == kind[t] = "unrepost" \/ (kind[t] = "like" /\ found[t])

\* The next statement of t is for the like or vote of its user, or its key.
NeedsKey(t) ==
  \/ kind[t] = "vote" /\ at[t] = "write"
  \/ kind[t] = "like" /\ at[t] = (IF found[t] THEN "delete" ELSE "write")

\* Mutant: the rows are locked as soon as the statement sees them.
HoldsOnceSeen(s, t) == s \in Rivals(t) /\ Open(s) /\ hit[s] # {}

\* A rival has inserted or deleted it and has not ended.
HoldsKey(s, t) == s \in Rivals(t) /\ at[s] \in {"count", "total", "commit"} /\ hit[s] # {}

\* s has deleted post p; its cascade has deleted p's likes and comments, too, and
\* set original_post_id of p's reposts to NULL.
Deletes(s, p)  == kind[s] = "unrepost" /\ at[s] \in {"cascade", "count", "commit"} /\ p \in hit[s]
Cascaded(s, p) == Deletes(s, p) /\ at[s] # "cascade"

\* The counter rows a transaction has updated: its post, or its option and poll.
HoldsPost(s, p)   == kind[s] # "vote" /\ at[s] = "commit" /\ subject[s] = p /\ Exists(p)
HoldsOption(s, o) == kind[s] = "vote" /\ at[s] \in {"total", "commit"} /\ option[s] = o
HoldsPoll(s, q)   == kind[s] = "vote" /\ at[s] = "commit" /\ subject[s] = q

\* s has updated post p, deleted it, or taken its original from it.
LocksPost(s, p) == \/ HoldsPost(s, p)
                   \/ Deletes(s, p)
                   \/ p \in reposts /\ Cascaded(s, subject[p])

\* The foreign key of the row s has inserted keeps post p from being deleted.
SharesKey(s, p) == Adds(s) /\ at[s] \in {"count", "commit"} /\ subject[s] = p

\* s has deleted a like of post p.
Unliked(s, p) == kind[s] = "like" /\ found[s] /\ at[s] \in {"count", "commit"} /\ p \in hit[s]

\* The next statement of t needs what s has locked.
WaitsFor(t, s) ==
  /\ s # t
  /\ \/ NeedsKey(t) /\ HoldsKey(s, t)
     \/ NeedsKey(t) /\ at[t] = "delete" /\ Cascaded(s, subject[t])
     \/ Adds(t) /\ at[t] = "write" /\ Deletes(s, subject[t])
     \/ kind[t] = "unrepost" /\ at[t] = "delete" /\ \E r \in hit[t] : LocksPost(s, r) \/ SharesKey(s, r)
     \/ at[t] = "cascade" /\ \E r \in hit[t] : Unliked(s, r) \/ \E x \in RepostsOf(r) : LocksPost(s, x)
     \/ at[t] = "count" /\ kind[t] # "vote" /\ LocksPost(s, subject[t])
     \/ at[t] = "count" /\ kind[t] = "vote" /\ HoldsOption(s, option[t])
     \/ at[t] = "total" /\ HoldsPoll(s, subject[t])

Free(t) == \A s \in Tx : ~WaitsFor(t, s)

Goto(t, step) == at' = [at EXCEPT ![t] = step]

Begin(t, k, u, x, o) ==
  /\ at[t] = "idle"
  /\ kind' = [kind EXCEPT ![t] = k]
  /\ user' = [user EXCEPT ![t] = u]
  /\ subject' = [subject EXCEPT ![t] = x]
  /\ option' = [option EXCEPT ![t] = o]
  /\ doubled' = (doubled \/ \E s \in Tx : Open(s) /\ kind[s] = k /\ user[s] = u /\ subject[s] = x)
  /\ Goto(t, IF k \in {"unrepost", "comment"} THEN "write" ELSE "check")
  /\ UNCHANGED <<rowVars, countVars, found, hit>>

\* The error returns run the deferred Rollback.
Abort(t) ==
  /\ Goto(t, "aborted")
  /\ UNCHANGED <<rowVars, countVars, argVars, found, hit>>

Touch(t, rows, step) ==
  /\ hit' = [hit EXCEPT ![t] = rows]
  /\ Goto(t, step)
  /\ UNCHANGED <<rowVars, countVars, argVars, found>>

\* The UPDATE of a counter of a post matches nothing when the post is gone.
WithCount(count, p, n) == IF Exists(p) THEN [count EXCEPT ![p] = n] ELSE count

-----------------------------------------------------------------------------
(* The DELETE statements of ToggleLike and Unrepost *)

Liked(t) == <<subject[t], user[t]>> \in likes

\* The reposts Unrepost is after.
Mine(t) == {r \in RepostsOf(subject[t]) : Exists(subject[t]) /\ user[r] = user[t]}

\* Mutant: Unrepost does not look at the rows affected either.
CountAnyway(t) == "count"

\* Once no row is left to delete ToggleLike goes on all the same, while Unrepost
\* looks at the rows affected and returns.
NothingLeft(t) == IF kind[t] = "like" THEN "count" ELSE "aborted"

\* The statement begins: these are the rows it sees.
BeginDelete(t) ==
  /\ at[t] = "write" /\ Removes(t)
  /\ LET seen == IF kind[t] = "unrepost" THEN Mine(t)
                 ELSE IF Liked(t) THEN {subject[t]} ELSE {}
     IN Touch(t, seen, IF seen # {} THEN "delete" ELSE NothingLeft(t))

Delete(t) ==
  /\ at[t] = "delete"
  /\ Free(t)
  /\ Touch(t, hit[t], IF kind[t] = "unrepost" THEN "cascade" ELSE "count")

\* The foreign keys to the deleted reposts: their likes and comments are deleted,
\* their own reposts updated.
Cascade(t) ==
  /\ at[t] = "cascade"
  /\ Free(t)
  /\ Touch(t, hit[t], "count")

\* What s is still after when t has committed: a repost without an original does
\* not match Unrepost's condition any more, and the like of a deleted post is gone.
Left(s, t) == IF kind[t] = "unrepost" /\ subject[s] \in hit[t] THEN {}
              ELSE IF s \in Rivals(t) THEN hit[s] \ hit[t]
              ELSE hit[s]

\* A DELETE commits: those waiting for its rows find them gone.
CommitDelete(t) ==
  LET left == [s \in Tx |-> IF at[s] = "delete" THEN Left(s, t) ELSE hit[s]]
  IN /\ hit' = left
     /\ at' = [s \in Tx |-> IF s = t THEN "done"
                            ELSE IF at[s] = "delete" /\ left[s] = {} THEN NothingLeft(s)
                            ELSE at[s]]

-----------------------------------------------------------------------------
(* ToggleLike *)

CheckLike(t) ==
  /\ kind[t] = "like" /\ at[t] = "check"
  /\ found' = [found EXCEPT ![t] = Liked(t)]
  /\ Goto(t, "write")
  /\ UNCHANGED <<rowVars, countVars, argVars, hit>>

\* INSERT, refused by the unique key when the like is there by now, and by the
\* foreign key when the post is gone.
InsertLike(t) ==
  /\ kind[t] = "like" /\ at[t] = "write" /\ ~found[t]
  /\ Free(t)
  /\ IF Liked(t) \/ ~Exists(subject[t]) THEN Abort(t) ELSE Touch(t, {subject[t]}, "count")

CommitLike(t) ==
  /\ kind[t] = "like" /\ at[t] = "commit"
  /\ LET p == subject[t] IN
       /\ likes' = IF hit[t] = {} THEN likes
                   ELSE IF found[t] THEN likes \ {<<p, user[t]>>}
                   ELSE likes \cup {<<p, user[t]>>}
       /\ likeCount' = WithCount(likeCount, p, IF found[t] THEN likeCount[p] - 1 ELSE likeCount[p] + 1)
  /\ IF found[t] THEN CommitDelete(t) ELSE Goto(t, "done") /\ UNCHANGED hit
  /\ UNCHANGED <<reposts, comments, votes, repostCount, commentCount, voteCount, totalVotes,
                 argVars, found>>

-----------------------------------------------------------------------------
(* Repost, Unrepost and CreateComment *)

\* "already reposted", which no key backs up, and "original post not found".
CheckRepost(t) ==
  /\ kind[t] = "repost" /\ at[t] = "check"
  /\ IF Mine(t) # {} \/ ~Exists(subject[t])
     THEN Abort(t)
     ELSE Goto(t, "write") /\ UNCHANGED <<rowVars, countVars, argVars, found, hit>>

InsertRow(t) ==
  /\ kind[t] \in {"repost", "comment"} /\ at[t] = "write"
  /\ Free(t)
  /\ IF Exists(subject[t]) THEN Touch(t, {}, "count") ELSE Abort(t)

CommitRepost(t) ==
  /\ kind[t] = "repost" /\ at[t] = "commit"
  /\ reposts' = reposts \cup {t}
  /\ repostCount' = WithCount(repostCount, subject[t], repostCount[subject[t]] + 1)
  /\ Goto(t, "done")
  /\ UNCHANGED <<likes, comments, votes, likeCount, commentCount, voteCount, totalVotes,
                 argVars, found, hit>>

\* The reposts are gone with their likes and their comments.
CommitUnrepost(t) ==
  /\ kind[t] = "unrepost" /\ at[t] = "commit"
  /\ reposts' = reposts \ hit[t]
  /\ likes' = {l \in likes : l[1] \notin hit[t]}
  /\ comments' = [p \in Row |-> IF p \in hit[t] THEN 0 ELSE comments[p]]
  /\ LET n == repostCount[subject[t]] IN
       repostCount' = WithCount(repostCount, subject[t], IF n > 1 THEN n - 1 ELSE 0)
  /\ CommitDelete(t)
  /\ UNCHANGED <<votes, likeCount, commentCount, voteCount, totalVotes, argVars, found>>

CommitComment(t) ==
  /\ kind[t] = "comment" /\ at[t] = "commit"
  /\ comments' = [comments EXCEPT ![subject[t]] = @ + 1]
  /\ commentCount' = WithCount(commentCount, subject[t], commentCount[subject[t]] + 1)
  /\ Goto(t, "done")
  /\ UNCHANGED <<likes, reposts, votes, likeCount, repostCount, voteCount, totalVotes,
                 argVars, found, hit>>

-----------------------------------------------------------------------------
(* VotePoll *)

Voted(t) == votes[subject[t]][user[t]] # None

CheckVote(t) ==
  /\ kind[t] = "vote" /\ at[t] = "check"
  /\ IF Voted(t)
     THEN Abort(t)
     ELSE Goto(t, "write") /\ UNCHANGED <<rowVars, countVars, argVars, found, hit>>

\* Mutant: poll_votes without its unique key.
InsertVoteAnyway(t) ==
  /\ kind[t] = "vote" /\ at[t] = "write"
  /\ Touch(t, {subject[t]}, "count")

InsertVote(t) ==
  /\ kind[t] = "vote" /\ at[t] = "write"
  /\ Free(t)
  /\ IF Voted(t) THEN Abort(t) ELSE Touch(t, {subject[t]}, "count")

\* Mutant: poll and option are swapped in the arguments of the INSERT.
VoteSwapped(t) ==
  /\ kind[t] = "vote" /\ at[t] = "commit"
  /\ votes' = [votes EXCEPT ![subject[t]][user[t]] = subject[t]]
  /\ voteCount' = [voteCount EXCEPT ![option[t]] = @ + 1]
  /\ totalVotes' = [totalVotes EXCEPT ![subject[t]] = @ + 1]
  /\ Goto(t, "done")
  /\ UNCHANGED <<likes, reposts, comments, likeCount, repostCount, commentCount,
                 argVars, found, hit>>

CommitVote(t) ==
  /\ kind[t] = "vote" /\ at[t] = "commit"
  /\ votes' = [votes EXCEPT ![subject[t]][user[t]] = option[t]]
  /\ voteCount' = [voteCount EXCEPT ![option[t]] = @ + 1]
  /\ totalVotes' = [totalVotes EXCEPT ![subject[t]] = @ + 1]
  /\ Goto(t, "done")
  /\ UNCHANGED <<likes, reposts, comments, likeCount, repostCount, commentCount,
                 argVars, found, hit>>

-----------------------------------------------------------------------------
\* The UPDATE of the counter: waits for the row, or for two rows one by one.
Count(t) ==
  /\ at[t] \in {"count", "total"}
  /\ Free(t)
  /\ Touch(t, hit[t], IF kind[t] = "vote" /\ at[t] = "count" THEN "total" ELSE "commit")

\* A statement fails, PostgreSQL ends a deadlock or the connection is lost: the
\* transaction rolls back.
Fail(t) == Open(t) /\ Abort(t)

Step(t) ==
  \/ CheckLike(t) \/ BeginDelete(t) \/ Delete(t) \/ Cascade(t) \/ InsertLike(t) \/ CommitLike(t)
  \/ CheckRepost(t) \/ InsertRow(t) \/ CommitRepost(t) \/ CommitUnrepost(t) \/ CommitComment(t)
  \/ CheckVote(t) \/ InsertVote(t) \/ CommitVote(t)
  \/ Count(t)

\* Any post that is there may be liked, commented on and reposted, reposts included.
Start(t) ==
  \E u \in User :
    \/ \E k \in {"like", "repost", "unrepost", "comment"}, p \in Post \cup reposts :
         Begin(t, k, u, p, None)
    \/ \E q \in Poll, o \in Option : Begin(t, "vote", u, q, o)

Next == \E t \in Tx : Start(t) \/ Step(t) \/ Fail(t)

Spec == Init /\ [][Next]_vars

-----------------------------------------------------------------------------
(* Properties *)

\* The variables have the types of the columns and of the Go locals.
TypeOK ==
  /\ likes \subseteq Row \X User
  /\ likeCount \in [Row -> Int]
  /\ reposts \subseteq Tx
  /\ repostCount \in [Row -> Nat]
  /\ comments \in [Row -> Nat]
  /\ commentCount \in [Row -> Nat]
  /\ votes \in [Poll -> [User -> Option \cup {None}]]
  /\ voteCount \in [Option -> Nat]
  /\ totalVotes \in [Poll -> Nat]
  /\ kind \in [Tx -> {"like", "repost", "unrepost", "comment", "vote", None}]
  /\ at \in [Tx -> {"idle", "check", "write", "delete", "cascade", "count", "total", "commit",
                    "done", "aborted"}]
  /\ user \in [Tx -> User \cup {None}]
  /\ subject \in [Tx -> Row \cup Poll \cup {None}]
  /\ option \in [Tx -> Option \cup {None}]
  /\ found \in [Tx -> BOOLEAN]
  /\ hit \in [Tx -> SUBSET (Row \cup Poll)]
  /\ doubled \in BOOLEAN

VotesFor(o) == {v \in Poll \X User : votes[v[1]][v[2]] = o}
Voters(q) == {u \in User : votes[q][u] # None}

\* Likes and reposts are counted exactly on every post and repost there is, whatever
\* different users do at the same time, as long as no user has two requests of a kind
\* open on one post; and even then a post never shows more likes than it has, for
\* the key refuses the second of two likes of one user.
CountsExactWhenSingle ==
  \A p \in Post \cup reposts :
    /\ likeCount[p] <= Cardinality(LikesOf(p))
    /\ doubled \/ /\ likeCount[p] = Cardinality(LikesOf(p))
                  /\ repostCount[p] = Cardinality(RepostsOf(p))

\* Comments and poll votes are counted exactly whatever happens: each post there is
\* shows its comments, each poll its voters, and each option the votes it got.
VotesExact ==
  /\ \A p \in Post \cup reposts : commentCount[p] = comments[p]
  /\ \A q \in Poll : totalVotes[q] = Cardinality(Voters(q))
  /\ \A o \in Option : voteCount[o] = Cardinality(VotesFor(o))

\* t is about a repost that s removes, or about a repost of one.
Undercuts(s, t) ==
  /\ kind[s] = "unrepost"
  /\ subject[t] \in hit[s] \/ (subject[t] \in reposts /\ subject[subject[t]] \in hit[s])

\* Transactions wait for each other in a circle only when one of them removes a
\* repost that another of them likes, comments on, reposts or removes a repost of, or
\* a repost of that: all others lock the counter rows after the counted rows, and
\* the poll after the option.
OnlyUndercutsDeadlock ==
  \A S \in SUBSET Tx : S # {} /\ (\A s, t \in S : ~Undercuts(s, t)) =>
    \E t \in S : \A s \in S : ~WaitsFor(t, s)
=============================================================================
