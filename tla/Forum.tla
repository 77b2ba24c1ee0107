------------------------------- MODULE Forum --------------------------------
(***************************************************************************)
(* The forum: handlers/forum.go and repository/forum_repo.go, statement by *)
(* statement, over the pool of database connections of db/postgres.go and  *)
(* beside the object store of services/storage_service.go.                 *)
(*                                                                         *)
(* A statement outside a transaction borrows a connection and gives it     *)
(* back; a transaction keeps its connection until it ends.  Two reads keep *)
(* one while they borrow another: GetPosts here, and GetFeed of            *)
(* repository/timeline_repo.go, which is therefore modelled beside it, for *)
(* all repositories are given the same pool.  Nothing limits how long a    *)
(* request waits for a connection.  Row locks and the effects of a         *)
(* transaction are as in Timeline: applied at the commit.                  *)
(***************************************************************************)
EXTENDS Integers, FiniteSets

CONSTANTS
  User,
  Member,   \* the users who are members of the building
  Post,
  Existing, \* the posts of a forum that is already in use
  Request,
  MaxConns, \* DB_MAX_OPEN_CONNS
  MaxNested,\* bound: the statements for media and polls that one feed makes
  None

ASSUME ForumAssumption ==
  /\ Member \subseteq User /\ Existing \subseteq Post
  /\ MaxConns \in Nat \ {0} /\ MaxNested \in Nat
  /\ IsFiniteSet(Request) /\ IsFiniteSet(User) /\ IsFiniteSet(Existing)
  /\ None \notin {"up", "down"}

VARIABLES
  posts,        \* forum_posts
  votes,        \* forum_votes, UNIQUE(post_id, user_id): "up", "down" or none
  tally,        \* forum_posts.upvotes and downvotes
  comments,     \* how many comments each post has
  commentCount, \* forum_posts.comment_count
  general,      \* how many categories have the slug 'general'
  objects,      \* the uploads the object store holds, named by their request
  media,        \* forum_media: the post and the object
  kind, user, post, value, \* what each request asks for
  at,           \* how far it is
  found,        \* Vote: the vote the transaction has read
  hit,          \* Vote: its statement on forum_votes gets a row
  left,         \* GetPosts, GetFeed: statements still to be made while the rows are open
  shown, listed,\* GetPostByID: comment_count, and the length of the list
  doubled       \* history: a user had two votes open on one post

rows   == <<posts, votes, tally, comments, commentCount, general, objects, media>>
args   == <<kind, user, post, value, doubled>>
locals == <<found, hit, left, shown, listed>>
vars   == <<rows, args, at, locals>>

Value == {"up", "down"}
Kind  == {"vote", "comment", "list", "feed", "create", "upload", "get"}

\* A forum with or without posts; votes and comments begin at nothing.
Init ==
  /\ posts \in {{}, Existing}
  /\ votes = [p \in Post |-> [u \in User |-> None]]
  /\ tally = [p \in Post |-> [v \in Value |-> 0]]
  /\ comments = [p \in Post |-> 0]
  /\ commentCount = [p \in Post |-> 0]
  /\ general \in {0, 1}
  /\ objects = {}
  /\ media = {}
  /\ kind = [t \in Request |-> None]
  /\ user = [t \in Request |-> None]
  /\ post = [t \in Request |-> None]
  /\ value = [t \in Request |-> None]
  /\ at = [t \in Request |-> "idle"]
  /\ found = [t \in Request |-> None]
  /\ hit = [t \in Request |-> FALSE]
  /\ left = [t \in Request |-> 0]
  /\ shown = [t \in Request |-> 0]
  /\ listed = [t \in Request |-> 0]
  /\ doubled = FALSE

-----------------------------------------------------------------------------
(* The connection pool and the row locks *)

Ended(t) == at[t] \in {"done", "failed"}
Open(t)  == at[t] # "idle" /\ ~Ended(t)

\* A transaction that has begun, or GetPosts or GetFeed while it ranges over its rows.
HoldsConn(t) == at[t] \in {"check", "write", "wait", "count", "commit", "media"}

\* A connection can be had.
Connection == Cardinality({t \in Request : HoldsConn(t)}) < MaxConns

\* Mutant: CreateComment updates the counter through the pool, not through tx.
NeedsOneMore(t) == at[t] \notin {"idle", "check", "write", "wait", "commit", "put", "done", "failed"}

\* The next step of t has to borrow a connection.
NeedsConn(t) ==
  at[t] \in {"begin", "access", "total", "rows", "media", "find", "general", "insert", "add",
            "row", "own", "attached", "list", "buildings", "followed"}

Rivals(t) == {s \in Request \ {t} : /\ kind[s] = "vote" /\ kind[t] = "vote"
                                    /\ user[s] = user[t] /\ post[s] = post[t]}

\* s has written the vote row, or the counters of the post, and has not ended.
HoldsVote(s) == at[s] \in {"count", "commit"} /\ hit[s]
HoldsPost(s) == at[s] = "commit"

\* The next statement of t needs a row that s has locked.
WaitsFor(t, s) ==
  \/ s \in Rivals(t) /\ HoldsVote(s) /\ (at[t] = "wait" \/ (at[t] = "write" /\ found[t] = None))
  \/ s # t /\ at[t] = "count" /\ HoldsPost(s) /\ post[s] = post[t]

Free(t) == \A s \in Request : ~WaitsFor(t, s)

Goto(t, step) == at' = [at EXCEPT ![t] = step]

\* t goes on and has changed nothing but where it is.
Move(t, step) == Goto(t, step) /\ UNCHANGED <<rows, args, locals>>

\* A statement outside a transaction that has no effect but its answer.
Read(t, from, to) == at[t] = from /\ Move(t, to)

-----------------------------------------------------------------------------
(* Vote and CreateComment: one transaction each *)

BeginTx(t) ==
  /\ at[t] = "begin"
  /\ Move(t, IF kind[t] = "vote" THEN "check" ELSE "write")

CheckVote(t) ==
  /\ at[t] = "check"
  /\ found' = [found EXCEPT ![t] = votes[post[t]][user[t]]]
  /\ Goto(t, "write")
  /\ UNCHANGED <<rows, args, hit, left, shown, listed>>

Write(t, got, step) ==
  /\ hit' = [hit EXCEPT ![t] = got]
  /\ Goto(t, step)
  /\ UNCHANGED <<rows, args, found, left, shown, listed>>

\* INSERT, DELETE or UPDATE of forum_votes.  The unique key refuses an INSERT;
\* nobody looks at the rows a DELETE or UPDATE affects.
WriteVote(t) ==
  /\ kind[t] = "vote" /\ at[t] = "write"
  /\ LET exists == votes[post[t]][user[t]] # None IN
       IF found[t] # None THEN Write(t, exists, IF exists THEN "wait" ELSE "count")
       ELSE Free(t) /\ (IF exists THEN Move(t, "failed") ELSE Write(t, TRUE, "count"))

\* The row a DELETE or UPDATE has found is no longer locked by others.
LockVote(t) == at[t] = "wait" /\ Free(t) /\ Move(t, "count")

\* Mutant: the comment is counted by a statement of its own, before the INSERT.
CountFirst(t) ==
  /\ kind[t] = "comment" /\ at[t] = "write"
  /\ commentCount' = [commentCount EXCEPT ![post[t]] = @ + 1]
  /\ Goto(t, "count")
  /\ UNCHANGED <<posts, votes, tally, comments, general, objects, media, args, locals>>

InsertComment(t) ==
  /\ kind[t] = "comment" /\ at[t] = "write"
  /\ Move(t, "count")

\* UPDATE forum_posts waits for whoever has updated the post.
Count(t) == at[t] = "count" /\ Free(t) /\ Move(t, "commit")

Removes(t) == found[t] = value[t]

\* Mutant: a changed vote is added to its new side and not taken from the old.
OnlyAdds(t, v) ==
  (IF value[t] = v /\ ~Removes(t) THEN 1 ELSE 0) - (IF found[t] = v /\ Removes(t) THEN 1 ELSE 0)

\* What the UPDATE adds to upvotes or downvotes, from the vote read at first.
Delta(t, v) ==
  (IF value[t] = v /\ ~Removes(t) THEN 1 ELSE 0) - (IF found[t] = v THEN 1 ELSE 0)

\* Rivals that wait for a row deleted by t go on without it.
CommitVote(t) ==
  /\ kind[t] = "vote" /\ at[t] = "commit"
  /\ votes' = IF hit[t] THEN [votes EXCEPT ![post[t]][user[t]] = IF Removes(t) THEN None ELSE value[t]]
              ELSE votes
  /\ tally' = [tally EXCEPT ![post[t]] = [v \in Value |-> @[v] + Delta(t, v)]]
  /\ LET losers == {s \in Rivals(t) : at[s] = "wait" /\ hit[t] /\ Removes(t)} IN
       /\ hit' = [s \in Request |-> hit[s] /\ s \notin losers]
       /\ at' = [s \in Request |-> IF s = t THEN "done" ELSE IF s \in losers THEN "count" ELSE at[s]]
  /\ UNCHANGED <<posts, comments, commentCount, general, objects, media, args, found, left, shown, listed>>

CommitComment(t) ==
  /\ kind[t] = "comment" /\ at[t] = "commit"
  /\ comments' = [comments EXCEPT ![post[t]] = @ + 1]
  /\ commentCount' = [commentCount EXCEPT ![post[t]] = @ + 1]
  /\ Goto(t, "done")
  /\ UNCHANGED <<posts, votes, tally, general, objects, media, args, locals>>

-----------------------------------------------------------------------------
(* GetPosts, CreatePost and UploadMedia, for members only *)

\* checkBuildingAccess; CreatePost goes on with the category it was given or with
\* the default one.
Access(t) ==
  /\ at[t] = "access"
  /\ IF user[t] \notin Member THEN Move(t, "failed")
     ELSE CASE kind[t] = "list"   -> Move(t, "total")
            [] kind[t] = "create" -> \E step \in {"find", "insert"} : Move(t, step)
            [] kind[t] = "upload" -> Move(t, "put")

\* A query whose rows are read one by one, with n statements more on the way: the
\* connection stays borrowed.
Query(t, n) ==
  /\ at[t] = "rows"
  /\ left' = [left EXCEPT ![t] = n]
  /\ Goto(t, IF n = 0 THEN "done" ELSE "media")
  /\ UNCHANGED <<rows, args, found, hit, shown, listed>>

QueryPosts(t) == kind[t] = "list" /\ Query(t, Cardinality(posts))

\* GetMedia, or a statement of GetPollByPost, inside rows.Next needs a second
\* connection; its error is dropped.
GetMedia(t) ==
  /\ at[t] = "media"
  /\ left' = [left EXCEPT ![t] = @ - 1]
  /\ Goto(t, IF left[t] = 1 THEN "done" ELSE "media")
  /\ UNCHANGED <<rows, args, found, hit, shown, listed>>

\* GetFeed of the timeline, which answers at once without buildings and followed
\* users; each post has its media, and a poll has statements of its own.
ReadFollowed(t) == \E step \in {"total", "done"} : Read(t, "followed", step)
QueryFeed(t) == kind[t] = "feed" /\ \E n \in 0 .. MaxNested : Query(t, n)

FindGeneral(t) == Read(t, "find", IF general > 0 THEN "insert" ELSE "general")

\* Mutant: forum_categories without UNIQUE(building_id, slug).
InsertGeneralAnyway(t) ==
  /\ at[t] = "general"
  /\ general' = general + 1
  /\ Goto(t, "insert")
  /\ UNCHANGED <<posts, votes, tally, comments, commentCount, objects, media, args, locals>>

InsertGeneral(t) ==
  /\ at[t] = "general"
  /\ IF general > 0 THEN Move(t, "failed")
     ELSE /\ general' = general + 1
          /\ Goto(t, "insert")
          /\ UNCHANGED <<posts, votes, tally, comments, commentCount, objects, media, args, locals>>

InsertPost(t) ==
  /\ at[t] = "insert"
  /\ posts' = posts \cup {post[t]}
  /\ Goto(t, "done")
  /\ UNCHANGED <<votes, tally, comments, commentCount, general, objects, media, args, locals>>

\* Mutant: the row is inserted while the file is still being sent.
PutLater(t) ==
  /\ at[t] = "put"
  /\ media' = media \cup {<<post[t], t>>}
  /\ Goto(t, "add")
  /\ UNCHANGED <<posts, votes, tally, comments, commentCount, general, objects, args, locals>>

PutObject(t) ==
  /\ at[t] = "put"
  /\ objects' = objects \cup {t}
  /\ Goto(t, "add")
  /\ UNCHANGED <<posts, votes, tally, comments, commentCount, general, media, args, locals>>

AddMedia(t) ==
  /\ at[t] = "add"
  /\ media' = media \cup {<<post[t], t>>}
  /\ Goto(t, "done")
  /\ UNCHANGED <<posts, votes, tally, comments, commentCount, general, objects, args, locals>>

-----------------------------------------------------------------------------
(* GetPostByID: four statements, each with a connection of its own *)

ReadRow(t) ==
  /\ at[t] = "row"
  /\ shown' = [shown EXCEPT ![t] = commentCount[post[t]]]
  /\ Goto(t, "own")
  /\ UNCHANGED <<rows, args, found, hit, left, listed>>

GetComments(t) ==
  /\ at[t] = "list"
  /\ listed' = [listed EXCEPT ![t] = comments[post[t]]]
  /\ Goto(t, "done")
  /\ UNCHANGED <<rows, args, found, hit, left, shown>>

-----------------------------------------------------------------------------
Start(t) ==
  /\ at[t] = "idle"
  /\ \E k \in Kind, u \in User, p \in Post \cup {None}, v \in Value \cup {None} :
       /\ CASE k \in {"list", "feed"} -> p = None
            [] k = "create" -> p \in Post \ posts /\ \A s \in Request : post[s] # p
            [] OTHER        -> p \in posts
       /\ (v = None) <=> k # "vote"
       /\ kind' = [kind EXCEPT ![t] = k]
       /\ user' = [user EXCEPT ![t] = u]
       /\ post' = [post EXCEPT ![t] = p]
       /\ value' = [value EXCEPT ![t] = v]
       /\ doubled' = (doubled \/ \E s \in Request : Open(s) /\ k = "vote" /\ kind[s] = k
                                                     /\ user[s] = u /\ post[s] = p)
       /\ Goto(t, CASE k \in {"vote", "comment"} -> "begin"
                    [] k = "get" -> "row"
                    [] k = "feed" -> "buildings"
                    [] OTHER -> "access")
  /\ UNCHANGED <<rows, locals>>

\* A statement fails, or its connection is lost.  Who waits for a connection
\* waits on: the request's context has no deadline.
Fail(t) == Open(t) /\ Move(t, "failed")

Step(t) ==
  \/ BeginTx(t) \/ CheckVote(t) \/ WriteVote(t) \/ LockVote(t) \/ InsertComment(t)
  \/ Count(t) \/ CommitVote(t) \/ CommitComment(t)
  \/ Access(t) \/ Read(t, "total", "rows") \/ QueryPosts(t) \/ GetMedia(t)
  \/ Read(t, "buildings", "followed") \/ ReadFollowed(t) \/ QueryFeed(t)
  \/ FindGeneral(t) \/ InsertGeneral(t) \/ InsertPost(t) \/ PutObject(t) \/ AddMedia(t)
  \/ ReadRow(t) \/ Read(t, "own", "attached") \/ Read(t, "attached", "list") \/ GetComments(t)

Next ==
  \E t \in Request :
    \/ Start(t)
    \/ (NeedsConn(t) => Connection) /\ (Step(t) \/ Fail(t))

Spec == Init /\ [][Next]_vars

-----------------------------------------------------------------------------
(* Properties *)

\* The variables have the types of the columns and of the Go locals.
TypeOK ==
  /\ posts \subseteq Post
  /\ votes \in [Post -> [User -> Value \cup {None}]]
  /\ tally \in [Post -> [Value -> Int]]
  /\ comments \in [Post -> Nat] /\ commentCount \in [Post -> Nat]
  /\ general \in {0, 1} \* however many first posts race
  /\ objects \subseteq Request
  /\ media \subseteq Post \X Request
  /\ kind \in [Request -> Kind \cup {None}]
  /\ user \in [Request -> User \cup {None}]
  /\ post \in [Request -> Post \cup {None}]
  /\ value \in [Request -> Value \cup {None}]
  /\ at \in [Request -> {"idle", "begin", "check", "write", "wait", "count", "commit", "access",
                         "total", "rows", "media", "find", "general", "insert", "put", "add",
                         "row", "own", "attached", "list", "buildings", "followed",
                         "done", "failed"}]
  /\ found \in [Request -> Value \cup {None}]
  /\ hit \in [Request -> BOOLEAN]
  /\ left \in [Request -> Nat] /\ shown \in [Request -> Nat] /\ listed \in [Request -> Nat]
  /\ doubled \in BOOLEAN

\* The up and down counters of a post agree with its votes, whatever different
\* users do at the same time, unless a user has two votes open on one post: then
\* both correct the counters for the one old vote they have read.
TallyWhenSingle ==
  doubled \/ \A p \in Post, v \in Value :
               tally[p][v] = Cardinality({u \in User : votes[p][u] = v})

\* The page of a post never lists fewer comments than its counter says, although
\* the counter and the list are read by different statements.
CommentsShown ==
  \A t \in Request : kind[t] = "get" /\ at[t] = "done" => shown[t] <= listed[t]

\* What forum_media refers to has been uploaded, and what has been uploaded is
\* referred to once its request has succeeded; only a failed upload leaves an
\* object nobody refers to.
MediaAreStored ==
  \A t \in Request :
    /\ (\E p \in Post : <<p, t>> \in media) => t \in objects
    /\ t \in objects /\ at[t] = "done" => <<post[t], t>> \in media

\* t cannot go on: it needs a connection, or a row somebody has locked.
Stuck(t) == Open(t) /\ (~Free(t) \/ (NeedsConn(t) /\ ~Connection))

\* Requests that have begun can always go on, one at least, unless as many lists of
\* posts and timeline feeds as there are connections hold one each and wait for one
\* more: no combination of row locks, transactions and other reads stops the server,
\* while MaxConns of these at a time stop it for good.
OnlyNestedReadsJam ==
  (\E t \in Request : Open(t)) /\ (\A t \in Request : Open(t) => Stuck(t))
    => Cardinality({t \in Request : at[t] = "media"}) >= MaxConns
=============================================================================
