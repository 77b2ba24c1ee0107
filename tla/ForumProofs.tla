---------------------------- MODULE ForumProofs -----------------------------
(***************************************************************************)
(* Proofs about Forum for any numbers of users, posts, requests and        *)
(* connections.                                                            *)
(***************************************************************************)
EXTENDS Forum, FiniteSetTheorems, TLAPS

\* A request waits for rows only in a transaction, and only for one that is
\* further on: first the vote, then the post.
LEMMA WaitsForLaterStage ==
  ASSUME NEW t \in Request, NEW s \in Request, WaitsFor(t, s)
  PROVE  \/ at[t] \in {"write", "wait"} /\ at[s] \in {"count", "commit"}
         \/ at[t] = "count" /\ at[s] = "commit"
  BY DEF WaitsFor, Rivals, HoldsVote, HoldsPost

\* When everybody is stuck nobody is inside a transaction: whoever is furthest on
\* in one waits for no row, and no longer needs a connection.
LEMMA NobodyInTransaction ==
  ASSUME \A t \in Request : Open(t) => Stuck(t)
  PROVE  \A t \in Request : at[t] \notin {"check", "write", "wait", "count", "commit"}
<1>1. \A t \in Request : Open(t) /\ ~NeedsConn(t) => \E s \in Request : WaitsFor(t, s)
  BY DEF Stuck, Free
<1>2. \A t \in Request : at[t] \notin {"check", "commit"}
  <2> SUFFICES ASSUME NEW t \in Request, at[t] \in {"check", "commit"} PROVE FALSE
    OBVIOUS
  <2>1. PICK s \in Request : WaitsFor(t, s)
    BY <1>1 DEF Open, Ended, NeedsConn
  <2> QED
    BY <2>1, WaitsForLaterStage
<1>3. \A t \in Request : at[t] # "count"
  <2> SUFFICES ASSUME NEW t \in Request, at[t] = "count" PROVE FALSE
    OBVIOUS
  <2>1. PICK s \in Request : WaitsFor(t, s)
    BY <1>1 DEF Open, Ended, NeedsConn
  <2> QED
    BY <2>1, <1>2, WaitsForLaterStage
<1>4. \A t \in Request : at[t] \notin {"write", "wait"}
  <2> SUFFICES ASSUME NEW t \in Request, at[t] \in {"write", "wait"} PROVE FALSE
    OBVIOUS
  <2>1. PICK s \in Request : WaitsFor(t, s)
    BY <1>1 DEF Open, Ended, NeedsConn
  <2> QED
    BY <2>1, <1>2, <1>3, WaitsForLaterStage
<1> QED
  BY <1>2, <1>3, <1>4

\* Only MaxConns nested reads, of lists of posts and timeline feeds, bring the server
\* to a stop: row locks, transactions and single statements never do, in whatever
\* numbers.
THEOREM NestedReadsAloneJam == Spec => []OnlyNestedReadsJam
<1>1. OnlyNestedReadsJam
  <2> SUFFICES ASSUME NEW t \in Request, Open(t), \A s \in Request : Open(s) => Stuck(s)
               PROVE  Cardinality({s \in Request : at[s] = "media"}) >= MaxConns
    BY DEF OnlyNestedReadsJam
  <2>1. \A s \in Request : HoldsConn(s) <=> at[s] = "media"
    BY NobodyInTransaction DEF HoldsConn
  <2>2. {s \in Request : HoldsConn(s)} = {s \in Request : at[s] = "media"}
    BY <2>1
  <2>3. ~Connection
    <3>1. Free(t)
      BY NobodyInTransaction, WaitsForLaterStage DEF Free
    <3> QED
      BY <3>1 DEF Stuck
  <2>4. IsFiniteSet({s \in Request : at[s] = "media"})
    BY FS_Subset, ForumAssumption
  <2>5. Cardinality({s \in Request : at[s] = "media"}) \in Nat
    BY <2>4, FS_CardinalityType
  <2> QED
    BY <2>2, <2>3, <2>5, ForumAssumption DEF Connection
<1> QED
  BY <1>1, PTL
-----------------------------------------------------------------------------
(* Types, the comments shown and the media stored *)

Stage == {"idle", "begin", "check", "write", "wait", "count", "commit", "access", "total", "rows",
          "media", "find", "general", "insert", "put", "add", "row", "own", "attached", "list",
          "buildings", "followed", "done", "failed"}

\* Which handler a stage belongs to.
Fits(k, stage) ==
  /\ stage \in {"check", "wait"} => k = "vote"
  /\ stage \in {"begin", "write", "count", "commit"} => k \in {"vote", "comment"}
  /\ stage = "access" => k \in {"list", "create", "upload"}
  /\ stage \in {"total", "rows", "media"} => k \in {"list", "feed"}
  /\ stage \in {"buildings", "followed"} => k = "feed"
  /\ stage \in {"find", "general", "insert"} => k = "create"
  /\ stage \in {"put", "add"} => k = "upload"
  /\ stage \in {"row", "own", "attached", "list"} => k = "get"

\* A request that has begun knows what it asks for, and the nested reads of a list
\* have a post left to read.
Asked(t) ==
  /\ Fits(kind[t], at[t])
  /\ at[t] = "media" => left[t] > 0
  /\ at[t] # "idle" =>
       /\ user[t] \in User /\ kind[t] \in Kind
       /\ kind[t] \notin {"list", "feed"} => post[t] \in Post
       /\ kind[t] = "vote" => value[t] \in Value

Typed == TypeOK /\ IsFiniteSet(posts) /\ \A t \in Request : Asked(t)

\* Nothing has been uploaded before its request puts it there, and a request that
\* has put it has not gone back.
Stored ==
  \A t \in Request :
    /\ at[t] = "add" => t \in objects
    /\ t \in objects => kind[t] = "upload" /\ at[t] \in {"add", "done", "failed"}
    /\ \A p \in Post : <<p, t>> \in media => t \in objects
    /\ t \in objects /\ at[t] = "done" => <<post[t], t>> \in media

\* The counter a page has read is not above the one of now, which is exact.
Shown ==
  /\ comments = commentCount
  /\ \A t \in Request :
       /\ at[t] \in {"own", "attached", "list"} => shown[t] <= commentCount[post[t]]
       /\ kind[t] = "get" /\ at[t] = "done" => shown[t] <= listed[t]

\* Without two votes of a user on one post, a vote's transaction still finds the
\* vote it has read, and gets its row.
Unrivalled(t) ==
  /\ \A s \in Rivals(t) : ~(Open(s) /\ Open(t))
  /\ kind[t] = "vote" /\ at[t] \in {"write", "wait", "count", "commit"} =>
       found[t] = votes[post[t]][user[t]]
  /\ kind[t] = "vote" /\ at[t] \in {"wait", "count", "commit"} => hit[t]

Single == ~doubled => \A t \in Request : Unrivalled(t)

IInv == Typed /\ Stored /\ Shown /\ Single /\ TallyWhenSingle

\* An entry of a table of tables is replaced.
LEMMA NestedExcept ==
  ASSUME NEW S, NEW T, NEW V, NEW f \in [S -> [T -> V]], NEW x \in S, NEW y \in T, NEW v \in V
  PROVE  LET g == [f EXCEPT ![x][y] = v]
         IN  /\ g \in [S -> [T -> V]]
             /\ \A a \in S, b \in T : g[a][b] = IF a = x /\ b = y THEN v ELSE f[a][b]
<1> DEFINE row == [f[x] EXCEPT ![y] = v]
<1>1. row \in [T -> V] /\ \A b \in T : row[b] = IF b = y THEN v ELSE f[x][b]
  OBVIOUS
<1>2. [f EXCEPT ![x][y] = v] = [f EXCEPT ![x] = row]
  OBVIOUS
<1> HIDE DEF row
<1> QED
  BY <1>1, <1>2

\* What a request asks for when it begins.
Asks(t, k, u, p, v) ==
  /\ at[t] = "idle"
  /\ k \notin {"list", "feed"} => p \in Post
  /\ v = None <=> k # "vote"
  /\ kind' = [kind EXCEPT ![t] = k]
  /\ user' = [user EXCEPT ![t] = u]
  /\ post' = [post EXCEPT ![t] = p]
  /\ value' = [value EXCEPT ![t] = v]
  /\ doubled' \in BOOLEAN
  /\ doubled' <=> (doubled \/ \E s \in Request : Open(s) /\ k = "vote" /\ kind[s] = k
                                               /\ user[s] = u /\ post[s] = p)
  /\ Goto(t, IF k \in {"vote", "comment"} THEN "begin" ELSE IF k = "get" THEN "row"
             ELSE IF k = "feed" THEN "buildings" ELSE "access")

\* Start is that, whichever handler the request is for.
LEMMA Started ==
  ASSUME Typed, NEW t \in Request, Start(t)
  PROVE  \E k \in Kind, u \in User, p \in Post \cup {None}, v \in Value \cup {None} :
           Asks(t, k, u, p, v)
<1>1. PICK k \in Kind, u \in User, p \in Post \cup {None}, v \in Value \cup {None} :
        /\ CASE k \in {"list", "feed"} -> p = None
             [] k = "create" -> p \in Post \ posts /\ \A s \in Request : post[s] # p
             [] OTHER        -> p \in posts
        /\ (v = None) <=> k # "vote"
        /\ kind' = [kind EXCEPT ![t] = k]
        /\ user' = [user EXCEPT ![t] = u]
        /\ post' = [post EXCEPT ![t] = p]
        /\ value' = [value EXCEPT ![t] = v]
        /\ doubled' = (doubled \/ \E s \in Request : Open(s) /\ k = "vote" /\ kind[s] = k
                                                      /\ user[s] = u /\ post[s] = p)
        /\ Goto(t, CASE k \in {"vote", "comment"} -> "begin"
                     [] k = "get" -> "row"
                     [] k = "feed" -> "buildings"
                     [] OTHER -> "access")
  BY Zenon DEF Start
<1>2. k \notin {"list", "feed"} => p \in Post
  BY <1>1 DEF Typed, TypeOK
<1>3. Goto(t, IF k \in {"vote", "comment"} THEN "begin" ELSE IF k = "get" THEN "row"
              ELSE IF k = "feed" THEN "buildings" ELSE "access")
  BY <1>1
<1>4. /\ doubled' \in BOOLEAN
      /\ doubled' <=> (doubled \/ \E s \in Request : Open(s) /\ k = "vote" /\ kind[s] = k
                                                    /\ user[s] = u /\ post[s] = p)
  BY <1>1, Zenon
<1>5. at[t] = "idle"
  BY DEF Start
<1>6. Asks(t, k, u, p, v)
  BY <1>1, <1>2, <1>3, <1>4, <1>5, Zenon DEF Asks
<1> QED
  BY <1>6

\* Nothing is asked anew when a request goes from one stage of its handler to another.
LEMMA Moved ==
  ASSUME Typed, UNCHANGED <<kind, user, post, value>>, NEW t \in Request, at[t] # "idle",
         NEW stage \in Stage \ {"idle"}, Goto(t, stage), Fits(kind[t], stage),
         \A s \in Request \ {t} : left'[s] = left[s], stage = "media" => left'[t] > 0
  PROVE  /\ at' \in [Request -> Stage]
         /\ at'[t] = stage /\ \A s \in Request \ {t} : at'[s] = at[s]
         /\ \A s \in Request : Asked(s)'
<1>1. /\ at' \in [Request -> Stage]
      /\ at'[t] = stage /\ \A s \in Request \ {t} : at'[s] = at[s]
  BY DEF Typed, TypeOK, Goto, Stage
<1> QED
  BY <1>1 DEF Typed, Asked

\* The vote, its counters and those waiting for it.
LEMMA VoteCommitted ==
  ASSUME Typed, NEW t \in Request, CommitVote(t)
  PROVE  /\ post[t] \in Post /\ user[t] \in User /\ value[t] \in Value
         /\ votes' \in [Post -> [User -> Value \cup {None}]]
         /\ tally' \in [Post -> [Value -> Int]]
         /\ \A p \in Post, u \in User :
              votes'[p][u] = IF hit[t] /\ p = post[t] /\ u = user[t]
                             THEN IF Removes(t) THEN None ELSE value[t]
                             ELSE votes[p][u]
         /\ \A p \in Post, v \in Value :
              tally'[p][v] = IF p = post[t] THEN tally[p][v] + Delta(t, v) ELSE tally[p][v]
         /\ hit' \in [Request -> BOOLEAN] /\ at' \in [Request -> Stage]
         /\ at'[t] = "done"
         /\ \A s \in Request \ {t} :
              IF s \in Rivals(t) /\ at[s] = "wait" /\ hit[t] /\ Removes(t)
              THEN at'[s] = "count" /\ ~hit'[s]
              ELSE at'[s] = at[s] /\ hit'[s] = hit[s]
<1>1. post[t] \in Post /\ user[t] \in User /\ value[t] \in Value
  BY DEF CommitVote, Typed, Asked
<1> DEFINE new == IF Removes(t) THEN None ELSE value[t]
           row == [v \in Value |-> tally[post[t]][v] + Delta(t, v)]
<1>2. new \in Value \cup {None} /\ votes \in [Post -> [User -> Value \cup {None}]]
  BY <1>1 DEF Typed, TypeOK
<1>3. votes' = IF hit[t] THEN [votes EXCEPT ![post[t]][user[t]] = new] ELSE votes
  BY DEF CommitVote
<1>4. tally \in [Post -> [Value -> Int]] /\ row \in [Value -> Int]
  BY <1>1 DEF Typed, TypeOK, Delta
<1>5. tally' = [tally EXCEPT ![post[t]] = row]
  BY DEF CommitVote
<1>6. /\ hit' \in [Request -> BOOLEAN] /\ at' \in [Request -> Stage]
      /\ at'[t] = "done"
      /\ \A s \in Request \ {t} :
           IF s \in Rivals(t) /\ at[s] = "wait" /\ hit[t] /\ Removes(t)
           THEN at'[s] = "count" /\ ~hit'[s]
           ELSE at'[s] = at[s] /\ hit'[s] = hit[s]
  BY DEF CommitVote, Typed, TypeOK, Stage
<1>7. /\ votes' \in [Post -> [User -> Value \cup {None}]]
      /\ \A p \in Post, u \in User :
           votes'[p][u] = IF hit[t] /\ p = post[t] /\ u = user[t] THEN new ELSE votes[p][u]
  <2> HIDE DEF new
  <2> QED
    BY <1>1, <1>2, <1>3, NestedExcept
<1>8. /\ tally' \in [Post -> [Value -> Int]]
      /\ \A p \in Post : p # post[t] => tally'[p] = tally[p]
      /\ tally'[post[t]] = row
  <2> HIDE DEF row
  <2> QED
    BY <1>1, <1>4, <1>5
<1> QED
  BY <1>1, <1>6, <1>7, <1>8

\* They hold when the server starts.
LEMMA InitTyped == Init => Typed
<1> SUFFICES ASSUME Init PROVE Typed
  OBVIOUS
<1>1. /\ votes \in [Post -> [User -> Value \cup {None}]] /\ tally \in [Post -> [Value -> Int]]
      /\ comments \in [Post -> Nat] /\ commentCount \in [Post -> Nat]
  BY DEF Init
<1>2. /\ kind \in [Request -> Kind \cup {None}] /\ user \in [Request -> User \cup {None}]
      /\ post \in [Request -> Post \cup {None}] /\ value \in [Request -> Value \cup {None}]
      /\ at \in [Request -> Stage] /\ found \in [Request -> Value \cup {None}]
      /\ hit \in [Request -> BOOLEAN] /\ left \in [Request -> Nat]
      /\ shown \in [Request -> Nat] /\ listed \in [Request -> Nat]
  BY DEF Init, Stage
<1>3. posts \subseteq Post /\ IsFiniteSet(posts)
  BY ForumAssumption, FS_EmptySet DEF Init
<1>4. \A t \in Request : Asked(t)
  BY DEF Init, Asked, Fits
<1> QED
  BY <1>1, <1>2, <1>3, <1>4 DEF Init, Typed, TypeOK, Stage

\* Every step keeps the types and what each request knows.
LEMMA StepTyped ==
  ASSUME Typed, [Next]_vars
  PROVE  Typed'
<1> USE DEF Typed
\* Where nothing changes but the stage.
<1>1. ASSUME NEW t \in Request, at[t] # "idle", NEW stage \in Stage \ {"idle", "media"},
             Move(t, stage), Fits(kind[t], stage)
      PROVE  Typed'
  <2>1. at' \in [Request -> Stage] /\ \A s \in Request : Asked(s)'
    BY <1>1, Moved DEF Move, args, locals
  <2> QED
    BY <1>1, <2>1 DEF Move, rows, args, locals, TypeOK, Stage
<1>2. ASSUME NEW t \in Request, Start(t) PROVE Typed'
  <2>1. PICK k \in Kind, u \in User, p \in Post \cup {None}, v \in Value \cup {None} :
          Asks(t, k, u, p, v)
    BY <1>2, Started
  <2> USE DEF Asks
  <2>2. UNCHANGED <<rows, locals>>
    BY <1>2 DEF Start
  <2>3. TypeOK' /\ IsFiniteSet(posts)'
    BY <2>1, <2>2 DEF TypeOK, Goto, rows, locals
  <2>4. ASSUME NEW s \in Request \ {t} PROVE Asked(s)'
    BY <2>1, <2>2, <2>4 DEF TypeOK, Asked, Goto, locals
  <2>5. Asked(t)'
    BY <2>1, <2>2 DEF TypeOK, Asked, Fits, Goto, locals, Kind
  <2> QED
    BY <2>3, <2>4, <2>5
<1>3. ASSUME NEW t \in Request, Fail(t) PROVE Typed'
  BY <1>1, <1>3 DEF Fail, Open, Stage, Fits
<1>4. ASSUME NEW t \in Request, BeginTx(t) PROVE Typed'
  BY <1>1, <1>4 DEF BeginTx, Stage, Fits, Asked
<1>5. ASSUME NEW t \in Request, CheckVote(t) PROVE Typed'
  <2>0. votes[post[t]][user[t]] \in Value \cup {None} /\ Fits(kind[t], "write")
    BY <1>5 DEF CheckVote, TypeOK, Asked, Fits
  <2>1. at' \in [Request -> Stage] /\ \A s \in Request : Asked(s)'
    BY <1>5, <2>0, Moved DEF CheckVote, args, Stage
  <2> QED
    BY <1>5, <2>0, <2>1 DEF CheckVote, rows, args, TypeOK, Stage
<1>6. ASSUME NEW t \in Request, at[t] # "idle", kind[t] = "vote", NEW got \in BOOLEAN,
             NEW stage \in {"wait", "count"}, Write(t, got, stage)
      PROVE  Typed'
  <2>1. at' \in [Request -> Stage] /\ \A s \in Request : Asked(s)'
    BY <1>6, Moved DEF Write, args, Stage, Fits
  <2> QED
    BY <1>6, <2>1 DEF Write, rows, args, TypeOK, Stage
<1>7. ASSUME NEW t \in Request, WriteVote(t) PROVE Typed'
  BY <1>1, <1>6, <1>7 DEF WriteVote, Stage, Fits
<1>8. ASSUME NEW t \in Request, LockVote(t) \/ InsertComment(t) \/ Count(t) PROVE Typed'
  BY <1>1, <1>8 DEF LockVote, InsertComment, Count, Stage, Fits, Asked
<1>9. ASSUME NEW t \in Request, CommitVote(t) PROVE Typed'
  <2>1. \A s \in Request : Asked(s)'
    BY <1>9, VoteCommitted DEF CommitVote, Asked, Fits, args, Rivals
  <2> QED
    BY <1>9, <2>1, VoteCommitted DEF CommitVote, TypeOK, args, Stage
<1>10. ASSUME NEW t \in Request, CommitComment(t) PROVE Typed'
  <2>1. at' \in [Request -> Stage] /\ \A s \in Request : Asked(s)'
    BY <1>10, Moved DEF CommitComment, args, locals, Stage, Fits
  <2> QED
    BY <1>10, <2>1 DEF CommitComment, args, locals, TypeOK, Stage, Asked
<1>11. ASSUME NEW t \in Request, Access(t) PROVE Typed'
  <2>1. at[t] = "access" /\ kind[t] \in {"list", "create", "upload"}
    BY <1>11 DEF Access, Asked, Fits
  <2>2. PICK stage \in {"failed", "total", "find", "insert", "put"} :
          Move(t, stage) /\ Fits(kind[t], stage)
    BY <1>11, <2>1 DEF Access, Fits
  <2> QED
    BY <1>1, <2>1, <2>2 DEF Stage
<1>12. ASSUME NEW t \in Request,
              \/ Read(t, "total", "rows") \/ Read(t, "own", "attached") \/ Read(t, "attached", "list")
              \/ Read(t, "buildings", "followed") \/ ReadFollowed(t)
       PROVE  Typed'
  BY <1>1, <1>12 DEF Read, ReadFollowed, Stage, Fits, Asked
<1>13. ASSUME NEW t \in Request, QueryPosts(t) \/ QueryFeed(t) PROVE Typed'
  <2>1. PICK n \in Nat : Query(t, n)
    BY <1>13, FS_CardinalityType, ForumAssumption DEF QueryPosts, QueryFeed
  <2>2. /\ left' \in [Request -> Nat] /\ left'[t] = n
        /\ \A s \in Request \ {t} : left'[s] = left[s]
    BY <2>1 DEF Query, TypeOK
  <2> DEFINE stage == IF n = 0 THEN "done" ELSE "media"
  <2>3. /\ at[t] # "idle" /\ Fits(kind[t], stage) /\ stage \in Stage \ {"idle"} /\ Goto(t, stage)
        /\ stage = "media" => left'[t] > 0
    BY <2>1, <2>2 DEF Query, Stage, Fits, Asked
  <2>4. at' \in [Request -> Stage] /\ \A s \in Request : Asked(s)'
    <3> HIDE DEF stage
    <3> QED
      BY <2>1, <2>2, <2>3, Moved DEF Query, args
  <2> QED
    BY <2>1, <2>2, <2>4 DEF Query, rows, args, TypeOK, Stage
<1>14. ASSUME NEW t \in Request, GetMedia(t) PROVE Typed'
  <2>1. /\ left' \in [Request -> Nat] /\ left'[t] = left[t] - 1
        /\ \A s \in Request \ {t} : left'[s] = left[s]
    BY <1>14 DEF GetMedia, TypeOK, Asked
  <2> DEFINE stage == IF left[t] = 1 THEN "done" ELSE "media"
  <2>2. /\ at[t] # "idle" /\ Fits(kind[t], stage) /\ stage \in Stage \ {"idle"} /\ Goto(t, stage)
        /\ stage = "media" => left'[t] > 0
    BY <1>14, <2>1 DEF GetMedia, Stage, Fits, Asked, TypeOK
  <2>3. at' \in [Request -> Stage] /\ \A s \in Request : Asked(s)'
    <3> HIDE DEF stage
    <3> QED
      BY <1>14, <2>1, <2>2, Moved DEF GetMedia, args
  <2> QED
    BY <1>14, <2>1, <2>3 DEF GetMedia, rows, args, TypeOK, Stage
<1>15. ASSUME NEW t \in Request, FindGeneral(t) PROVE Typed'
  BY <1>1, <1>15 DEF FindGeneral, Read, Stage, Fits, Asked
<1>16. ASSUME NEW t \in Request, InsertGeneral(t) PROVE Typed'
  <2>1. CASE Move(t, "failed")
    BY <1>1, <1>16, <2>1 DEF InsertGeneral, Stage, Fits
  <2>2. CASE ~Move(t, "failed")
    <3>1. at' \in [Request -> Stage] /\ \A s \in Request : Asked(s)'
      BY <1>16, <2>2, Moved DEF InsertGeneral, args, locals, Stage, Fits, Asked
    <3> QED
      BY <1>16, <2>2, <3>1 DEF InsertGeneral, args, locals, TypeOK, Stage
  <2> QED
    BY <2>1, <2>2
<1>17. ASSUME NEW t \in Request, InsertPost(t) PROVE Typed'
  <2>1. at' \in [Request -> Stage] /\ \A s \in Request : Asked(s)'
    BY <1>17, Moved DEF InsertPost, args, locals, Stage, Fits
  <2>2. IsFiniteSet(posts \cup {post[t]})
    BY FS_AddElement
  <2>3. post[t] \in Post
    BY <1>17 DEF InsertPost, Asked, Fits
  <2> QED
    BY <1>17, <2>1, <2>2, <2>3 DEF InsertPost, args, locals, TypeOK, Stage
<1>18. ASSUME NEW t \in Request, PutObject(t) \/ AddMedia(t) PROVE Typed'
  <2>1. at' \in [Request -> Stage] /\ \A s \in Request : Asked(s)'
    BY <1>18, Moved DEF PutObject, AddMedia, args, locals, Stage, Fits, Asked
  <2>2. post[t] \in Post
    BY <1>18 DEF PutObject, AddMedia, Asked, Fits
  <2> QED
    BY <1>18, <2>1, <2>2 DEF PutObject, AddMedia, args, locals, TypeOK, Stage
<1>19. ASSUME NEW t \in Request, ReadRow(t) \/ GetComments(t) PROVE Typed'
  <2>1. at' \in [Request -> Stage] /\ \A s \in Request : Asked(s)'
    BY <1>19, Moved DEF ReadRow, GetComments, args, Stage, Fits, Asked
  <2>2. post[t] \in Post
    BY <1>19 DEF ReadRow, GetComments, Asked, Fits
  <2> QED
    BY <1>19, <2>1, <2>2 DEF ReadRow, GetComments, rows, args, TypeOK, Stage
<1>20. ASSUME UNCHANGED vars PROVE Typed'
  BY <1>20 DEF vars, rows, args, locals, TypeOK, Asked
<1> QED
  BY <1>2, <1>3, <1>4, <1>5, <1>7, <1>8, <1>9, <1>10, <1>11, <1>12, <1>13, <1>14, <1>15, <1>16,
     <1>17, <1>18, <1>19, <1>20 DEF Next, Step
-----------------------------------------------------------------------------
\* Uploads: no other step takes an uploading request further than its failure.
LEMMA StoredKept ==
  ASSUME Stored, UNCHANGED <<objects, media, kind, post>>,
         \A s \in Request : \/ at'[s] = at[s]
                            \/ at'[s] = "failed" /\ at[s] # "done"
                            \/ at[s] \notin {"add", "done", "failed"} /\ at'[s] # "add"
  PROVE  Stored'
  BY DEF Stored

\* A step keeps what is known of the objects uploaded.
LEMMA StepStored ==
  ASSUME Typed, Stored, [Next]_vars
  PROVE  Stored'
<1>0. at \in [Request -> Stage] /\ \A t \in Request : Fits(kind[t], at[t])
  BY DEF Typed, TypeOK, Asked, Stage
<1>1. ASSUME NEW t \in Request, Start(t) PROVE Stored'
  <2>1. PICK k \in Kind, u \in User, p \in Post \cup {None}, v \in Value \cup {None} :
          Asks(t, k, u, p, v)
    BY <1>1, Started
  <2>2. UNCHANGED <<objects, media>>
    BY <1>1 DEF Start, rows
  <2>3. /\ at[t] = "idle" /\ at'[t] \notin {"add", "done", "failed"}
        /\ \A s \in Request \ {t} : kind'[s] = kind[s] /\ post'[s] = post[s] /\ at'[s] = at[s]
    BY <2>1 DEF Asks, Goto, Typed, TypeOK
  <2>4. t \notin objects
    BY <2>3 DEF Stored
  <2> QED
    BY <2>2, <2>3, <2>4 DEF Stored
<1>2. ASSUME NEW t \in Request, Fail(t) PROVE Stored'
  BY <1>0, <1>2, StoredKept DEF Fail, Open, Ended, Move, Goto, rows, args
<1>3. ASSUME NEW t \in Request,
             \/ BeginTx(t) \/ CheckVote(t) \/ WriteVote(t) \/ LockVote(t) \/ InsertComment(t) \/ Count(t)
      PROVE  Stored'
  BY <1>0, <1>3, StoredKept
  DEF BeginTx, CheckVote, WriteVote, Write, LockVote, InsertComment, Count, Move, Goto, rows, args
<1>4. ASSUME NEW t \in Request, CommitVote(t) PROVE Stored'
  BY <1>4, VoteCommitted, StoredKept DEF CommitVote, args
<1>5. ASSUME NEW t \in Request,
             \/ CommitComment(t) \/ InsertPost(t) \/ QueryPosts(t) \/ QueryFeed(t) \/ GetMedia(t) \/ InsertGeneral(t)
             \/ ReadRow(t) \/ GetComments(t)
      PROVE  Stored'
  BY <1>0, <1>5, StoredKept
  DEF CommitComment, InsertPost, QueryPosts, QueryFeed, Query, GetMedia, InsertGeneral, ReadRow, GetComments,
      Move, Goto, rows, args
<1>6. ASSUME NEW t \in Request,
             \/ Access(t) \/ Read(t, "total", "rows") \/ FindGeneral(t)
             \/ Read(t, "buildings", "followed") \/ ReadFollowed(t)
             \/ Read(t, "own", "attached") \/ Read(t, "attached", "list")
      PROVE  Stored'
  <2>1. PICK stage \in Stage \ {"add"} : Move(t, stage)
    BY <1>0, <1>6 DEF Access, Read, ReadFollowed, FindGeneral, Stage, Fits
  <2>2. at[t] \notin {"add", "done", "failed"}
    BY <1>6 DEF Access, Read, ReadFollowed, FindGeneral
  <2> QED
    BY <1>0, <2>1, <2>2, StoredKept DEF Move, Goto, rows, args
<1>7. ASSUME NEW t \in Request, PutObject(t) PROVE Stored'
  <2>1. /\ objects' = objects \cup {t} /\ UNCHANGED <<media, kind, post>> /\ kind[t] = "upload"
        /\ at'[t] = "add" /\ at[t] = "put" /\ \A s \in Request \ {t} : at'[s] = at[s]
    BY <1>0, <1>7 DEF PutObject, Goto, args, Fits
  <2> QED
    BY <2>1 DEF Stored
<1>8. ASSUME NEW t \in Request, AddMedia(t) PROVE Stored'
  <2>1. /\ media' = media \cup {<<post[t], t>>} /\ UNCHANGED <<objects, kind, post>>
        /\ at'[t] = "done" /\ at[t] = "add" /\ \A s \in Request \ {t} : at'[s] = at[s]
    BY <1>0, <1>8 DEF AddMedia, Goto, args
  <2> QED
    BY <2>1 DEF Stored
<1>9. ASSUME UNCHANGED vars PROVE Stored'
  BY <1>9 DEF vars, rows, args, Stored
<1> QED
  BY <1>1, <1>2, <1>3, <1>4, <1>5, <1>6, <1>7, <1>8, <1>9 DEF Next, Step
-----------------------------------------------------------------------------
\* Pages: while the counter stays, a page may go on to its later statements.
LEMMA ShownKept ==
  ASSUME Shown, UNCHANGED <<comments, commentCount, shown, listed, kind, post>>,
         \A s \in Request : \/ at'[s] = at[s]
                            \/ at[s] \in {"own", "attached"} /\ at'[s] \in {"attached", "list"}
                            \/ /\ at'[s] \notin {"own", "attached", "list"}
                               /\ ~(kind[s] = "get" /\ at'[s] = "done")
  PROVE  Shown'
  BY DEF Shown

\* A step keeps the comments listed level with those counted.
LEMMA StepShown ==
  ASSUME Typed, Shown, [Next]_vars
  PROVE  Shown'
<1>0. at \in [Request -> Stage] /\ \A t \in Request : Fits(kind[t], at[t])
  BY DEF Typed, TypeOK, Asked, Stage
<1>1. ASSUME NEW t \in Request, Start(t) PROVE Shown'
  <2>1. PICK k \in Kind, u \in User, p \in Post \cup {None}, v \in Value \cup {None} :
          Asks(t, k, u, p, v)
    BY <1>1, Started
  <2>2. UNCHANGED <<comments, commentCount, shown, listed>>
    BY <1>1 DEF Start, rows, locals
  <2>3. /\ at'[t] \notin {"own", "attached", "list", "done"}
        /\ \A s \in Request \ {t} : kind'[s] = kind[s] /\ post'[s] = post[s] /\ at'[s] = at[s]
    BY <2>1 DEF Asks, Goto, Typed, TypeOK
  <2> QED
    BY <2>2, <2>3 DEF Shown
<1>2. ASSUME NEW t \in Request, Fail(t) PROVE Shown'
  BY <1>0, <1>2, ShownKept DEF Fail, Move, Goto, rows, args, locals
<1>3. ASSUME NEW t \in Request,
             \/ BeginTx(t) \/ CheckVote(t) \/ WriteVote(t) \/ LockVote(t) \/ InsertComment(t) \/ Count(t)
      PROVE  Shown'
  BY <1>0, <1>3, ShownKept
  DEF BeginTx, CheckVote, WriteVote, Write, LockVote, InsertComment, Count, Move, Goto, rows, args, locals
<1>4. ASSUME NEW t \in Request, CommitVote(t) PROVE Shown'
  BY <1>4, VoteCommitted, ShownKept DEF CommitVote, args
<1>5. ASSUME NEW t \in Request,
             \/ InsertPost(t) \/ QueryPosts(t) \/ QueryFeed(t) \/ GetMedia(t) \/ InsertGeneral(t)
             \/ PutObject(t) \/ AddMedia(t)
      PROVE  Shown'
  BY <1>0, <1>5, ShownKept
  DEF InsertPost, QueryPosts, QueryFeed, Query, GetMedia, InsertGeneral, PutObject, AddMedia, Fits,
      Move, Goto, rows, args, locals
<1>6. ASSUME NEW t \in Request,
             \/ Access(t) \/ Read(t, "total", "rows") \/ FindGeneral(t)
             \/ Read(t, "buildings", "followed") \/ ReadFollowed(t)
      PROVE  Shown'
  <2>1. PICK stage \in Stage \ {"own", "attached", "list"} : Move(t, stage)
    BY <1>0, <1>6 DEF Access, Read, ReadFollowed, FindGeneral, Stage, Fits
  <2>2. kind[t] # "get"
    BY <1>0, <1>6 DEF Access, Read, ReadFollowed, FindGeneral, Fits
  <2> QED
    BY <1>0, <2>1, <2>2, ShownKept DEF Move, Goto, rows, args, locals
<1>7. ASSUME NEW t \in Request, Read(t, "own", "attached") \/ Read(t, "attached", "list") PROVE Shown'
  BY <1>0, <1>7, ShownKept DEF Read, Move, Goto, rows, args, locals
<1>8. ASSUME NEW t \in Request, CommitComment(t) PROVE Shown'
  <2>1. /\ UNCHANGED <<shown, listed, kind, post>> /\ kind[t] = "comment" /\ post[t] \in Post
        /\ at'[t] = "done" /\ \A s \in Request \ {t} : at'[s] = at[s]
    BY <1>0, <1>8 DEF CommitComment, Goto, args, locals, Typed, Asked
  <2>2. comments' = commentCount'
    BY <1>8 DEF CommitComment, Shown
  <2>3. commentCount \in [Post -> Nat] /\ shown \in [Request -> Nat]
    BY DEF Typed, TypeOK
  <2>4. \A p \in Post : commentCount'[p] >= commentCount[p] /\ commentCount'[p] \in Nat
    BY <1>8, <2>1, <2>3 DEF CommitComment
  <2>5. \A s \in Request : at[s] \in {"own", "attached", "list"} => post[s] \in Post
    BY DEF Typed, Asked, Fits
  <2> QED
    BY <2>1, <2>2, <2>3, <2>4, <2>5 DEF Shown
<1>9. ASSUME NEW t \in Request, ReadRow(t) \/ GetComments(t) PROVE Shown'
  <2>1. /\ UNCHANGED <<comments, commentCount, kind, post>> /\ kind[t] = "get" /\ post[t] \in Post
        /\ \A s \in Request \ {t} : at'[s] = at[s] /\ shown'[s] = shown[s] /\ listed'[s] = listed[s]
    BY <1>0, <1>9 DEF ReadRow, GetComments, Goto, rows, args, Typed, TypeOK, Asked, Fits
  <2>2. commentCount[post[t]] \in Nat /\ comments[post[t]] = commentCount[post[t]]
    BY <2>1 DEF Shown, Typed, TypeOK
  <2>3. CASE ReadRow(t)
    <3>1. shown'[t] = commentCount[post[t]] /\ at'[t] = "own"
      BY <1>0, <2>3 DEF ReadRow, Goto, Typed, TypeOK
    <3> QED
      BY <2>1, <2>2, <3>1 DEF Shown
  <2>4. CASE GetComments(t)
    <3>1. listed'[t] = comments[post[t]] /\ shown'[t] = shown[t] /\ at'[t] = "done" /\ at[t] = "list"
      BY <1>0, <2>4 DEF GetComments, Goto, Typed, TypeOK
    <3> QED
      BY <2>1, <2>2, <3>1 DEF Shown
  <2> QED
    BY <1>9, <2>3, <2>4
<1>10. ASSUME UNCHANGED vars PROVE Shown'
  BY <1>10 DEF vars, rows, args, locals, Shown
<1> QED
  BY <1>1, <1>2, <1>3, <1>4, <1>5, <1>6, <1>7, <1>8, <1>9, <1>10 DEF Next, Step
-----------------------------------------------------------------------------
\* Votes: what a vote's transaction has read stays while the votes do.
LEMMA SingleKept ==
  ASSUME Single, UNCHANGED <<kind, user, post, votes>>, doubled => doubled',
         \A s \in Request : /\ Open(s)' => Open(s)
                            /\ \/ at'[s] = at[s] /\ found'[s] = found[s] /\ hit'[s] = hit[s]
                               \/ kind[s] # "vote" \/ ~Open(s)'
                               \/ at'[s] = "check"
                               \/ at'[s] = "write" /\ found'[s] = votes[post[s]][user[s]]
                               \/ /\ at[s] \in {"write", "wait", "count"}
                                  /\ at'[s] \in {"wait", "count", "commit"}
                                  /\ found'[s] = found[s] /\ (~doubled => hit'[s])
  PROVE  Single'
<1> SUFFICES ASSUME ~doubled', NEW t \in Request PROVE Unrivalled(t)'
  BY DEF Single
<1>1. Unrivalled(t) /\ ~doubled
  BY DEF Single
<1>2. \A s \in Rivals(t)' : ~(Open(s) /\ Open(t))'
  BY <1>1 DEF Unrivalled, Rivals
<1>3. /\ at'[t] \in {"write", "wait", "count", "commit"} => Open(t)'
      /\ at'[t] # "check" \/ at'[t] \notin {"write", "wait", "count", "commit"}
  BY DEF Open, Ended
<1> QED
  BY <1>1, <1>2, <1>3 DEF Unrivalled

\* A step keeps a vote that is its user's only one on the post undisturbed.
LEMMA StepSingle ==
  ASSUME Typed, Single, [Next]_vars
  PROVE  Single'
<1>0. /\ at \in [Request -> Stage] /\ \A t \in Request : Fits(kind[t], at[t])
      /\ found \in [Request -> Value \cup {None}] /\ hit \in [Request -> BOOLEAN]
  BY DEF Typed, TypeOK, Asked, Stage
<1>1. ASSUME NEW t \in Request, Start(t) PROVE Single'
  <2>1. PICK k \in Kind, u \in User, p \in Post \cup {None}, v \in Value \cup {None} :
          Asks(t, k, u, p, v)
    BY <1>1, Started
  <2>2. UNCHANGED <<votes, found, hit>>
    BY <1>1 DEF Start, rows, locals
  <2>3. /\ at[t] = "idle" /\ at'[t] \in {"begin", "row", "access", "buildings"}
        /\ kind'[t] = k /\ user'[t] = u /\ post'[t] = p
        /\ \A s \in Request \ {t} : /\ kind'[s] = kind[s] /\ post'[s] = post[s]
                                    /\ user'[s] = user[s] /\ at'[s] = at[s]
    BY <2>1 DEF Asks, Goto, Typed, TypeOK
  <2> SUFFICES ASSUME ~doubled', NEW r \in Request PROVE Unrivalled(r)'
    BY DEF Single
  <2>4. /\ ~doubled
        /\ k = "vote" => \A s \in Request : Open(s) => ~(kind[s] = k /\ user[s] = u /\ post[s] = p)
    BY <2>1 DEF Asks
  <2>5. Unrivalled(r)
    BY <2>4 DEF Single
  <2>6. \A s \in Rivals(r)' : ~(Open(s) /\ Open(r))'
    BY <2>3, <2>4, <2>5 DEF Unrivalled, Rivals, Open, Ended
  <2> QED
    BY <2>2, <2>3, <2>5, <2>6 DEF Unrivalled
<1>2. ASSUME NEW t \in Request, Fail(t) PROVE Single'
  BY <1>0, <1>2, SingleKept DEF Fail, Open, Ended, Move, Goto, rows, args, locals
<1>3. ASSUME NEW t \in Request, BeginTx(t) \/ InsertComment(t) PROVE Single'
  BY <1>0, <1>3, SingleKept DEF BeginTx, InsertComment, Open, Ended, Move, Goto, rows, args, locals
<1>4. ASSUME NEW t \in Request, CheckVote(t) PROVE Single'
  BY <1>0, <1>4, SingleKept DEF CheckVote, Open, Ended, Goto, rows, args
<1>5. ASSUME NEW t \in Request, WriteVote(t) PROVE Single'
  <2>1. ~doubled => found[t] = votes[post[t]][user[t]]
    BY <1>5 DEF Single, Unrivalled, WriteVote
  <2>2. CASE Move(t, "failed")
    BY <1>0, <1>5, <2>2, SingleKept DEF WriteVote, Open, Ended, Move, Goto, rows, args, locals
  <2>3. CASE ~Move(t, "failed")
    BY <1>0, <1>5, <2>1, <2>3, SingleKept DEF WriteVote, Write, Open, Ended, Goto, rows, args
  <2> QED
    BY <2>2, <2>3
<1>6. ASSUME NEW t \in Request, LockVote(t) \/ Count(t) PROVE Single'
  <2>1. ~doubled /\ kind[t] = "vote" => hit[t]
    BY <1>6 DEF Single, Unrivalled, LockVote, Count
  <2> QED
    BY <1>0, <1>6, <2>1, SingleKept DEF LockVote, Count, Open, Ended, Move, Goto, rows, args, locals
<1>7. ASSUME NEW t \in Request, CommitVote(t) PROVE Single'
  <2> SUFFICES ASSUME ~doubled, NEW r \in Request PROVE Unrivalled(r)'
    BY <1>7 DEF Single, CommitVote, args
  <2>1. UNCHANGED <<kind, user, post, found>> /\ kind[t] = "vote" /\ at[t] = "commit"
    BY <1>7 DEF CommitVote, args
  <2>2. \A s \in Rivals(t) : ~Open(s)
    BY <2>1 DEF Single, Unrivalled, Open, Ended
  <2>3. at'[t] = "done" /\ \A s \in Request \ {t} : at'[s] = at[s] /\ hit'[s] = hit[s]
    BY <1>7, <2>2, VoteCommitted DEF Open, Ended
  <2>4. CASE r = t
    BY <2>3, <2>4 DEF Unrivalled, Open, Ended
  <2>5. CASE r # t
    <3>1. kind[r] = "vote" /\ at[r] \in {"write", "wait", "count", "commit"} =>
            votes'[post[r]][user[r]] = votes[post[r]][user[r]]
      <4> SUFFICES ASSUME kind[r] = "vote", at[r] \in {"write", "wait", "count", "commit"}
                   PROVE  votes'[post[r]][user[r]] = votes[post[r]][user[r]]
        OBVIOUS
      <4>1. post[r] \in Post /\ user[r] \in User
        BY DEF Typed, Asked
      <4>2. post[r] # post[t] \/ user[r] # user[t]
        BY <2>1, <2>2, <2>5 DEF Rivals, Open, Ended
      <4> QED
        BY <1>7, <4>1, <4>2, VoteCommitted
    <3> QED
      BY <2>1, <2>3, <2>5, <3>1 DEF Single, Unrivalled, Rivals, Open, Ended
  <2> QED
    BY <2>4, <2>5
<1>8. ASSUME NEW t \in Request,
             \/ CommitComment(t) \/ InsertPost(t) \/ QueryPosts(t) \/ QueryFeed(t) \/ GetMedia(t) \/ InsertGeneral(t)
             \/ PutObject(t) \/ AddMedia(t) \/ ReadRow(t) \/ GetComments(t)
      PROVE  Single'
  <2>1. /\ UNCHANGED <<kind, user, post, votes, doubled>> /\ kind[t] # "vote" /\ Open(t)
        /\ \A s \in Request \ {t} : at'[s] = at[s] /\ found'[s] = found[s] /\ hit'[s] = hit[s]
    BY <1>0, <1>8
    DEF CommitComment, InsertPost, QueryPosts, QueryFeed, Query, GetMedia, InsertGeneral, PutObject, AddMedia, ReadRow,
        GetComments, Fits, Open, Ended, Move, Goto, rows, args, locals
  <2> QED
    BY <2>1, SingleKept DEF Open, Ended
<1>9. ASSUME NEW t \in Request,
             \/ Access(t) \/ Read(t, "total", "rows") \/ FindGeneral(t)
             \/ Read(t, "buildings", "followed") \/ ReadFollowed(t)
             \/ Read(t, "own", "attached") \/ Read(t, "attached", "list")
      PROVE  Single'
  <2>1. PICK stage \in Stage : Move(t, stage)
    BY <1>0, <1>9 DEF Access, Read, ReadFollowed, FindGeneral, Stage, Fits
  <2>2. kind[t] # "vote" /\ Open(t)
    BY <1>0, <1>9 DEF Access, Read, ReadFollowed, FindGeneral, Fits, Open, Ended
  <2> QED
    BY <1>0, <2>1, <2>2, SingleKept DEF Move, Goto, rows, args, locals, Open, Ended
<1>10. ASSUME UNCHANGED vars PROVE Single'
  BY <1>10 DEF vars, rows, args, locals, Single, Unrivalled, Rivals, Open, Ended
<1> QED
  BY <1>1, <1>2, <1>3, <1>4, <1>5, <1>6, <1>7, <1>8, <1>9, <1>10 DEF Next, Step
-----------------------------------------------------------------------------
\* A vote that is alone changes the counters by what it changes among the votes.
LEMMA StepTally ==
  ASSUME Typed, Single, TallyWhenSingle, [Next]_vars
  PROVE  TallyWhenSingle'
<1>1. ASSUME NEW t \in Request, CommitVote(t) PROVE TallyWhenSingle'
  <2> SUFFICES ASSUME ~doubled, NEW p \in Post, NEW v \in Value
               PROVE  tally'[p][v] = Cardinality({u \in User : votes'[p][u] = v})
    BY <1>1 DEF TallyWhenSingle, CommitVote, args
  <2> DEFINE before == {u \in User : votes[p][u] = v}
             after  == {u \in User : votes'[p][u] = v}
  <2>1. /\ IsFiniteSet(before) /\ Cardinality(before) \in Nat /\ tally[p][v] = Cardinality(before)
    <3>1. IsFiniteSet(before)
      BY ForumAssumption, FS_Subset
    <3> QED
      BY <3>1, FS_CardinalityType DEF TallyWhenSingle
  <2>2. /\ hit[t] /\ found[t] = votes[post[t]][user[t]]
        /\ post[t] \in Post /\ user[t] \in User /\ value[t] \in Value
    BY <1>1, VoteCommitted DEF CommitVote, Single, Unrivalled
  <2> DEFINE new == IF Removes(t) THEN None ELSE value[t]
  <2>3. \A u \in User : votes'[p][u] = IF p = post[t] /\ u = user[t] THEN new ELSE votes[p][u]
    BY <1>1, <2>2, VoteCommitted
  <2>4. tally'[p][v] = IF p = post[t] THEN tally[p][v] + Delta(t, v) ELSE tally[p][v]
    BY <1>1, VoteCommitted
  <2>5. None # v
    BY ForumAssumption DEF Value
  <2>6. Delta(t, v) = (IF new = v THEN 1 ELSE 0) - (IF found[t] = v THEN 1 ELSE 0)
    BY <2>5 DEF Delta
  <2> HIDE DEF new
  <2>7. CASE p # post[t]
    <3>1. after = before
      BY <2>3, <2>7
    <3> QED
      BY <2>1, <2>4, <2>7, <3>1
  <2>8. CASE p = post[t] /\ new = v /\ found[t] # v
    <3>1. after = before \cup {user[t]} /\ user[t] \notin before
      BY <2>2, <2>3, <2>8
    <3>2. Cardinality(after) = Cardinality(before) + 1
      BY <2>1, <3>1, FS_AddElement
    <3> QED
      BY <2>1, <2>4, <2>6, <2>8, <3>2
  <2>9. CASE p = post[t] /\ new # v /\ found[t] = v
    <3>1. after = before \ {user[t]} /\ user[t] \in before
      BY <2>2, <2>3, <2>9
    <3>2. Cardinality(after) = Cardinality(before) - 1
      BY <2>1, <3>1, FS_RemoveElement
    <3> QED
      BY <2>1, <2>4, <2>6, <2>9, <3>2
  <2>10. CASE p = post[t] /\ (new = v <=> found[t] = v)
    <3>1. after = before
      BY <2>2, <2>3, <2>10
    <3>2. Delta(t, v) = 0
      BY <2>6, <2>10
    <3>3. tally'[p][v] = tally[p][v]
      BY <2>1, <2>4, <2>10, <3>2
    <3> QED
      BY <2>1, <3>1, <3>3
  <2> QED
    BY <2>7, <2>8, <2>9, <2>10
<1>2. ASSUME UNCHANGED <<votes, tally>>, doubled => doubled' PROVE TallyWhenSingle'
  BY <1>2 DEF TallyWhenSingle
<1>3. ASSUME NEW t \in Request, Start(t) PROVE TallyWhenSingle'
  <2>1. PICK k \in Kind, u \in User, p \in Post \cup {None}, v \in Value \cup {None} :
          Asks(t, k, u, p, v)
    BY <1>3, Started
  <2> QED
    BY <1>2, <1>3, <2>1 DEF Start, rows, Asks
<1>4. ASSUME NEW t \in Request,
             \/ Fail(t) \/ BeginTx(t) \/ CheckVote(t) \/ WriteVote(t) \/ LockVote(t) \/ InsertComment(t)
             \/ Count(t) \/ CommitComment(t) \/ InsertPost(t) \/ QueryPosts(t) \/ QueryFeed(t) \/ GetMedia(t)
             \/ FindGeneral(t) \/ InsertGeneral(t) \/ PutObject(t) \/ AddMedia(t) \/ ReadRow(t)
             \/ GetComments(t) \/ Read(t, "total", "rows") \/ Read(t, "own", "attached")
             \/ Read(t, "attached", "list") \/ Read(t, "buildings", "followed") \/ ReadFollowed(t)
      PROVE  TallyWhenSingle'
  BY <1>2, <1>4
  DEF Fail, BeginTx, CheckVote, WriteVote, Write, LockVote, InsertComment, Count, CommitComment,
      InsertPost, QueryPosts, QueryFeed, Query, GetMedia, FindGeneral, InsertGeneral, PutObject, AddMedia, ReadRow,
      GetComments, Read, ReadFollowed, Move, rows, args
<1>5. ASSUME NEW t \in Request, Access(t) PROVE TallyWhenSingle'
  <2>1. kind[t] \in {"list", "create", "upload"}
    BY <1>5 DEF Access, Typed, Asked, Fits
  <2> QED
    BY <1>2, <1>5, <2>1 DEF Access, Move, rows, args
<1>6. ASSUME UNCHANGED vars PROVE TallyWhenSingle'
  BY <1>2, <1>6 DEF vars, rows, args
<1> QED
  BY <1>1, <1>3, <1>4, <1>5, <1>6 DEF Next, Step
-----------------------------------------------------------------------------
\* All of it together is inductive.
THEOREM Invariance == Spec => []IInv
<1>1. Init => IInv
  <2> SUFFICES ASSUME Init PROVE IInv
    OBVIOUS
  <2>1. Stored
    BY DEF Init, Stored
  <2>2. Shown
    BY DEF Init, Shown
  <2>3. Single
    BY DEF Init, Single, Unrivalled, Rivals, Open
  <2>4. TallyWhenSingle
    <3> SUFFICES ASSUME NEW p \in Post, NEW v \in Value
                 PROVE  tally[p][v] = Cardinality({u \in User : votes[p][u] = v})
      BY DEF TallyWhenSingle
    <3>1. {u \in User : votes[p][u] = v} = {}
      BY ForumAssumption DEF Init, Value
    <3> QED
      BY <3>1, FS_EmptySet DEF Init
  <2> QED
    BY <2>1, <2>2, <2>3, <2>4, InitTyped DEF IInv
<1>2. IInv /\ [Next]_vars => IInv'
  BY StepTyped, StepStored, StepShown, StepSingle, StepTally DEF IInv
<1> QED
  BY <1>1, <1>2, PTL DEF Spec

\* Every variable keeps the type of its column or local; in particular the default
\* category is created at most once, however many first posts race.
THEOREM TypeCorrect == Spec => []TypeOK
<1>1. IInv => TypeOK
  BY DEF IInv, Typed
<1> QED
  BY <1>1, Invariance, PTL

\* The counters of a post agree with its votes while no user has two votes open on it.
THEOREM TallyExact == Spec => []TallyWhenSingle
<1>1. IInv => TallyWhenSingle
  BY DEF IInv
<1> QED
  BY <1>1, Invariance, PTL

\* No page shows a larger number of comments than it lists.
THEOREM CommentsListed == Spec => []CommentsShown
<1>1. IInv => CommentsShown
  BY DEF IInv, Shown, CommentsShown
<1> QED
  BY <1>1, Invariance, PTL

\* No reference to media dangles, and no upload that succeeded is unreferenced.
THEOREM MediaStored == Spec => []MediaAreStored
<1>1. IInv => MediaAreStored
  BY DEF IInv, Stored, MediaAreStored
<1> QED
  BY <1>1, Invariance, PTL
=============================================================================
