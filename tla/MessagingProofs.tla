-------------------------- MODULE MessagingProofs ---------------------------
(***************************************************************************)
(* For any number of users, conversations and requests: messages are       *)
(* stored before they are pushed, and only to the others of a conversation; *)
(* and the unread counts and the 1:1 conversations are right under the     *)
(* provisos that Messaging states.                                         *)
(***************************************************************************)
EXTENDS Messaging, FiniteSetTheorems, TLAPS

\* A request on a conversation is a participant's, and stays so: a conversation
\* that has participants never changes them.
Known(r) ==
  /\ at[r] \in {"begin", "touch", "commit", "list", "push", "read", "mark"} =>
       conv[r] \in Conv /\ user[r] \in members[conv[r]]
  /\ at[r] = "create" => user[r] \in User /\ other[r] \in User /\ user[r] # other[r]
  /\ at[r] \in {"list", "push"} => r \in stored
  /\ r \in stored => /\ at[r] \in {"list", "push", "done", "failed"}
                     /\ conv[r] \in Conv /\ user[r] \in members[conv[r]]
  /\ at[r] = "push" => todo[r] \subseteq members[conv[r]] \ {user[r]}
  /\ shown[r] \subseteq stored

Typed == TypeOK /\ \A r \in Request : Known(r)

\* A transaction on a conversation has begun, and has not committed.
InFlight(r) == at[r] \in {"touch", "commit", "mark"}

\* Only what is stored has been marked or passed, and a transaction was shown only
\* messages of its conversation.
Recorded ==
  /\ \A p \in marked \cup passed : p[1] \in stored
  /\ \A r \in Request : InFlight(r) => \A m \in shown[r] : conv[m] = conv[r]

\* u's unread count of c counts every message of others that he has not seen, and no other.
Right(c, u) ==
  \A m \in stored : conv[m] = c /\ user[m] # u =>
    (begun[m] > lastRead[c][u] <=> <<m, u>> \notin marked \cup passed)

\* While transactions on a conversation do not overlap, the one in flight has seen all
\* there is, and its begin time is later than every other time of the conversation.
Lone(c) ==
  /\ \A r, s \in Request : InFlight(r) /\ InFlight(s) /\ conv[r] = c /\ conv[s] = c => r = s
  /\ \A r \in Request : InFlight(r) /\ conv[r] = c =>
       /\ shown[r] = {m \in stored : conv[m] = c}
       /\ \A m \in stored : conv[m] = c => begun[m] < begun[r]
       /\ \A u \in User : lastRead[c][u] < begun[r]
  /\ \A u \in members[c] : Right(c, u)

Alone == \A c \in Conv \ crossed : Lone(c)

\* While the StartConversations of a pair do not overlap, the one that is about to
\* create a conversation is the only one and finds none.
Pair(r) == {user[r], other[r]}

OnlyOne(pair) ==
  /\ \A c, d \in Direct(pair) : c = d
  /\ \A r \in Request : at[r] = "create" /\ Pair(r) = pair =>
       /\ Direct(pair) = {}
       /\ \A s \in Request : at[s] = "create" /\ Pair(s) = pair => s = r

Unraced == \A u, v \in User : u # v /\ {u, v} \notin raced => OnlyOne({u, v})

IInv == Typed /\ Recorded /\ PushedAreStored /\ Alone /\ Unraced
-----------------------------------------------------------------------------
(* Types *)

Stage == {"idle", "create", "begin", "touch", "commit", "list", "push", "read", "mark", "done", "failed"}

\* A request goes on and the others stay where they are.
LEMMA Gone ==
  ASSUME Typed, NEW r \in Request, NEW step \in Stage, Goto(r, step)
  PROVE  /\ at' \in [Request -> Stage] /\ at'[r] = step
         /\ \A s \in Request \ {r} : at'[s] = at[s]
  BY DEF Typed, TypeOK, Stage, Goto

\* What the first check of SendMessage and of MarkAsRead does.
LEMMA Checked ==
  ASSUME Typed, NEW r \in Request, NEW u \in User, NEW c \in Conv, Send(r, u, c) \/ Mark(r, u, c)
  PROVE  /\ at[r] = "idle" /\ user'[r] = u /\ conv'[r] = c /\ at' \in [Request -> Stage]
         /\ at'[r] \in {"begin", "read", "failed"} /\ (at'[r] # "failed" => u \in members[c])
         /\ \A s \in Request \ {r} : at'[s] = at[s] /\ user'[s] = user[s] /\ conv'[s] = conv[s]
         /\ user' \in [Request -> User \cup {None}] /\ conv' \in [Request -> Conv \cup {None}]
         /\ UNCHANGED <<now, convVars, lastRead, other, begun, pushVars, shown, histVars, raced, crossed>>
<1>1. /\ at[r] = "idle" /\ user' = [user EXCEPT ![r] = u] /\ conv' = [conv EXCEPT ![r] = c]
      /\ at'[r] \in {"begin", "read", "failed"} /\ (at'[r] # "failed" => u \in members[c])
      /\ at' \in [Request -> Stage] /\ \A s \in Request \ {r} : at'[s] = at[s]
      /\ UNCHANGED <<now, convVars, lastRead, other, begun, pushVars, shown, histVars, raced, crossed>>
  <2>0. PICK next \in {"begin", "read", "failed"} :
          Goto(r, next) /\ (next # "failed" => u \in members[c])
    BY DEF Send, Mark
  <2>1. /\ at'[r] = next /\ at' \in [Request -> Stage]
        /\ \A s \in Request \ {r} : at'[s] = at[s]
    BY <2>0, Gone DEF Stage
  <2>2. /\ at[r] = "idle" /\ user' = [user EXCEPT ![r] = u] /\ conv' = [conv EXCEPT ![r] = c]
        /\ UNCHANGED <<now, convVars, lastRead, other, begun, pushVars, shown, histVars, raced, crossed>>
    BY DEF Send, Mark
  <2> QED
    BY <2>0, <2>1, <2>2
<1> QED
  BY <1>1 DEF Typed, TypeOK

\* What the lookup of StartConversation does.
LEMMA LookedUp ==
  ASSUME Typed, NEW r \in Request, NEW u \in User, NEW v \in User, StartConversation(r, u, v)
  PROVE  /\ at[r] = "idle" /\ u # v /\ user'[r] = u /\ other'[r] = v
         /\ at' \in [Request -> Stage]
         /\ at'[r] \in {"create", "done"} /\ (at'[r] = "create" => Direct({u, v}) = {})
         /\ \A s \in Request \ {r} : /\ at'[s] = at[s] /\ user'[s] = user[s]
                                     /\ conv'[s] = conv[s] /\ other'[s] = other[s]
         /\ user' \in [Request -> User \cup {None}] /\ other' \in [Request -> User \cup {None}]
         /\ conv' \in [Request -> Conv \cup {None}]
         /\ raced \subseteq raced' /\ raced' \subseteq raced \cup {{u, v}}
         /\ {u, v} \notin raced' => \A s \in Request : at[s] = "create" => Pair(s) # {u, v}
         /\ UNCHANGED <<now, convVars, lastRead, begun, pushVars, shown, histVars, crossed>>
<1>1. /\ at[r] = "idle" /\ u # v /\ user'[r] = u /\ other'[r] = v
      /\ \A s \in Request \ {r} : user'[s] = user[s] /\ other'[s] = other[s]
      /\ user' \in [Request -> User \cup {None}] /\ other' \in [Request -> User \cup {None}]
      /\ UNCHANGED <<now, convVars, lastRead, begun, pushVars, shown, histVars, crossed>>
  BY DEF StartConversation, Typed, TypeOK
<1>2. /\ raced \subseteq raced' /\ raced' \subseteq raced \cup {{u, v}}
      /\ {u, v} \notin raced' => \A s \in Request : at[s] = "create" => Pair(s) # {u, v}
  BY DEF StartConversation, Pair
<1>3. CASE Direct({u, v}) = {}
  <2>1. Goto(r, "create") /\ conv' = conv
    BY <1>3 DEF StartConversation
  <2>2. /\ at' \in [Request -> Stage] /\ at'[r] = "create"
        /\ \A s \in Request \ {r} : at'[s] = at[s]
    BY <2>1, Gone DEF Stage
  <2>3. conv' \in [Request -> Conv \cup {None}]
    BY <2>1 DEF Typed, TypeOK
  <2> QED
    BY <1>1, <1>2, <1>3, <2>1, <2>2, <2>3
<1>4. CASE Direct({u, v}) # {}
  <2>1. PICK c \in Direct({u, v}) : conv' = [conv EXCEPT ![r] = c] /\ Goto(r, "done")
    BY <1>4 DEF StartConversation
  <2>2. /\ at' \in [Request -> Stage] /\ at'[r] = "done"
        /\ \A s \in Request \ {r} : at'[s] = at[s]
    BY <2>1, Gone DEF Stage
  <2>3. /\ conv' \in [Request -> Conv \cup {None}]
        /\ \A s \in Request \ {r} : conv'[s] = conv[s]
    BY <2>1 DEF Typed, TypeOK, Direct
  <2> QED
    BY <1>1, <1>2, <1>4, <2>2, <2>3
<1> QED
  BY <1>3, <1>4

\* What its transaction does: the conversation had no participants and no messages.
LEMMA Created ==
  ASSUME Typed, NEW r \in Request, CreateConversation(r)
  PROVE  /\ at[r] = "create" /\ at' \in [Request -> Stage] /\ at'[r] = "done"
         /\ user[r] \in User /\ other[r] \in User /\ user[r] # other[r]
         /\ now' = now + 1
         /\ \E c \in Conv :
              /\ members[c] = {} /\ conv'[r] = c
              /\ \A d \in Conv : members'[d] = IF d = c THEN Pair(r) ELSE members[d]
              /\ \A d \in Conv \ {c} : lastRead'[d] = lastRead[d]
              /\ members' \in [Conv -> SUBSET User] /\ lastRead' \in [Conv -> [User -> 0 .. now']]
         /\ conv' \in [Request -> Conv \cup {None}]
         /\ \A s \in Request \ {r} : at'[s] = at[s] /\ conv'[s] = conv[s]
         /\ UNCHANGED <<stored, user, other, begun, pushVars, shown, histVars, raced, crossed>>
<1>0. now \in Nat /\ lastRead \in [Conv -> [User -> 0 .. now]] /\ members \in [Conv -> SUBSET User]
  BY DEF Typed, TypeOK
<1>1. /\ at[r] = "create" /\ at' \in [Request -> Stage] /\ at'[r] = "done"
      /\ user[r] \in User /\ other[r] \in User /\ user[r] # other[r] /\ now' = now + 1
      /\ \A s \in Request \ {r} : at'[s] = at[s]
      /\ UNCHANGED <<stored, user, other, begun, pushVars, shown, histVars, raced, crossed>>
  BY DEF CreateConversation, Goto, Typed, TypeOK, Known, Stage
<1>2. PICK c \in Conv :
        /\ members[c] = {}
        /\ members' = [members EXCEPT ![c] = {user[r], other[r]}]
        /\ lastRead' = [lastRead EXCEPT ![c] = [u \in User |-> now + 1]]
        /\ conv' = [conv EXCEPT ![r] = c]
  BY DEF CreateConversation
<1>3. lastRead' \in [Conv -> [User -> 0 .. now']]
  <2>1. lastRead \in [Conv -> [User -> 0 .. now + 1]]
    <3>1. 0 .. now \subseteq 0 .. now + 1
      BY <1>0
    <3> QED
      BY <1>0, <3>1
  <2>2. [u \in User |-> now + 1] \in [User -> 0 .. now + 1]
    BY <1>0
  <2> QED
    BY <1>1, <1>2, <2>1, <2>2
<1>4. /\ conv' \in [Request -> Conv \cup {None}] /\ conv'[r] = c
      /\ \A s \in Request \ {r} : conv'[s] = conv[s]
  BY <1>2 DEF Typed, TypeOK
<1>5. /\ members' \in [Conv -> SUBSET User]
      /\ \A d \in Conv : members'[d] = IF d = c THEN Pair(r) ELSE members[d]
      /\ \A d \in Conv \ {c} : lastRead'[d] = lastRead[d]
  BY <1>0, <1>1, <1>2 DEF Pair
<1> QED
  BY <1>1, <1>2, <1>3, <1>4, <1>5

\* What the begin of a transaction on a conversation does.
LEMMA Begun ==
  ASSUME Typed, NEW r \in Request, InsertMessage(r) \/ BeginMark(r)
  PROVE  /\ conv[r] \in Conv /\ user[r] \in members[conv[r]] /\ r \notin stored
         /\ at[r] \in {"begin", "read"} /\ at' \in [Request -> Stage]
         /\ at[r] = "begin" => at'[r] = "touch"
         /\ at[r] = "read" => at'[r] = "mark"
         /\ \A s \in Request \ {r} : at'[s] = at[s] /\ begun'[s] = begun[s] /\ shown'[s] = shown[s]
         /\ now' = now + 1 /\ begun'[r] = now + 1 /\ shown'[r] = {m \in stored : conv[m] = conv[r]}
         /\ begun' \in [Request -> 0 .. now'] /\ shown' \in [Request -> SUBSET Request]
         /\ lastRead \in [Conv -> [User -> 0 .. now']]
         /\ crossed \subseteq crossed' /\ crossed' \subseteq crossed \cup {conv[r]}
         /\ conv[r] \notin crossed' => \A s \in Request : InFlight(s) => conv[s] # conv[r]
         /\ UNCHANGED <<convVars, lastRead, argVars, pushVars, histVars, raced>>
<1>0. /\ now \in Nat /\ begun \in [Request -> 0 .. now] /\ lastRead \in [Conv -> [User -> 0 .. now]]
      /\ shown \in [Request -> SUBSET Request] /\ stored \subseteq Request
  BY DEF Typed, TypeOK
<1>1. 0 .. now \subseteq 0 .. now + 1 /\ now + 1 \in 0 .. now + 1
  BY <1>0
<1>2. Begin(r, conv[r]) /\ UNCHANGED <<convVars, lastRead, argVars, pushVars, histVars, raced>>
  BY DEF InsertMessage, BeginMark
<1>3. /\ conv[r] \in Conv /\ user[r] \in members[conv[r]] /\ r \notin stored
      /\ at[r] \in {"begin", "read"} /\ at' \in [Request -> Stage]
      /\ at[r] = "begin" => at'[r] = "touch"
      /\ at[r] = "read" => at'[r] = "mark"
      /\ \A s \in Request \ {r} : at'[s] = at[s]
  BY DEF InsertMessage, BeginMark, Goto, Typed, TypeOK, Known, Stage
<1>4. /\ now' = now + 1 /\ begun' = [begun EXCEPT ![r] = now + 1]
      /\ shown' = [shown EXCEPT ![r] = {m \in stored : conv[m] = conv[r]}]
  BY <1>2 DEF Begin
<1>5. /\ begun' \in [Request -> 0 .. now'] /\ shown' \in [Request -> SUBSET Request]
      /\ lastRead \in [Conv -> [User -> 0 .. now']]
      /\ begun'[r] = now + 1 /\ shown'[r] = {m \in stored : conv[m] = conv[r]}
      /\ \A s \in Request \ {r} : begun'[s] = begun[s] /\ shown'[s] = shown[s]
  BY <1>0, <1>1, <1>4
<1>6. /\ crossed \subseteq crossed' /\ crossed' \subseteq crossed \cup {conv[r]}
      /\ conv[r] \notin crossed' => \A s \in Request : InFlight(s) => conv[s] # conv[r]
  BY <1>2 DEF Begin, InFlight
<1> QED
  BY <1>2, <1>3, <1>4, <1>5, <1>6

\* What the commits of SendMessage and MarkAsRead do to last_read_at.
LEMMA ReadBy ==
  ASSUME Typed, NEW r \in Request, at[r] \in {"commit", "mark"}, Read(r)
  PROVE  /\ conv[r] \in Conv /\ user[r] \in members[conv[r]] /\ user[r] \in User
         /\ lastRead' \in [Conv -> [User -> 0 .. now]]
         /\ \A c \in Conv, u \in User :
              lastRead'[c][u] = IF c = conv[r] /\ u = user[r] THEN begun[r] ELSE lastRead[c][u]
<1>1. /\ conv[r] \in Conv /\ user[r] \in members[conv[r]] /\ user[r] \in User
      /\ lastRead \in [Conv -> [User -> 0 .. now]] /\ begun[r] \in 0 .. now
  BY DEF Typed, TypeOK, Known
<1> DEFINE row == [lastRead[conv[r]] EXCEPT ![user[r]] = begun[r]]
<1>2. row \in [User -> 0 .. now]
      /\ \A u \in User : row[u] = IF u = user[r] THEN begun[r] ELSE lastRead[conv[r]][u]
  BY <1>1
<1>3. lastRead' = [lastRead EXCEPT ![conv[r]] = row]
  BY DEF Read
<1> HIDE DEF row
<1> QED
  BY <1>1, <1>2, <1>3

\* The types hold when the server starts.
LEMMA InitTyped == Init => Typed
<1> SUFFICES ASSUME Init PROVE Typed
  OBVIOUS
<1>1. /\ now \in Nat /\ members \in [Conv -> SUBSET User] /\ 0 \in 0 .. now
      /\ lastRead \in [Conv -> [User -> 0 .. now]] /\ begun \in [Request -> 0 .. now]
  BY DEF Init
<1>2. TypeOK
  BY <1>1 DEF Init, TypeOK
<1>3. \A r \in Request : Known(r)
  BY DEF Init, Known
<1> QED
  BY <1>2, <1>3 DEF Typed

\* Every step keeps them.
LEMMA StepTyped ==
  ASSUME MessagingAssumption, Typed, [Next]_vars
  PROVE  Typed'
<1> USE DEF Typed
<1>1. ASSUME NEW r \in Request, NEW u \in User, NEW v \in User, StartConversation(r, u, v) PROVE Typed'
  <2>1. /\ user'[r] = u /\ other'[r] = v /\ u # v /\ at'[r] \in {"create", "done"} /\ r \notin stored
        /\ \A s \in Request \ {r} : /\ at'[s] = at[s] /\ user'[s] = user[s]
                                    /\ conv'[s] = conv[s] /\ other'[s] = other[s]
        /\ UNCHANGED <<members, stored, todo, shown>>
    <3>1. at[r] = "idle"
      BY <1>1, LookedUp
    <3>2. r \notin stored
      BY <3>1 DEF Known
    <3> QED
      BY <1>1, <3>2, LookedUp DEF convVars, pushVars
  <2>2. TypeOK'
    <3>1. raced' \subseteq SUBSET User
      <4>1. raced \subseteq SUBSET User /\ raced' \subseteq raced \cup {{u, v}}
        BY <1>1, LookedUp DEF TypeOK
      <4> QED
        BY <4>1
    <3>2. /\ at' \in [Request -> Stage] /\ user' \in [Request -> User \cup {None}]
          /\ other' \in [Request -> User \cup {None}] /\ conv' \in [Request -> Conv \cup {None}]
          /\ UNCHANGED <<now, convVars, lastRead, begun, pushVars, shown, histVars, crossed>>
      BY <1>1, LookedUp
    <3> QED
      BY <3>1, <3>2 DEF TypeOK, Stage, convVars, pushVars, histVars
  <2>3. ASSUME NEW s \in Request PROVE Known(s)'
    <3>1. CASE s = r
      BY <2>1, <3>1 DEF Known
    <3>2. CASE s # r
      BY <2>1, <3>2 DEF Known
    <3> QED
      BY <3>1, <3>2
  <2> QED
    BY <2>2, <2>3
<1>2. ASSUME NEW r \in Request, CreateConversation(r) PROVE Typed'
  <2>0. PICK c \in Conv :
          /\ members[c] = {} /\ conv'[r] = c
          /\ \A d \in Conv : members'[d] = IF d = c THEN Pair(r) ELSE members[d]
          /\ \A d \in Conv \ {c} : lastRead'[d] = lastRead[d]
          /\ members' \in [Conv -> SUBSET User] /\ lastRead' \in [Conv -> [User -> 0 .. now']]
    BY <1>2, Created
  <2>1. now' \in Nat /\ begun' \in [Request -> 0 .. now']
    <3>1. now \in Nat /\ now' = now + 1 /\ begun' = begun /\ begun \in [Request -> 0 .. now]
      BY <1>2, Created DEF TypeOK
    <3>2. 0 .. now \subseteq 0 .. now + 1
      BY <3>1
    <3> QED
      BY <3>1, <3>2
  <2>2. TypeOK'
    BY <1>2, <2>0, <2>1, Created DEF TypeOK, Stage, pushVars, histVars
  <2>3. ASSUME NEW s \in Request \ {r} PROVE Known(s)'
    <3>1. Known(s) /\ at'[s] = at[s] /\ conv'[s] = conv[s] /\ UNCHANGED <<user, other, todo, stored, shown>>
      BY <1>2, Created DEF pushVars
    <3>2. conv[s] \in Conv /\ user[s] \in members[conv[s]] => members'[conv[s]] = members[conv[s]]
      BY <2>0
    <3> QED
      BY <3>1, <3>2 DEF Known
  <2>4. Known(r)'
    BY <1>2, Created DEF Known, pushVars
  <2> QED
    BY <2>2, <2>3, <2>4
<1>3. ASSUME NEW r \in Request, NEW u \in User, NEW c \in Conv, Send(r, u, c) \/ Mark(r, u, c) PROVE Typed'
  <2>1. TypeOK'
    BY <1>3, Checked DEF TypeOK, Stage, convVars, pushVars, histVars
  <2>2. ASSUME NEW s \in Request PROVE Known(s)'
    BY <1>3, Checked DEF Known, convVars, pushVars
  <2> QED
    BY <2>1, <2>2
<1>4. ASSUME NEW r \in Request, InsertMessage(r) \/ BeginMark(r) PROVE Typed'
  <2>1. TypeOK'
    <3>1. now' \in Nat /\ crossed' \subseteq Conv
      BY <1>4, Begun DEF TypeOK
    <3> QED
      BY <1>4, <3>1, Begun DEF TypeOK, Stage, convVars, argVars, pushVars, histVars
  <2>2. ASSUME NEW s \in Request PROVE Known(s)'
    BY <1>4, Begun DEF Known, convVars, argVars, pushVars
  <2> QED
    BY <2>1, <2>2
<1>5. ASSUME NEW r \in Request, TouchConversation(r) \/ Fail(r) PROVE Typed'
  <2>1. /\ at' \in [Request -> Stage] /\ \A s \in Request \ {r} : at'[s] = at[s]
        /\ (at'[r] = "commit" /\ at[r] = "touch") \/ (at'[r] = "failed" /\ at[r] # "idle")
        /\ UNCHANGED <<now, convVars, lastRead, argVars, begun, pushVars, shown, histVars, raced, crossed>>
    BY <1>5 DEF TouchConversation, Fail, Goto, TypeOK, Stage
  <2>2. TypeOK'
    BY <2>1 DEF TypeOK, Stage, convVars, argVars, pushVars, histVars
  <2>3. ASSUME NEW s \in Request PROVE Known(s)'
    BY <2>1 DEF Known, convVars, argVars, pushVars
  <2> QED
    BY <2>2, <2>3
<1>6. ASSUME NEW r \in Request, CommitMessage(r) PROVE Typed'
  <2>1. /\ at' \in [Request -> Stage] /\ \A s \in Request \ {r} : at'[s] = at[s]
        /\ at'[r] = "list" /\ at[r] = "commit" /\ stored' = stored \cup {r}
        /\ UNCHANGED <<now, members, argVars, begun, pushVars, shown, marked, raced, crossed>>
        /\ passed' = passed \cup Shown(r)
    BY <1>6 DEF CommitMessage, Goto, TypeOK, Stage
  <2>2. conv[r] \in Conv /\ user[r] \in members[conv[r]] /\ user[r] \in User
        /\ lastRead' \in [Conv -> [User -> 0 .. now]]
    BY <1>6, ReadBy DEF CommitMessage
  <2>3. Shown(r) \subseteq Request \X User
    BY <2>2 DEF Shown, TypeOK
  <2>4. TypeOK'
    BY <2>1, <2>2, <2>3 DEF TypeOK, Stage, argVars, pushVars
  <2>5. ASSUME NEW s \in Request PROVE Known(s)'
    BY <2>1, <2>2 DEF Known, argVars, pushVars
  <2> QED
    BY <2>4, <2>5
<1>7. ASSUME NEW r \in Request, ListParticipants(r) PROVE Typed'
  <2>1. /\ at' \in [Request -> Stage] /\ \A s \in Request \ {r} : at'[s] = at[s] /\ todo'[s] = todo[s]
        /\ at'[r] = "push" /\ at[r] = "list" /\ todo'[r] = members[conv[r]] \ {user[r]}
        /\ UNCHANGED <<now, convVars, lastRead, argVars, begun, pushed, shown, histVars, raced, crossed>>
    BY <1>7 DEF ListParticipants, Goto, TypeOK, Stage
  <2>2. todo' \in [Request -> SUBSET User]
    BY <1>7 DEF ListParticipants, TypeOK, Known
  <2>3. TypeOK'
    BY <2>1, <2>2 DEF TypeOK, Stage, convVars, argVars, histVars
  <2>4. ASSUME NEW s \in Request PROVE Known(s)'
    BY <2>1 DEF Known, convVars, argVars
  <2> QED
    BY <2>3, <2>4
<1>8. ASSUME NEW r \in Request, NEW u \in User, Push(r, u) PROVE Typed'
  <2>1. /\ at' \in [Request -> Stage] /\ \A s \in Request \ {r} : at'[s] = at[s] /\ todo'[s] = todo[s]
        /\ at'[r] \in {"push", "done"} /\ at[r] = "push" /\ todo'[r] = todo[r] \ {u}
        /\ todo' \in [Request -> SUBSET User] /\ pushed' = pushed \cup {<<r, u>>}
        /\ UNCHANGED <<now, convVars, lastRead, argVars, begun, shown, histVars, raced, crossed>>
    BY <1>8 DEF Push, Goto, TypeOK, Stage
  <2>2. TypeOK'
    BY <2>1 DEF TypeOK, Stage, convVars, argVars, histVars
  <2>3. ASSUME NEW s \in Request PROVE Known(s)'
    BY <2>1 DEF Known, convVars, argVars
  <2> QED
    BY <2>2, <2>3
<1>9. ASSUME NEW r \in Request, CommitMark(r) PROVE Typed'
  <2>1. /\ at' \in [Request -> Stage] /\ \A s \in Request \ {r} : at'[s] = at[s]
        /\ at'[r] = "done" /\ at[r] = "mark"
        /\ UNCHANGED <<now, convVars, argVars, begun, pushVars, shown, passed, raced, crossed>>
        /\ marked' = marked \cup Shown(r)
    BY <1>9 DEF CommitMark, Goto, TypeOK, Stage
  <2>2. user[r] \in User /\ lastRead' \in [Conv -> [User -> 0 .. now]]
    BY <1>9, ReadBy DEF CommitMark
  <2>3. Shown(r) \subseteq Request \X User
    BY <2>2 DEF Shown, TypeOK
  <2>4. TypeOK'
    BY <2>1, <2>2, <2>3 DEF TypeOK, Stage, convVars, argVars, pushVars
  <2>5. ASSUME NEW s \in Request PROVE Known(s)'
    BY <2>1, <2>2 DEF Known, convVars, argVars, pushVars
  <2> QED
    BY <2>4, <2>5
<1>10. ASSUME UNCHANGED vars PROVE Typed'
  BY <1>10 DEF vars, convVars, argVars, pushVars, histVars, TypeOK, Known
<1> QED
  BY <1>1, <1>2, <1>3, <1>4, <1>5, <1>6, <1>7, <1>8, <1>9, <1>10 DEF Next, RequestStep

-----------------------------------------------------------------------------
(* What is stored, and what is pushed *)

\* What the commit of a message does.
LEMMA Sent ==
  ASSUME Typed, NEW r \in Request, CommitMessage(r)
  PROVE  /\ at[r] = "commit" /\ at'[r] = "list" /\ \A s \in Request \ {r} : at'[s] = at[s]
         /\ conv[r] \in Conv /\ user[r] \in members[conv[r]] /\ user[r] \in User /\ r \notin stored
         /\ stored' = stored \cup {r} /\ passed' = passed \cup Shown(r) /\ Read(r)
         /\ UNCHANGED <<now, members, user, other, conv, begun, todo, pushed, shown, marked, raced, crossed>>
<1>1. at[r] = "commit" /\ Goto(r, "list")
  BY DEF CommitMessage
<1>2. at'[r] = "list" /\ \A s \in Request \ {r} : at'[s] = at[s]
  BY <1>1, Gone DEF Stage
<1>3. /\ conv[r] \in Conv /\ user[r] \in members[conv[r]] /\ user[r] \in User /\ r \notin stored
  BY <1>1 DEF Typed, TypeOK, Known
<1>4. /\ stored' = stored \cup {r} /\ passed' = passed \cup Shown(r) /\ Read(r)
      /\ UNCHANGED <<now, members, user, other, conv, begun, todo, pushed, shown, marked, raced, crossed>>
  BY DEF CommitMessage, argVars, pushVars
<1> QED
  BY <1>1, <1>2, <1>3, <1>4

\* What the commit of a MarkAsRead does.
LEMMA MarkedRead ==
  ASSUME Typed, NEW r \in Request, CommitMark(r)
  PROVE  /\ at[r] = "mark" /\ at'[r] = "done" /\ \A s \in Request \ {r} : at'[s] = at[s]
         /\ conv[r] \in Conv /\ user[r] \in members[conv[r]] /\ user[r] \in User /\ r \notin stored
         /\ marked' = marked \cup Shown(r) /\ Read(r)
         /\ UNCHANGED <<now, members, stored, user, other, conv, begun, todo, pushed, shown, passed, raced,
                        crossed>>
<1>1. at[r] = "mark" /\ Goto(r, "done")
  BY DEF CommitMark
<1>2. at'[r] = "done" /\ \A s \in Request \ {r} : at'[s] = at[s]
  BY <1>1, Gone DEF Stage
<1>3. /\ conv[r] \in Conv /\ user[r] \in members[conv[r]] /\ user[r] \in User /\ r \notin stored
  BY <1>1 DEF Typed, TypeOK, Known
<1>4. /\ marked' = marked \cup Shown(r) /\ Read(r)
      /\ UNCHANGED <<now, members, stored, user, other, conv, begun, todo, pushed, shown, passed, raced, crossed>>
  BY DEF CommitMark, convVars, argVars, pushVars
<1> QED
  BY <1>1, <1>2, <1>3, <1>4

\* What the steps that write nothing but a request's place and its push list do.
LEMMA Quiet ==
  ASSUME Typed, NEW r \in Request,
         \/ TouchConversation(r) \/ Fail(r) \/ ListParticipants(r) \/ \E u \in User : Push(r, u)
  PROVE  /\ \A s \in Request : InFlight(s)' => InFlight(s)
         /\ \A s \in Request : at'[s] = "create" => at[s] = "create"
         /\ UNCHANGED <<now, members, stored, lastRead, user, other, conv, begun, shown, marked, passed, raced,
                        crossed>>
<1>1. /\ UNCHANGED <<now, members, stored, lastRead, user, other, conv, begun, shown, marked, passed, raced,
                     crossed>>
  BY DEF TouchConversation, Fail, ListParticipants, Push, convVars, argVars, histVars
<1>2. \/ at' = at
      \/ \E step \in {"commit", "failed", "push", "done"} :
           Goto(r, step) /\ (step = "commit" => at[r] = "touch")
  BY DEF TouchConversation, Fail, ListParticipants, Push
<1>3. CASE at' = at
  BY <1>1, <1>3 DEF InFlight
<1>4. CASE \E step \in {"commit", "failed", "push", "done"} :
             Goto(r, step) /\ (step = "commit" => at[r] = "touch")
  <2>1. PICK step \in {"commit", "failed", "push", "done"} :
          Goto(r, step) /\ (step = "commit" => at[r] = "touch")
    BY <1>4
  <2>2. at'[r] = step /\ \A s \in Request \ {r} : at'[s] = at[s]
    BY <2>1, Gone DEF Stage
  <2> QED
    BY <1>1, <2>1, <2>2 DEF InFlight
<1> QED
  BY <1>2, <1>3, <1>4

\* A stored message stays in its conversation, which keeps its participants.
LEMMA Settled ==
  ASSUME MessagingAssumption, Typed, [Next]_vars, NEW m \in stored
  PROVE  /\ m \in stored' /\ conv'[m] = conv[m] /\ user'[m] = user[m] /\ begun'[m] = begun[m]
         /\ members'[conv[m]] = members[conv[m]]
<1>0. /\ m \in Request /\ at[m] \in {"list", "push", "done", "failed"}
      /\ conv[m] \in Conv /\ user[m] \in members[conv[m]]
  BY DEF Typed, TypeOK, Known
<1>1. ASSUME NEW r \in Request, NEW u \in User, NEW v \in User, StartConversation(r, u, v)
      PROVE  /\ m \in stored' /\ conv'[m] = conv[m] /\ user'[m] = user[m] /\ begun'[m] = begun[m]
             /\ members'[conv[m]] = members[conv[m]]
  BY <1>0, <1>1, LookedUp DEF convVars
<1>2. ASSUME NEW r \in Request, CreateConversation(r)
      PROVE  /\ m \in stored' /\ conv'[m] = conv[m] /\ user'[m] = user[m] /\ begun'[m] = begun[m]
             /\ members'[conv[m]] = members[conv[m]]
  <2>1. /\ at[r] = "create" /\ UNCHANGED <<stored, user, begun>>
        /\ \A s \in Request \ {r} : conv'[s] = conv[s]
    BY <1>2, Created
  <2>2. PICK c \in Conv :
          /\ members[c] = {} /\ conv'[r] = c
          /\ \A d \in Conv : members'[d] = IF d = c THEN Pair(r) ELSE members[d]
          /\ \A d \in Conv \ {c} : lastRead'[d] = lastRead[d]
          /\ members' \in [Conv -> SUBSET User] /\ lastRead' \in [Conv -> [User -> 0 .. now']]
    BY <1>2, Created
  <2> QED
    BY <1>0, <2>1, <2>2
<1>3. ASSUME NEW r \in Request, NEW u \in User, NEW c \in Conv, Send(r, u, c) \/ Mark(r, u, c)
      PROVE  /\ m \in stored' /\ conv'[m] = conv[m] /\ user'[m] = user[m] /\ begun'[m] = begun[m]
             /\ members'[conv[m]] = members[conv[m]]
  BY <1>0, <1>3, Checked DEF convVars
<1>4. ASSUME NEW r \in Request, InsertMessage(r) \/ BeginMark(r)
      PROVE  /\ m \in stored' /\ conv'[m] = conv[m] /\ user'[m] = user[m] /\ begun'[m] = begun[m]
             /\ members'[conv[m]] = members[conv[m]]
  BY <1>0, <1>4, Begun DEF convVars, argVars
<1>5. ASSUME NEW r \in Request, CommitMessage(r)
      PROVE  /\ m \in stored' /\ conv'[m] = conv[m] /\ user'[m] = user[m] /\ begun'[m] = begun[m]
             /\ members'[conv[m]] = members[conv[m]]
  BY <1>5, Sent
<1>6. ASSUME NEW r \in Request, CommitMark(r)
      PROVE  /\ m \in stored' /\ conv'[m] = conv[m] /\ user'[m] = user[m] /\ begun'[m] = begun[m]
             /\ members'[conv[m]] = members[conv[m]]
  BY <1>6, MarkedRead
<1>7. ASSUME NEW r \in Request,
             TouchConversation(r) \/ Fail(r) \/ ListParticipants(r) \/ \E u \in User : Push(r, u)
      PROVE  /\ m \in stored' /\ conv'[m] = conv[m] /\ user'[m] = user[m] /\ begun'[m] = begun[m]
             /\ members'[conv[m]] = members[conv[m]]
  BY <1>7, Quiet
<1>8. ASSUME UNCHANGED vars
      PROVE  /\ m \in stored' /\ conv'[m] = conv[m] /\ user'[m] = user[m] /\ begun'[m] = begun[m]
             /\ members'[conv[m]] = members[conv[m]]
  BY <1>8 DEF vars, convVars, argVars
<1> QED
  BY <1>1, <1>2, <1>3, <1>4, <1>5, <1>6, <1>7, <1>8 DEF Next, RequestStep

\* A transaction in flight was so before, or has just begun.
LEMMA Flight ==
  ASSUME Typed, [Next]_vars, NEW r \in Request, InFlight(r)'
  PROVE  \/ InFlight(r) /\ conv'[r] = conv[r] /\ shown'[r] = shown[r]
         \/ shown'[r] = {m \in stored : conv[m] = conv'[r]}
<1> DEFINE Goal == \/ InFlight(r) /\ conv'[r] = conv[r] /\ shown'[r] = shown[r]
                   \/ shown'[r] = {m \in stored : conv[m] = conv'[r]}
<1>1. ASSUME NEW s \in Request, NEW u \in User, NEW v \in User, StartConversation(s, u, v) PROVE Goal
  <2>1. at'[s] \in {"create", "done"}
    BY <1>1, LookedUp
  <2>2. s # r => at'[r] = at[r] /\ conv'[r] = conv[r]
    <3>1. \A q \in Request \ {s} : at'[q] = at[q] /\ conv'[q] = conv[q]
      BY <1>1, LookedUp
    <3> QED
      BY <3>1
  <2>3. shown' = shown
    BY <1>1, LookedUp
  <2> QED
    BY <2>1, <2>2, <2>3 DEF InFlight
<1>2. ASSUME NEW s \in Request, CreateConversation(s) PROVE Goal
  <2>1. at'[s] = "done" /\ (s # r => at'[r] = at[r] /\ conv'[r] = conv[r]) /\ UNCHANGED shown
    BY <1>2, Created
  <2> QED
    BY <2>1 DEF InFlight
<1>3. ASSUME NEW s \in Request, NEW u \in User, NEW c \in Conv, Send(s, u, c) \/ Mark(s, u, c) PROVE Goal
  <2>1. /\ at'[s] \in {"begin", "read", "failed"} /\ (s # r => at'[r] = at[r] /\ conv'[r] = conv[r])
        /\ UNCHANGED shown
    BY <1>3, Checked
  <2> QED
    BY <2>1 DEF InFlight
<1>4. ASSUME NEW s \in Request, InsertMessage(s) \/ BeginMark(s) PROVE Goal
  <2>1. /\ UNCHANGED conv /\ shown'[s] = {m \in stored : conv[m] = conv[s]}
        /\ s # r => at'[r] = at[r] /\ shown'[r] = shown[r]
    BY <1>4, Begun DEF argVars
  <2> QED
    BY <2>1 DEF InFlight
<1>5. ASSUME NEW s \in Request, CommitMessage(s) PROVE Goal
  BY <1>5, Sent DEF InFlight
<1>6. ASSUME NEW s \in Request, CommitMark(s) PROVE Goal
  BY <1>6, MarkedRead DEF InFlight
<1>7. ASSUME NEW s \in Request,
             TouchConversation(s) \/ Fail(s) \/ ListParticipants(s) \/ \E u \in User : Push(s, u)
      PROVE  Goal
  BY <1>7, Quiet
<1>8. ASSUME UNCHANGED vars PROVE Goal
  BY <1>8 DEF vars, argVars, InFlight
<1> QED
  BY <1>1, <1>2, <1>3, <1>4, <1>5, <1>6, <1>7, <1>8 DEF Next, RequestStep

\* A step marks or passes nothing but what was shown, and what was shown is stored.
LEMMA StepRecorded ==
  ASSUME MessagingAssumption, Typed, Recorded, [Next]_vars
  PROVE  Recorded'
<1>0. stored \subseteq stored' /\ \A r \in Request : shown[r] \subseteq stored
  BY Settled DEF Typed, Known
<1>1. ASSUME NEW r \in Request, NEW p \in Shown(r) PROVE p[1] \in stored
  BY <1>0, <1>1 DEF Shown
<1>2. \/ UNCHANGED <<marked, passed>>
      \/ \E r \in Request : CommitMessage(r) \/ CommitMark(r)
  <2>1. CASE UNCHANGED vars
    BY <2>1 DEF vars, histVars
  <2>2. ASSUME NEW r \in Request, RequestStep(r), ~CommitMessage(r), ~CommitMark(r)
        PROVE  UNCHANGED <<marked, passed>>
    BY <2>2 DEF RequestStep, StartConversation, CreateConversation, Send, Mark, InsertMessage, BeginMark,
                TouchConversation, Fail, ListParticipants, Push, histVars
  <2> QED
    BY <2>1, <2>2 DEF Next
<1>3. ASSUME NEW p \in marked' \cup passed' PROVE p[1] \in stored
  <2>1. CASE UNCHANGED <<marked, passed>>
    BY <1>3, <2>1 DEF Recorded
  <2>2. ASSUME NEW r \in Request, CommitMessage(r) PROVE p[1] \in stored
    BY <1>1, <1>3, <2>2, Sent DEF Recorded
  <2>3. ASSUME NEW r \in Request, CommitMark(r) PROVE p[1] \in stored
    BY <1>1, <1>3, <2>3, MarkedRead DEF Recorded
  <2> QED
    BY <1>2, <2>1, <2>2, <2>3
<1>4. ASSUME NEW r \in Request, InFlight(r)', NEW m \in shown'[r] PROVE conv'[m] = conv'[r]
  <2>1. CASE InFlight(r) /\ conv'[r] = conv[r] /\ shown'[r] = shown[r]
    BY <1>0, <1>4, <2>1, Settled DEF Recorded
  <2>2. CASE shown'[r] = {n \in stored : conv[n] = conv'[r]}
    BY <1>4, <2>2, Settled
  <2> QED
    BY <1>4, <2>1, <2>2, Flight
<1> QED
  BY <1>0, <1>3, <1>4 DEF Recorded

\* What a step pushes is stored, and was listed among the other participants.
LEMMA StepPushed ==
  ASSUME MessagingAssumption, Typed, PushedAreStored, [Next]_vars
  PROVE  PushedAreStored'
<1>1. pushed' \subseteq pushed \cup {<<r, u>> : r \in Request, u \in User}
      /\ \A p \in pushed' \ pushed : \E r \in Request, u \in User : p = <<r, u>> /\ at[r] = "push" /\ u \in todo[r]
  <2>1. \/ pushed' = pushed
        \/ \E r \in Request, u \in User : at[r] = "push" /\ u \in todo[r] /\ pushed' = pushed \cup {<<r, u>>}
    BY DEF Next, RequestStep, StartConversation, CreateConversation, Send, Mark, InsertMessage, BeginMark,
           TouchConversation, Fail, ListParticipants, Push, CommitMessage, CommitMark, pushVars, vars
  <2> QED
    BY <2>1
<1>2. ASSUME NEW p \in pushed' PROVE p[1] \in stored /\ p[2] \in members[conv[p[1]]] \ {user[p[1]]}
  <2>1. CASE p \in pushed
    BY <2>1 DEF PushedAreStored
  <2>2. CASE p \notin pushed
    BY <1>1, <2>2 DEF Typed, Known
  <2> QED
    BY <2>1, <2>2
<1> QED
  BY <1>2, Settled DEF PushedAreStored
-----------------------------------------------------------------------------
(* The unread counts *)

\* A conversation none of whose rows, messages and transactions a step touches stays
\* right.
LEMMA Elsewhere ==
  ASSUME Typed, NEW c \in Conv, Lone(c),
         stored' \subseteq Request, members'[c] = members[c], lastRead'[c] = lastRead[c],
         \A m \in Request : m \in stored' /\ conv'[m] = c <=> m \in stored /\ conv[m] = c,
         \A m \in stored : conv[m] = c =>
           /\ user'[m] = user[m] /\ begun'[m] = begun[m]
           /\ \A u \in User : <<m, u>> \in marked' \cup passed' <=> <<m, u>> \in marked \cup passed,
         \A s \in Request : InFlight(s)' /\ conv'[s] = c =>
           InFlight(s) /\ conv[s] = c /\ shown'[s] = shown[s] /\ begun'[s] = begun[s]
  PROVE  Lone(c)'
<1>0. stored \subseteq Request /\ members[c] \subseteq User
  BY DEF Typed, TypeOK
<1>1. {m \in stored' : conv'[m] = c} = {m \in stored : conv[m] = c}
  BY <1>0
<1>2. ASSUME NEW r \in Request, NEW s \in Request, InFlight(r)', InFlight(s)', conv'[r] = c, conv'[s] = c
      PROVE  r = s
  BY <1>2 DEF Lone
<1>3. ASSUME NEW r \in Request, InFlight(r)', conv'[r] = c
      PROVE  /\ shown'[r] = {m \in stored' : conv'[m] = c}
             /\ \A m \in stored' : conv'[m] = c => begun'[m] < begun'[r]
             /\ \A u \in User : lastRead'[c][u] < begun'[r]
  BY <1>0, <1>1, <1>3 DEF Lone
<1>4. ASSUME NEW u \in members'[c] PROVE Right(c, u)'
  BY <1>0, <1>1, <1>4 DEF Lone, Right
<1> QED
  BY <1>2, <1>3, <1>4 DEF Lone

\* A new conversation has no messages and no transactions.
LEMMA NewRight ==
  ASSUME Typed, NEW r \in Request, CreateConversation(r), NEW c \in Conv, Lone(c)
  PROVE  Lone(c)'
<1>1. PICK d \in Conv :
        /\ members[d] = {} /\ conv'[r] = d
        /\ \A e \in Conv : members'[e] = IF e = d THEN Pair(r) ELSE members[e]
        /\ \A e \in Conv \ {d} : lastRead'[e] = lastRead[e]
        /\ members' \in [Conv -> SUBSET User] /\ lastRead' \in [Conv -> [User -> 0 .. now']]
  BY Created
<1>2. /\ at[r] = "create" /\ at'[r] = "done" /\ \A s \in Request \ {r} : at'[s] = at[s] /\ conv'[s] = conv[s]
      /\ UNCHANGED <<stored, user, begun, shown, marked, passed>>
  BY Created DEF histVars
<1>3. r \notin stored /\ ~InFlight(r)' /\ \A s \in Request \ {r} : InFlight(s)' <=> InFlight(s)
  BY <1>2 DEF InFlight, Typed, Known
<1>4. CASE c = d
  <2>1. \A s \in Request : InFlight(s)' => conv'[s] # c
    BY <1>1, <1>2, <1>3, <1>4 DEF InFlight, Typed, Known
  <2>2. \A m \in stored' : conv'[m] # c
    BY <1>1, <1>2, <1>3, <1>4 DEF Typed, TypeOK, Known
  <2> QED
    BY <2>1, <2>2 DEF Lone, Right
<1>5. CASE c # d
  <2>1. stored' \subseteq Request /\ \A m \in Request : m \in stored' /\ conv'[m] = c <=> m \in stored /\ conv[m] = c
    BY <1>2, <1>3 DEF Typed, TypeOK
  <2>2. \A s \in Request : InFlight(s)' /\ conv'[s] = c =>
          InFlight(s) /\ conv[s] = c /\ shown'[s] = shown[s] /\ begun'[s] = begun[s]
    BY <1>2, <1>3
  <2> QED
    BY <1>1, <1>2, <1>5, <2>1, <2>2, Elsewhere
<1> QED
  BY <1>4, <1>5

\* The transaction that begins is the only one on its conversation, or the conversation
\* is crossed; it sees all messages, and its time is later than theirs.
LEMMA BeginRight ==
  ASSUME Typed, NEW r \in Request, InsertMessage(r) \/ BeginMark(r), NEW c \in Conv \ crossed', Lone(c)
  PROVE  Lone(c)'
<1>1. /\ conv[r] \in Conv /\ r \notin stored /\ at[r] \in {"begin", "read"}
      /\ \A s \in Request \ {r} : at'[s] = at[s] /\ begun'[s] = begun[s] /\ shown'[s] = shown[s]
      /\ begun'[r] = now + 1 /\ shown'[r] = {m \in stored : conv[m] = conv[r]}
      /\ conv[r] \notin crossed' => \A s \in Request : InFlight(s) => conv[s] # conv[r]
      /\ UNCHANGED <<members, stored, lastRead, user, conv, marked, passed>>
  BY Begun DEF convVars, argVars, histVars
<1>2. \A s \in Request \ {r} : InFlight(s)' <=> InFlight(s)
  BY <1>1 DEF InFlight
<1>3. /\ now \in Nat /\ begun \in [Request -> 0 .. now] /\ stored \subseteq Request
      /\ lastRead \in [Conv -> [User -> 0 .. now]] /\ members[c] \subseteq User
  BY DEF Typed, TypeOK
<1>4. CASE c = conv[r]
  <2>1. \A s \in Request : InFlight(s)' /\ conv'[s] = c => s = r
    BY <1>1, <1>2, <1>4
  <2>2. \A m \in stored : begun'[m] = begun[m] /\ begun[m] < begun'[r]
    BY <1>1, <1>3
  <2>3. \A u \in User : lastRead[c][u] < begun'[r]
    <3>1. ASSUME NEW u \in User PROVE lastRead[c][u] \in 0 .. now
      BY <1>3
    <3> QED
      BY <1>1, <1>3, <3>1
  <2>4. ASSUME NEW u \in members[c] PROVE Right(c, u)'
    BY <1>1, <2>2 DEF Lone, Right
  <2> QED
    BY <1>1, <1>4, <2>1, <2>2, <2>3, <2>4 DEF Lone
<1>5. CASE c # conv[r]
  <2>1. \A s \in Request : InFlight(s)' /\ conv'[s] = c =>
          InFlight(s) /\ conv[s] = c /\ shown'[s] = shown[s] /\ begun'[s] = begun[s]
    BY <1>1, <1>2, <1>5
  <2>2. \A m \in stored : begun'[m] = begun[m]
    BY <1>1, <1>3
  <2> QED
    BY <1>1, <1>3, <2>1, <2>2, Elsewhere
<1> QED
  BY <1>4, <1>5

\* The commit of a message that nothing overlapped: its sender has seen all the others,
\* and to everybody else it is new.
LEMMA SendRight ==
  ASSUME Typed, Recorded, NEW r \in Request, CommitMessage(r), NEW c \in Conv, Lone(c)
  PROVE  Lone(c)'
<1>1. /\ at[r] = "commit" /\ at'[r] = "list" /\ \A s \in Request \ {r} : at'[s] = at[s]
      /\ conv[r] \in Conv /\ user[r] \in User /\ r \notin stored
      /\ stored' = stored \cup {r} /\ passed' = passed \cup Shown(r)
      /\ UNCHANGED <<members, user, conv, begun, shown, marked>>
  BY Sent
<1>2. \A d \in Conv, u \in User :
        lastRead'[d][u] = IF d = conv[r] /\ u = user[r] THEN begun[r] ELSE lastRead[d][u]
  BY <1>1, ReadBy, Sent
<1>3. InFlight(r) /\ ~InFlight(r)' /\ \A s \in Request : InFlight(s)' => InFlight(s)
  BY <1>1 DEF InFlight
<1>4. /\ now \in Nat /\ begun \in [Request -> 0 .. now] /\ stored \subseteq Request
      /\ lastRead \in [Conv -> [User -> 0 .. now]] /\ members[c] \subseteq User
      /\ shown[r] \subseteq stored
  BY DEF Typed, TypeOK, Known
<1>5. CASE c = conv[r]
  <2>1. \A s \in Request : ~(InFlight(s)' /\ conv'[s] = c)
    BY <1>1, <1>3, <1>5 DEF Lone
  <2>2. /\ shown[r] = {m \in stored : conv[m] = c}
        /\ \A m \in stored : conv[m] = c => begun[m] < begun[r]
        /\ \A u \in User : lastRead[c][u] < begun[r]
    BY <1>3, <1>5 DEF Lone
  <2>3. ASSUME NEW u \in members[c], NEW m \in stored', conv[m] = c, user[m] # u
        PROVE  begun[m] > lastRead'[c][u] <=> <<m, u>> \notin marked \cup passed'
    <3>0. u \in User
      BY <1>4
    <3>1. CASE u = user[r]
      <4>1. m \in stored /\ lastRead'[c][u] = begun[r]
        BY <1>1, <1>2, <1>5, <2>3, <3>0, <3>1
      <4>2. <<m, u>> \in passed'
        BY <1>1, <2>2, <2>3, <3>1, <4>1 DEF Shown
      <4>3. ~(begun[m] > begun[r])
        <5>1. begun[m] \in Nat /\ begun[r] \in Nat /\ begun[m] < begun[r]
          BY <1>4, <2>2, <2>3, <4>1
        <5> QED
          BY <5>1
      <4> QED
        BY <4>1, <4>2, <4>3
    <3>2. CASE u # user[r]
      <4>1. lastRead'[c][u] = lastRead[c][u] /\ (<<m, u>> \in passed' <=> <<m, u>> \in passed)
        BY <1>1, <1>2, <3>0, <3>2 DEF Shown
      <4>2. CASE m \in stored
        BY <2>3, <4>1, <4>2 DEF Lone, Right
      <4>3. CASE m = r
        <5>1. <<m, u>> \notin marked \cup passed
          BY <1>1, <4>3 DEF Recorded
        <5>2. begun[m] > lastRead[c][u]
          <6>1. begun[r] \in Nat /\ lastRead[c][u] \in Nat /\ lastRead[c][u] < begun[r]
            BY <1>4, <2>2, <3>0
          <6> QED
            BY <4>3, <6>1
        <5> QED
          BY <4>1, <5>1, <5>2
      <4> QED
        BY <1>1, <4>2, <4>3
    <3> QED
      BY <3>1, <3>2
  <2>4. ASSUME NEW u \in members'[c] PROVE Right(c, u)'
    BY <1>1, <2>3, <2>4 DEF Right
  <2> QED
    BY <2>1, <2>4 DEF Lone
<1>6. CASE c # conv[r]
  <2>1. lastRead'[c] = lastRead[c]
    <3>1. lastRead' \in [Conv -> [User -> 0 .. now]]
      BY <1>1, ReadBy, Sent
    <3>2. lastRead'[c] \in [User -> 0 .. now] /\ lastRead[c] \in [User -> 0 .. now]
      BY <1>4, <3>1
    <3> QED
      BY <1>2, <1>6, <3>2
  <2>2. \A m \in Request : m \in stored' /\ conv'[m] = c <=> m \in stored /\ conv[m] = c
    BY <1>1, <1>6
  <2>3. \A m \in stored : conv[m] = c =>
          \A u \in User : <<m, u>> \in marked' \cup passed' <=> <<m, u>> \in marked \cup passed
    <3>1. ASSUME NEW m \in stored, conv[m] = c, NEW u \in User PROVE <<m, u>> \notin Shown(r)
      <4>1. conv[m] # conv[r] /\ \A n \in shown[r] : conv[n] = conv[r]
        BY <1>3, <1>6, <3>1 DEF Recorded
      <4> QED
        BY <4>1 DEF Shown
    <3> QED
      BY <1>1, <3>1
  <2> QED
    BY <1>1, <1>3, <1>4, <2>1, <2>2, <2>3, Elsewhere
<1> QED
  BY <1>5, <1>6

\* The commit of a MarkAsRead that nothing overlapped: its caller has seen all messages.
LEMMA MarkRight ==
  ASSUME Typed, Recorded, NEW r \in Request, CommitMark(r), NEW c \in Conv, Lone(c)
  PROVE  Lone(c)'
<1>1. /\ at[r] = "mark" /\ at'[r] = "done" /\ \A s \in Request \ {r} : at'[s] = at[s]
      /\ conv[r] \in Conv /\ user[r] \in User /\ marked' = marked \cup Shown(r)
      /\ UNCHANGED <<members, stored, user, conv, begun, shown, passed>>
  BY MarkedRead
<1>2. \A d \in Conv, u \in User :
        lastRead'[d][u] = IF d = conv[r] /\ u = user[r] THEN begun[r] ELSE lastRead[d][u]
  BY <1>1, ReadBy, MarkedRead
<1>3. InFlight(r) /\ ~InFlight(r)' /\ \A s \in Request : InFlight(s)' => InFlight(s)
  BY <1>1 DEF InFlight
<1>4. /\ now \in Nat /\ begun \in [Request -> 0 .. now] /\ stored \subseteq Request
      /\ lastRead \in [Conv -> [User -> 0 .. now]] /\ members[c] \subseteq User
  BY DEF Typed, TypeOK
<1>5. CASE c = conv[r]
  <2>1. \A s \in Request : ~(InFlight(s)' /\ conv'[s] = c)
    BY <1>1, <1>3, <1>5 DEF Lone
  <2>2. /\ shown[r] = {m \in stored : conv[m] = c}
        /\ \A m \in stored : conv[m] = c => begun[m] < begun[r]
    BY <1>3, <1>5 DEF Lone
  <2>3. ASSUME NEW u \in members[c], NEW m \in stored, conv[m] = c, user[m] # u
        PROVE  begun[m] > lastRead'[c][u] <=> <<m, u>> \notin marked' \cup passed
    <3>0. u \in User
      BY <1>4
    <3>1. CASE u = user[r]
      <4>1. lastRead'[c][u] = begun[r] /\ <<m, u>> \in marked'
        BY <1>1, <1>2, <1>5, <2>2, <2>3, <3>0, <3>1 DEF Shown
      <4>2. begun[m] \in Nat /\ begun[r] \in Nat /\ begun[m] < begun[r]
        BY <1>4, <2>2, <2>3
      <4> QED
        BY <4>1, <4>2
    <3>2. CASE u # user[r]
      <4>1. lastRead'[c][u] = lastRead[c][u] /\ (<<m, u>> \in marked' <=> <<m, u>> \in marked)
        BY <1>1, <1>2, <3>0, <3>2 DEF Shown
      <4> QED
        BY <2>3, <4>1 DEF Lone, Right
    <3> QED
      BY <3>1, <3>2
  <2>4. ASSUME NEW u \in members'[c] PROVE Right(c, u)'
    BY <1>1, <2>3, <2>4 DEF Right
  <2> QED
    BY <2>1, <2>4 DEF Lone
<1>6. CASE c # conv[r]
  <2>1. lastRead'[c] = lastRead[c]
    <3>1. lastRead' \in [Conv -> [User -> 0 .. now]]
      BY <1>1, ReadBy, MarkedRead
    <3>2. lastRead'[c] \in [User -> 0 .. now] /\ lastRead[c] \in [User -> 0 .. now]
      BY <1>4, <3>1
    <3> QED
      BY <1>2, <1>6, <3>2
  <2>2. \A m \in stored : conv[m] = c =>
          \A u \in User : <<m, u>> \in marked' \cup passed' <=> <<m, u>> \in marked \cup passed
    <3>1. ASSUME NEW m \in stored, conv[m] = c, NEW u \in User PROVE <<m, u>> \notin Shown(r)
      <4>1. conv[m] # conv[r] /\ \A n \in shown[r] : conv[n] = conv[r]
        BY <1>3, <1>6, <3>1 DEF Recorded
      <4> QED
        BY <4>1 DEF Shown
    <3> QED
      BY <1>1, <3>1
  <2> QED
    BY <1>1, <1>3, <1>4, <2>1, <2>2, Elsewhere
<1> QED
  BY <1>5, <1>6

\* A step that neither creates a conversation nor begins or commits a transaction on one
\* leaves the counts as they are.
LEMMA QuietRight ==
  ASSUME Typed, NEW c \in Conv, Lone(c), NEW r \in Request,
         \/ TouchConversation(r) \/ Fail(r) \/ ListParticipants(r) \/ \E u \in User : Push(r, u)
         \/ \E u, v \in User : StartConversation(r, u, v)
         \/ \E u \in User, d \in Conv : Send(r, u, d) \/ Mark(r, u, d)
  PROVE  Lone(c)'
<1>0. stored \subseteq Request
  BY DEF Typed, TypeOK
<1>1. CASE TouchConversation(r) \/ Fail(r) \/ ListParticipants(r) \/ \E u \in User : Push(r, u)
  <2>1. /\ \A s \in Request : InFlight(s)' => InFlight(s)
        /\ UNCHANGED <<members, stored, lastRead, user, conv, begun, shown, marked, passed>>
    BY <1>1, Quiet
  <2> QED
    BY <1>0, <2>1, Elsewhere
<1>2. CASE \/ \E u, v \in User : StartConversation(r, u, v)
           \/ \E u \in User, d \in Conv : Send(r, u, d) \/ Mark(r, u, d)
  <2>1. /\ at[r] = "idle" /\ ~InFlight(r)'
        /\ \A s \in Request \ {r} : at'[s] = at[s] /\ user'[s] = user[s] /\ conv'[s] = conv[s]
        /\ UNCHANGED <<members, stored, lastRead, begun, shown, marked, passed>>
    <3>1. ASSUME NEW u \in User, NEW v \in User, StartConversation(r, u, v)
          PROVE  /\ at[r] = "idle" /\ ~InFlight(r)'
                 /\ \A s \in Request \ {r} : at'[s] = at[s] /\ user'[s] = user[s] /\ conv'[s] = conv[s]
                 /\ UNCHANGED <<members, stored, lastRead, begun, shown, marked, passed>>
      <4>1. at[r] = "idle" /\ at'[r] \in {"create", "done"}
        BY <3>1, LookedUp
      <4> QED
        BY <3>1, <4>1, LookedUp DEF InFlight, convVars, histVars
    <3>2. ASSUME NEW u \in User, NEW d \in Conv, Send(r, u, d) \/ Mark(r, u, d)
          PROVE  /\ at[r] = "idle" /\ ~InFlight(r)'
                 /\ \A s \in Request \ {r} : at'[s] = at[s] /\ user'[s] = user[s] /\ conv'[s] = conv[s]
                 /\ UNCHANGED <<members, stored, lastRead, begun, shown, marked, passed>>
      BY <3>2, Checked DEF InFlight, convVars, histVars
    <3> QED
      BY <1>2, <3>1, <3>2
  <2>2. r \notin stored /\ \A s \in Request : InFlight(s)' => s # r /\ InFlight(s)
    BY <2>1 DEF InFlight, Typed, Known
  <2> QED
    BY <1>0, <2>1, <2>2, Elsewhere
<1> QED
  BY <1>1, <1>2

\* Every step keeps the unread counts of the conversations whose transactions have
\* never overlapped.
LEMMA StepAlone ==
  ASSUME MessagingAssumption, Typed, Recorded, Alone, [Next]_vars
  PROVE  Alone'
<1> SUFFICES ASSUME NEW c \in Conv \ crossed' PROVE Lone(c)'
  BY DEF Alone
<1>0. Lone(c)
  <2>1. crossed \subseteq crossed'
    BY DEF Next, RequestStep, StartConversation, CreateConversation, Send, Mark, InsertMessage, BeginMark, Begin,
           TouchConversation, Fail, ListParticipants, Push, CommitMessage, CommitMark, vars
  <2> QED
    BY <2>1 DEF Alone
<1>1. ASSUME NEW r \in Request, CreateConversation(r) PROVE Lone(c)'
  BY <1>0, <1>1, NewRight
<1>2. ASSUME NEW r \in Request, InsertMessage(r) \/ BeginMark(r) PROVE Lone(c)'
  BY <1>0, <1>2, BeginRight
<1>3. ASSUME NEW r \in Request, CommitMessage(r) PROVE Lone(c)'
  BY <1>0, <1>3, SendRight
<1>4. ASSUME NEW r \in Request, CommitMark(r) PROVE Lone(c)'
  BY <1>0, <1>4, MarkRight
<1>5. ASSUME NEW r \in Request,
             \/ TouchConversation(r) \/ Fail(r) \/ ListParticipants(r) \/ \E u \in User : Push(r, u)
             \/ \E u, v \in User : StartConversation(r, u, v)
             \/ \E u \in User, d \in Conv : Send(r, u, d) \/ Mark(r, u, d)
      PROVE  Lone(c)'
  BY <1>0, <1>5, QuietRight
<1>6. ASSUME UNCHANGED vars PROVE Lone(c)'
  BY <1>0, <1>6 DEF vars, convVars, argVars, histVars, Lone, Right, InFlight
<1> QED
  BY <1>1, <1>2, <1>3, <1>4, <1>5, <1>6 DEF Next, RequestStep
-----------------------------------------------------------------------------
(* The conversations of a pair *)

\* A step that changes no participants and lets nobody newly be about to create a
\* conversation of a pair leaves the pair alone.
LEMMA SamePair ==
  ASSUME NEW pair, OnlyOne(pair), members' = members,
         \A s \in Request : at'[s] = "create" /\ Pair(s)' = pair => at[s] = "create" /\ Pair(s) = pair
  PROVE  OnlyOne(pair)'
<1>1. Direct(pair)' = Direct(pair)
  BY DEF Direct
<1> QED
  BY <1>1 DEF OnlyOne

\* A lookup that finds a conversation changes nothing; one that finds none is the only
\* one of its pair under way, or the pair is raced.
LEMMA LookupKeeps ==
  ASSUME Typed, NEW r \in Request, NEW u \in User, NEW v \in User, StartConversation(r, u, v),
         NEW pair, OnlyOne(pair), pair \notin raced'
  PROVE  OnlyOne(pair)'
<1>1. /\ at[r] = "idle" /\ user'[r] = u /\ other'[r] = v
      /\ \A s \in Request \ {r} : at'[s] = at[s] /\ user'[s] = user[s] /\ other'[s] = other[s]
  BY LookedUp
<1>2. members' = members /\ Pair(r)' = {u, v} /\ \A s \in Request \ {r} : Pair(s)' = Pair(s)
  BY <1>1, LookedUp DEF Pair, convVars
<1>3. {u, v} \notin raced' => \A s \in Request : at[s] = "create" => Pair(s) # {u, v}
  BY LookedUp
<1>4. at'[r] = "create" => Direct({u, v}) = {}
  BY LookedUp
<1>5. CASE at'[r] = "create" /\ pair = {u, v}
  <2>1. Direct(pair)' = {}
    BY <1>2, <1>4, <1>5 DEF Direct
  <2>2. \A s \in Request : at'[s] = "create" /\ Pair(s)' = pair => s = r
    BY <1>1, <1>2, <1>3, <1>5
  <2> QED
    BY <2>1, <2>2 DEF OnlyOne
<1>6. CASE ~(at'[r] = "create" /\ pair = {u, v})
  BY <1>1, <1>2, <1>6, SamePair
<1> QED
  BY <1>5, <1>6

\* The creation of a conversation: a pair that was not raced had none.
LEMMA CreateKeeps ==
  ASSUME Typed, NEW r \in Request, CreateConversation(r), NEW pair, pair # {}, OnlyOne(pair)
  PROVE  OnlyOne(pair)'
<1>1. PICK c \in Conv :
        /\ members[c] = {} /\ conv'[r] = c
        /\ \A d \in Conv : members'[d] = IF d = c THEN Pair(r) ELSE members[d]
        /\ \A d \in Conv \ {c} : lastRead'[d] = lastRead[d]
        /\ members' \in [Conv -> SUBSET User] /\ lastRead' \in [Conv -> [User -> 0 .. now']]
  BY Created
<1>2. /\ at[r] = "create" /\ at'[r] = "done" /\ \A s \in Request \ {r} : at'[s] = at[s]
      /\ UNCHANGED <<user, other>>
  BY Created
<1>3. \A s \in Request : at'[s] = "create" /\ Pair(s)' = pair => s # r /\ at[s] = "create" /\ Pair(s) = pair
  BY <1>2 DEF Pair
<1>4. CASE pair = Pair(r)
  <2>1. Direct(pair) = {} /\ \A s \in Request : at[s] = "create" /\ Pair(s) = pair => s = r
    BY <1>2, <1>4 DEF OnlyOne
  <2>2. \A d \in Direct(pair)' : d = c
    BY <1>1, <2>1 DEF Direct
  <2>3. \A s \in Request : ~(at'[s] = "create" /\ Pair(s)' = pair)
    BY <1>3, <2>1
  <2> QED
    BY <2>2, <2>3 DEF OnlyOne
<1>5. CASE pair # Pair(r)
  <2>1. Direct(pair)' = Direct(pair)
    BY <1>1, <1>5 DEF Direct
  <2> QED
    BY <1>3, <2>1 DEF OnlyOne
<1> QED
  BY <1>4, <1>5

\* Every step keeps the conversations of the pairs whose StartConversations have never
\* overlapped.
LEMMA StepUnraced ==
  ASSUME Typed, Unraced, [Next]_vars
  PROVE  Unraced'
<1> SUFFICES ASSUME NEW u \in User, NEW v \in User, u # v, {u, v} \notin raced' PROVE OnlyOne({u, v})'
  BY DEF Unraced
<1>0. OnlyOne({u, v})
  <2>1. raced \subseteq raced'
    BY DEF Next, RequestStep, StartConversation, CreateConversation, Send, Mark, InsertMessage, BeginMark,
           TouchConversation, Fail, ListParticipants, Push, CommitMessage, CommitMark, vars
  <2> QED
    BY <2>1 DEF Unraced
<1>1. ASSUME NEW r \in Request, NEW x \in User, NEW y \in User, StartConversation(r, x, y)
      PROVE  OnlyOne({u, v})'
  BY <1>0, <1>1, LookupKeeps
<1>2. ASSUME NEW r \in Request, CreateConversation(r) PROVE OnlyOne({u, v})'
  BY <1>0, <1>2, CreateKeeps
<1>3. ASSUME NEW r \in Request, NEW x \in User, NEW c \in Conv, Send(r, x, c) \/ Mark(r, x, c)
      PROVE  OnlyOne({u, v})'
  <2>1. /\ at'[r] \in {"begin", "read", "failed"} /\ members' = members
        /\ \A s \in Request \ {r} : at'[s] = at[s] /\ user'[s] = user[s] /\ other'[s] = other[s]
    BY <1>3, Checked DEF convVars
  <2>2. \A s \in Request : at'[s] = "create" => at[s] = "create" /\ Pair(s)' = Pair(s)
    BY <2>1 DEF Pair
  <2> QED
    BY <1>0, <2>1, <2>2, SamePair
<1>4. ASSUME NEW r \in Request, InsertMessage(r) \/ BeginMark(r) PROVE OnlyOne({u, v})'
  <2>1. /\ at'[r] \in {"touch", "mark"} /\ UNCHANGED <<members, user, other>>
        /\ \A s \in Request \ {r} : at'[s] = at[s]
    BY <1>4, Begun DEF convVars, argVars
  <2>2. \A s \in Request : at'[s] = "create" => at[s] = "create" /\ Pair(s)' = Pair(s)
    BY <2>1 DEF Pair
  <2> QED
    BY <1>0, <2>1, <2>2, SamePair
<1>5. ASSUME NEW r \in Request, CommitMessage(r) \/ CommitMark(r) PROVE OnlyOne({u, v})'
  <2>1. /\ at'[r] \in {"list", "done"} /\ UNCHANGED <<members, user, other>>
        /\ \A s \in Request \ {r} : at'[s] = at[s]
    BY <1>5, Sent, MarkedRead
  <2>2. \A s \in Request : at'[s] = "create" => at[s] = "create" /\ Pair(s)' = Pair(s)
    BY <2>1 DEF Pair
  <2> QED
    BY <1>0, <2>1, <2>2, SamePair
<1>6. ASSUME NEW r \in Request,
             TouchConversation(r) \/ Fail(r) \/ ListParticipants(r) \/ \E x \in User : Push(r, x)
      PROVE  OnlyOne({u, v})'
  <2>1. UNCHANGED <<members, user, other>> /\ \A s \in Request : at'[s] = "create" => at[s] = "create"
    BY <1>6, Quiet
  <2>2. \A s \in Request : at'[s] = "create" => at[s] = "create" /\ Pair(s)' = Pair(s)
    BY <2>1 DEF Pair
  <2> QED
    BY <1>0, <2>1, <2>2, SamePair
<1>7. ASSUME UNCHANGED vars PROVE OnlyOne({u, v})'
  BY <1>0, <1>7, SamePair DEF vars, convVars, argVars, Pair
<1> QED
  BY <1>1, <1>2, <1>3, <1>4, <1>5, <1>6, <1>7 DEF Next, RequestStep
-----------------------------------------------------------------------------
(* The theorems *)

\* The invariant holds in every reachable state.
LEMMA Invariance == Spec => []IInv
<1>1. Init => IInv
  <2> SUFFICES ASSUME Init PROVE IInv
    OBVIOUS
  <2>1. Recorded /\ PushedAreStored
    BY DEF Init, Recorded, InFlight, PushedAreStored
  <2>2. Alone
    BY DEF Init, Alone, Lone, Right, InFlight
  <2>3. Unraced
    <3>1. \A r \in Request : at[r] # "create"
      BY DEF Init
    <3>2. \A u, v \in User : Direct({u, v}) = {}
      BY DEF Init, Direct
    <3> QED
      BY <3>1, <3>2 DEF Unraced, OnlyOne
  <2> QED
    BY InitTyped, <2>1, <2>2, <2>3 DEF IInv
<1>2. IInv /\ [Next]_vars => IInv'
  BY MessagingAssumption, StepTyped, StepRecorded, StepPushed, StepAlone, StepUnraced DEF IInv
<1> QED
  BY <1>1, <1>2, PTL DEF Spec

\* The tables and the locals of the messaging handlers keep their types.
THEOREM TypeCorrect == Spec => []TypeOK
<1>1. IInv => TypeOK
  BY DEF IInv, Typed
<1> QED
  BY <1>1, Invariance, PTL

\* However sends fail and interleave, SendMessage pushes nothing that is not committed,
\* and pushes only to the other participants of the message's conversation.
THEOREM StoredBeforePushed == Spec => []PushedAreStored
<1>1. IInv => PushedAreStored
  BY DEF IInv
<1> QED
  BY <1>1, Invariance, PTL

\* The unread count of GetConversations, computed from created_at and last_read_at, is
\* exact in every conversation on which no two transactions have overlapped, for any
\* number of participants and messages.
THEOREM UnreadRight == Spec => []UnreadWhenAlone
<1>1. IInv => UnreadWhenAlone
  BY DEF IInv, Alone, Lone, Right, UnreadWhenAlone, Unread, Unseen
<1> QED
  BY <1>1, Invariance, PTL

\* StartConversation makes one 1:1 conversation for two users, unless two calls for
\* them overlap.
THEOREM OneConversation == Spec => []ConversationWhenAlone
<1>1. IInv => ConversationWhenAlone
  <2> SUFFICES ASSUME IInv, NEW u \in User, NEW v \in User, u # v, {u, v} \notin raced
               PROVE  Cardinality(Direct({u, v})) <= 1
    BY DEF ConversationWhenAlone
  <2>1. \A c, d \in Direct({u, v}) : c = d
    BY DEF IInv, Unraced, OnlyOne
  <2>2. CASE Direct({u, v}) = {}
    BY <2>2, FS_EmptySet
  <2>3. ASSUME NEW c \in Direct({u, v}) PROVE Cardinality(Direct({u, v})) <= 1
    <3>1. Direct({u, v}) = {c}
      BY <2>1
    <3>2. Cardinality({c}) = 1
      BY FS_Singleton
    <3> QED
      BY <3>1, <3>2
  <2> QED
    BY <2>2, <2>3
<1> QED
  BY <1>1, Invariance, PTL
=============================================================================
