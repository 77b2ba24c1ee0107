----------------------------- MODULE Messaging -----------------------------
(***************************************************************************)
(* Direct messages: StartConversation, SendMessage and MarkAsRead of       *)
(* internal/handlers/messaging.go over conversations, participants and     *)
(* messages, and the unread count of GetConversations.                     *)
(*                                                                         *)
(* NOW() is the time a transaction began. It is what a message carries as  *)
(* created_at and what last_read_at is set to, both visible only when the  *)
(* transaction commits; every transaction has a begin time of its own. The *)
(* UPDATE of the conversation locks its row until the end of the           *)
(* transaction, so sends to one conversation commit one after the other.   *)
(***************************************************************************)
EXTENDS Naturals, FiniteSets

CONSTANTS
  User,
  Conv,     \* ids for conversations
  Request,  \* HTTP requests; each is made once, so it names the message it sends
  None

ASSUME MessagingAssumption == None \notin User \cup Conv

VARIABLES
  now,       \* begin time of the latest transaction
  members,   \* conversation_participants; {} before the conversation exists
  lastRead,  \* conversation_participants.last_read_at
  stored,    \* the committed messages
  at,        \* where each request is
  user,      \* its caller
  other,     \* StartConversation: whom the caller wants to talk to
  conv,      \* its conversation
  begun,     \* begin time of its transaction; created_at of its message
  todo,      \* participants a SendMessage has still to push to
  pushed,    \* history: the calls of SendToUser, as message and user
  shown,     \* history: what was stored when a request's transaction began
  marked,    \* history: message and user of every effect of MarkAsRead ...
  passed,    \* history: ... and of sending a message oneself
  raced,     \* history: pairs of users with two StartConversations under way
  crossed    \* history: conversations with two transactions under way

convVars == <<members, stored>>
argVars  == <<user, other, conv>>
pushVars == <<todo, pushed>>
histVars == <<marked, passed>>
vars     == <<now, convVars, lastRead, at, argVars, begun, pushVars, shown, histVars, raced, crossed>>

Init ==
  /\ now = 0
  /\ members = [c \in Conv |-> {}]
  /\ lastRead = [c \in Conv |-> [u \in User |-> 0]]
  /\ stored = {}
  /\ at = [r \in Request |-> "idle"]
  /\ user = [r \in Request |-> None]
  /\ other = [r \in Request |-> None]
  /\ conv = [r \in Request |-> None]
  /\ begun = [r \in Request |-> 0]
  /\ todo = [r \in Request |-> {}]
  /\ pushed = {}
  /\ shown = [r \in Request |-> {}]
  /\ marked = {}
  /\ passed = {}
  /\ raced = {}
  /\ crossed = {}

Goto(r, step) == at' = [at EXCEPT ![r] = step]

\* The 1:1 conversations of a pair of users.
Direct(pair) == {c \in Conv : members[c] = pair}

\* A transaction of request r on its conversation begins.
Begin(r, c) ==
  /\ now' = now + 1
  /\ begun' = [begun EXCEPT ![r] = now + 1]
  /\ shown' = [shown EXCEPT ![r] = {m \in stored : conv[m] = c}]
  /\ crossed' = IF \E s \in Request : at[s] \in {"touch", "commit", "mark"} /\ conv[s] = c
                THEN crossed \cup {c}
                ELSE crossed

\* The row of conversations is locked by another SendMessage.
ConvHeld(r) == \E s \in Request \ {r} : at[s] = "commit" /\ conv[s] = conv[r]

\* last_read_at of the caller becomes the begin time of the transaction.
Read(r) == lastRead' = [lastRead EXCEPT ![conv[r]][user[r]] = begun[r]]

\* What the messages the caller could see when the transaction began are, to him.
Shown(r) == {<<m, user[r]>> : m \in shown[r]}

-----------------------------------------------------------------------------
\* Mutant: creates a conversation without looking for the one there is.
StartAnew(r, u, v) ==
  /\ at[r] = "idle"
  /\ u # v
  /\ user' = [user EXCEPT ![r] = u]
  /\ other' = [other EXCEPT ![r] = v]
  /\ Goto(r, "create")
  /\ raced' = IF \E s \in Request : at[s] = "create" /\ {user[s], other[s]} = {u, v}
              THEN raced \cup {{u, v}}
              ELSE raced
  /\ UNCHANGED <<now, convVars, lastRead, conv, begun, pushVars, shown, histVars, crossed>>

\* StartConversation: "Cannot start conversation with yourself"; then the lookup.
StartConversation(r, u, v) ==
  /\ at[r] = "idle"
  /\ u # v
  /\ user' = [user EXCEPT ![r] = u]
  /\ other' = [other EXCEPT ![r] = v]
  /\ IF Direct({u, v}) # {}
     THEN \E c \in Direct({u, v}) : conv' = [conv EXCEPT ![r] = c] /\ Goto(r, "done")
     ELSE Goto(r, "create") /\ UNCHANGED conv
  /\ raced' = IF \E s \in Request : at[s] = "create" /\ {user[s], other[s]} = {u, v}
              THEN raced \cup {{u, v}}
              ELSE raced
  /\ UNCHANGED <<now, convVars, lastRead, begun, pushVars, shown, histVars, crossed>>

\* The transaction that inserts the conversation and both participants.
CreateConversation(r) ==
  /\ at[r] = "create"
  /\ \E c \in Conv :
       /\ members[c] = {}
       /\ members' = [members EXCEPT ![c] = {user[r], other[r]}]
       /\ lastRead' = [lastRead EXCEPT ![c] = [u \in User |-> now + 1]]
       /\ conv' = [conv EXCEPT ![r] = c]
  /\ now' = now + 1
  /\ Goto(r, "done")
  /\ UNCHANGED <<stored, user, other, begun, pushVars, shown, histVars, raced, crossed>>

-----------------------------------------------------------------------------
\* SendMessage: IsParticipant.
Send(r, u, c) ==
  /\ at[r] = "idle"
  /\ members[c] # {}
  /\ user' = [user EXCEPT ![r] = u]
  /\ conv' = [conv EXCEPT ![r] = c]
  /\ Goto(r, IF u \in members[c] THEN "begin" ELSE "failed")
  /\ UNCHANGED <<now, convVars, lastRead, other, begun, pushVars, shown, histVars, raced, crossed>>

\* Begin, and INSERT INTO messages.
InsertMessage(r) ==
  /\ at[r] = "begin"
  /\ Begin(r, conv[r])
  /\ Goto(r, "touch")
  /\ UNCHANGED <<convVars, lastRead, argVars, pushVars, histVars, raced>>

\* UPDATE conversations waits for the row.
TouchConversation(r) ==
  /\ at[r] = "touch"
  /\ ~ConvHeld(r)
  /\ Goto(r, "commit")
  /\ UNCHANGED <<now, convVars, lastRead, argVars, begun, pushVars, shown, histVars, raced, crossed>>

\* Mutant: leaves the sender's last_read_at alone.
CommitOnlyMessage(r) ==
  /\ at[r] = "commit"
  /\ stored' = stored \cup {r}
  /\ passed' = passed \cup Shown(r)
  /\ Goto(r, "list")
  /\ UNCHANGED <<now, members, lastRead, argVars, begun, pushVars, shown, marked, raced, crossed>>

\* UPDATE conversation_participants of the sender, and Commit.
CommitMessage(r) ==
  /\ at[r] = "commit"
  /\ stored' = stored \cup {r}
  /\ Read(r)
  /\ passed' = passed \cup Shown(r)
  /\ Goto(r, "list")
  /\ UNCHANGED <<now, members, argVars, begun, pushVars, shown, marked, raced, crossed>>

\* Mutant: forgets to leave the sender out.
ListEverybody(r) ==
  /\ at[r] = "list"
  /\ todo' = [todo EXCEPT ![r] = members[conv[r]]]
  /\ Goto(r, "push")
  /\ UNCHANGED <<now, convVars, lastRead, argVars, begun, pushed, shown, histVars, raced, crossed>>

\* GetParticipantIDs; its error is ignored and then nobody is pushed to (Fail).
ListParticipants(r) ==
  /\ at[r] = "list"
  /\ todo' = [todo EXCEPT ![r] = members[conv[r]] \ {user[r]}]
  /\ Goto(r, "push")
  /\ UNCHANGED <<now, convVars, lastRead, argVars, begun, pushed, shown, histVars, raced, crossed>>

\* hub.SendToUser for every other participant.
Push(r, u) ==
  /\ at[r] = "push"
  /\ u \in todo[r]
  /\ pushed' = pushed \cup {<<r, u>>}
  /\ todo' = [todo EXCEPT ![r] = @ \ {u}]
  /\ IF todo[r] = {u} THEN Goto(r, "done") ELSE UNCHANGED at
  /\ UNCHANGED <<now, convVars, lastRead, argVars, begun, shown, histVars, raced, crossed>>

-----------------------------------------------------------------------------
\* Mutant: the two ids, of one Go type, swapped.
MarkSwapped(r, u, c) ==
  /\ at[r] = "idle"
  /\ members[c] # {}
  /\ user' = [user EXCEPT ![r] = c]
  /\ conv' = [conv EXCEPT ![r] = u]
  /\ Goto(r, IF u \in members[c] THEN "read" ELSE "failed")
  /\ UNCHANGED <<now, convVars, lastRead, other, begun, pushVars, shown, histVars, raced, crossed>>

\* MarkAsRead: IsParticipant.
Mark(r, u, c) ==
  /\ at[r] = "idle"
  /\ members[c] # {}
  /\ user' = [user EXCEPT ![r] = u]
  /\ conv' = [conv EXCEPT ![r] = c]
  /\ Goto(r, IF u \in members[c] THEN "read" ELSE "failed")
  /\ UNCHANGED <<now, convVars, lastRead, other, begun, pushVars, shown, histVars, raced, crossed>>

\* Its UPDATE begins; it may have to wait for the participant's row ...
BeginMark(r) ==
  /\ at[r] = "read"
  /\ Begin(r, conv[r])
  /\ Goto(r, "mark")
  /\ UNCHANGED <<convVars, lastRead, argVars, pushVars, histVars, raced>>

\* ... and sets last_read_at to the time it began.
CommitMark(r) ==
  /\ at[r] = "mark"
  /\ Read(r)
  /\ marked' = marked \cup Shown(r)
  /\ Goto(r, "done")
  /\ UNCHANGED <<now, convVars, argVars, begun, pushVars, shown, passed, raced, crossed>>

-----------------------------------------------------------------------------
\* A statement fails or the server dies: an open transaction rolls back.
Fail(r) ==
  /\ at[r] \notin {"idle", "done", "failed"}
  /\ Goto(r, "failed")
  /\ UNCHANGED <<now, convVars, lastRead, argVars, begun, pushVars, shown, histVars, raced, crossed>>

RequestStep(r) ==
  \/ \E u, v \in User : StartConversation(r, u, v)
  \/ CreateConversation(r)
  \/ \E u \in User, c \in Conv : Send(r, u, c) \/ Mark(r, u, c)
  \/ InsertMessage(r) \/ TouchConversation(r) \/ CommitMessage(r) \/ ListParticipants(r)
  \/ \E u \in User : Push(r, u)
  \/ BeginMark(r) \/ CommitMark(r)
  \/ Fail(r)

Next == \E r \in Request : RequestStep(r)

Spec == Init /\ [][Next]_vars

-----------------------------------------------------------------------------
(* Properties *)

\* The variables have the types of the tables and of the Go locals.
TypeOK ==
  /\ now \in Nat
  /\ members \in [Conv -> SUBSET User]
  /\ lastRead \in [Conv -> [User -> 0 .. now]]
  /\ stored \subseteq Request
  /\ at \in [Request -> {"idle", "create", "begin", "touch", "commit", "list", "push", "read", "mark",
                         "done", "failed"}]
  /\ user \in [Request -> User \cup {None}]
  /\ other \in [Request -> User \cup {None}]
  /\ conv \in [Request -> Conv \cup {None}]
  /\ begun \in [Request -> 0 .. now]
  /\ todo \in [Request -> SUBSET User]
  /\ pushed \subseteq Request \X User
  /\ shown \in [Request -> SUBSET Request]
  /\ marked \subseteq Request \X User
  /\ passed \subseteq Request \X User
  /\ raced \subseteq SUBSET User
  /\ crossed \subseteq Conv

\* The unread count of GetConversations counts these.
Unread(c, u) == {m \in stored : conv[m] = c /\ begun[m] > lastRead[c][u] /\ user[m] # u}

\* The messages others sent to a conversation and u has neither marked as read
\* nor replied to.
Unseen(c, u) == {m \in stored : conv[m] = c /\ user[m] # u /\ <<m, u>> \notin marked \cup passed}

\* The unread count of every participant is right, although it is computed from
\* two clock readings, as long as no two transactions overlapped on the
\* conversation.
UnreadWhenAlone ==
  \A c \in Conv \ crossed : \A u \in members[c] : Unread(c, u) = Unseen(c, u)

\* What is pushed over the WebSocket is already in the database, and goes only
\* to the other participants of its conversation.
PushedAreStored ==
  \A p \in pushed : /\ p[1] \in stored
                    /\ p[2] \in members[conv[p[1]]] \ {user[p[1]]}

\* Two users share one 1:1 conversation, unless both started it at a time.
ConversationWhenAlone ==
  \A u, v \in User : u # v /\ {u, v} \notin raced => Cardinality(Direct({u, v})) <= 1
=============================================================================
