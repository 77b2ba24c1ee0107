------------------------------- MODULE Calls --------------------------------
(***************************************************************************)
(* HTTP calls about the rows of one building, and the middleware           *)
(* managerOnly of cmd/server/main.go, which reads the caller's role in a   *)
(* statement of its own before the handler runs its statements.  It reads  *)
(* the role in the building that the URL names; the handlers find the row  *)
(* by its id alone and do not ask which building it is in.                 *)
(***************************************************************************)
EXTENDS People

CONSTANTS
  Call,
  Elsewhere \* users who have a managing role in another building, and keep it

\* What a call is for, and that it is for nothing.
ASSUME CallsAssumption ==
  /\ Elsewhere \subseteq User
  /\ None \notin {"manage", "decide", "file", "list", "report", "dashboard"}

VARIABLES
  manager,     \* users with a managing role in the building
  everManager, \* history: users who have had one
  stage,       \* how far each call is
  kind,        \* what it is for
  user,        \* who makes it
  away,        \* calls whose URL names another building than that of the rows
  stale        \* history: calls during which another call has written what they read

roles == <<manager, everManager>>
callVars == <<roles, stage, kind, user, away, stale>>

CallsInit ==
  /\ manager = {}
  /\ everManager = {}
  /\ stage = [t \in Call |-> "idle"]
  /\ kind = [t \in Call |-> None]
  /\ user = [t \in Call |-> None]
  /\ away = {}
  /\ stale = {}

Open(t) == stage[t] \notin {"idle", "done"}

Reach(t, step) == stage' = [stage EXCEPT ![t] = step]

\* The call goes on and has changed no row.
Move(t, step) == Reach(t, step) /\ UNCHANGED <<roles, kind, user, away, stale>>

\* The call ends, well or not, and what it was for is forgotten.
End(t) ==
  /\ Reach(t, "done")
  /\ kind' = [kind EXCEPT ![t] = None]
  /\ user' = [user EXCEPT ![t] = None]
  /\ away' = away \ {t}

\* The call ends with a write to what the readers have read.
Wrote(t, readers) ==
  /\ End(t)
  /\ stale' = stale \cup {s \in readers \ {t} : Open(s)}
  /\ UNCHANGED roles

\* Behind managerOnly a call reaches the rows under the URL of any building its
\* caller manages; under those of others it is refused before it reaches any.
Begin(t, u, k, step) ==
  /\ stage[t] = "idle"
  /\ kind' = [kind EXCEPT ![t] = k]
  /\ user' = [user EXCEPT ![t] = u]
  /\ \/ away' = away
     \/ k \in {"manage", "decide"} /\ u \in Elsewhere /\ away' = away \cup {t}
  /\ Reach(t, step)
  /\ UNCHANGED <<roles, stale>>

\* Mutant: the routes have lost their middleware.
Unguarded(t) == TRUE

\* GetMemberRole for the building of the URL, and the test of managerOnly.
PassesManagerOnly(t) == user[t] \in (IF t \in away THEN Elsewhere ELSE manager)

\* Roles are given and taken by Membership.
Promote(u) ==
  /\ u \notin manager
  /\ manager' = manager \cup {u}
  /\ everManager' = everManager \cup {u}
  /\ UNCHANGED <<stage, kind, user, away, stale>>

Demote(u) ==
  /\ u \in manager
  /\ manager' = manager \ {u}
  /\ UNCHANGED <<everManager, stage, kind, user, away, stale>>

\* A statement fails, a row is not found, or managerOnly refuses.
Break(t) == Open(t) /\ End(t) /\ UNCHANGED <<roles, stale>>

CallsTypeOK ==
  /\ manager \subseteq everManager /\ everManager \subseteq User
  /\ stage \in [Call -> {"idle", "role", "check", "update", "act", "insert", "count", "rows",
                         "payments", "due", "units", "occupied", "requests", "done"}]
  /\ kind \in [Call -> {"manage", "decide", "file", "list", "report", "dashboard", None}]
  /\ user \in [Call -> User \cup {None}]
  /\ away \subseteq Call
  /\ stale \subseteq Call
=============================================================================
