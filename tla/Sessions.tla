------------------------------ MODULE Sessions ------------------------------
(***************************************************************************)
(* Accounts and refresh tokens: AuthService.Register, Login, RefreshToken  *)
(* and Logout of internal/services/auth_service.go over the users and      *)
(* refresh_tokens tables.  Requests run concurrently; each SQL statement   *)
(* is a transaction of its own, so a request is a chain of atomic steps.   *)
(* Any statement may fail, and the server may die, between two of them.    *)
(*                                                                         *)
(* A refresh token is a JWT over the user and the second of its issue:     *)
(* two tokens of one user issued in the same second are the same string.   *)
(***************************************************************************)
EXTENDS Naturals, Sequences, FiniteSets

CONSTANTS
  User,      \* e-mail addresses, one per person
  Request,   \* HTTP requests; each is made once
  None,      \* no user, no token, no row
  Lifetime,  \* RefreshExpiry, in seconds
  MaxTime    \* bound on the clock

Token == [user : User, second : 0 .. MaxTime]

ASSUME SessionsAssumption ==
  /\ Lifetime \in Nat \ {0}
  /\ MaxTime \in Nat
  /\ None \notin User \cup Token \cup Nat

VARIABLES
  now,       \* the clock, in seconds
  users,     \* how many rows of users hold each e-mail address
  rows,      \* refresh_tokens, in order of insertion
  at,        \* where each request is
  who,       \* the user a request acts for
  shown,     \* the token a refresh or logout presents
  row,       \* the row GetRefreshToken returned
  loggedOut, \* history: tokens logged out and not issued again since
  raced      \* history: two refreshes held the same live row at a time

vars == <<now, users, rows, at, who, shown, row, loggedOut, raced>>
reqVars == <<at, who, shown, row>>

\* family: the index of the row its login issued, which all its refreshes share.
Row == [token : Token, revoked : BOOLEAN, family : Nat \ {0}]

Steps == {"idle", "create", "issue", "refresh", "revoke", "load", "logout", "logoutRevoke",
          "done", "failed"}

Init ==
  /\ now = 0
  /\ users = [u \in User |-> 0]
  /\ rows = <<>>
  /\ at = [r \in Request |-> "idle"]
  /\ who = [r \in Request |-> None]
  /\ shown = [r \in Request |-> None]
  /\ row = [r \in Request |-> None]
  /\ loggedOut = {}
  /\ raced = FALSE

Goto(r, step) == at' = [at EXCEPT ![r] = step]

\* The tokens clients hold: every token the service ever stored.
Issued == {rows[i].token : i \in 1 .. Len(rows)}

\* Mutant: "AND revoked = false" is dropped.
AnyRows(t) == {i \in 1 .. Len(rows) : rows[i].token = t}

\* SELECT ... WHERE token_hash = t AND revoked = false; any such row may be first.
LiveRows(t) == {i \in 1 .. Len(rows) : rows[i].token = t /\ ~rows[i].revoked}

\* Mutant: the UPDATE matches no row.
NoneRevoked(i) == rows

Revoked(i) == [rows EXCEPT ![i] = [@ EXCEPT !.revoked = TRUE]]

-----------------------------------------------------------------------------
(* Register and Login *)

\* Register: GetByEmail, and "email already registered".
Register(r, u) ==
  /\ at[r] = "idle"
  /\ who' = [who EXCEPT ![r] = u]
  /\ Goto(r, IF users[u] = 0 THEN "create" ELSE "failed")
  /\ UNCHANGED <<now, users, rows, shown, row, loggedOut, raced>>

\* Mutant: users.email without UNIQUE.
CreateAnyway(r) ==
  /\ at[r] = "create"
  /\ users' = [users EXCEPT ![who[r]] = @ + 1]
  /\ Goto(r, "issue")
  /\ UNCHANGED <<now, rows, who, shown, row, loggedOut, raced>>

\* userRepo.Create: users.email is UNIQUE.
CreateUser(r) ==
  /\ at[r] = "create"
  /\ IF users[who[r]] = 0
     THEN /\ users' = [users EXCEPT ![who[r]] = @ + 1]
          /\ Goto(r, "issue")
     ELSE /\ Goto(r, "failed")
          /\ UNCHANGED users
  /\ UNCHANGED <<now, rows, who, shown, row, loggedOut, raced>>

\* Login: GetByEmail, is_active (never cleared by this code) and the password.
Login(r, u) ==
  /\ at[r] = "idle"
  /\ who' = [who EXCEPT ![r] = u]
  /\ \/ users[u] > 0 /\ Goto(r, "issue")
     \/ Goto(r, "failed")
  /\ UNCHANGED <<now, users, rows, shown, row, loggedOut, raced>>

\* generateAuthResponse: sign a token for this second and store its hash.
Issue(r) ==
  /\ at[r] = "issue"
  /\ LET t == [user |-> who[r], second |-> now]
         f == IF row[r] = None THEN Len(rows) + 1 ELSE rows[row[r]].family
     IN /\ rows' = Append(rows, [token |-> t, revoked |-> FALSE, family |-> f])
        /\ loggedOut' = loggedOut \ {t}
  /\ Goto(r, "done")
  /\ UNCHANGED <<now, users, who, shown, row, raced>>

-----------------------------------------------------------------------------
(* RefreshToken *)

\* ParseRefreshToken checks signature and expiry; the subject is the user.
Refresh(r, t) ==
  /\ at[r] = "idle"
  /\ shown' = [shown EXCEPT ![r] = t]
  /\ who' = [who EXCEPT ![r] = t.user]
  /\ Goto(r, IF now < t.second + Lifetime THEN "refresh" ELSE "failed")
  /\ UNCHANGED <<now, users, rows, row, loggedOut, raced>>

\* GetRefreshToken
FindToken(r) ==
  /\ at[r] = "refresh"
  /\ \/ /\ LiveRows(shown[r]) = {}
        /\ Goto(r, "failed")
        /\ UNCHANGED <<row, raced>>
     \/ \E i \in LiveRows(shown[r]) :
          /\ row' = [row EXCEPT ![r] = i]
          /\ Goto(r, "revoke")
          /\ raced' = (raced \/ \E q \in Request : at[q] = "revoke" /\ row[q] = i)
  /\ UNCHANGED <<now, users, rows, who, shown, loggedOut>>

\* RevokeRefreshToken, by row id and whether or not somebody else just did.
RevokeOld(r) ==
  /\ at[r] = "revoke"
  /\ rows' = Revoked(row[r])
  /\ Goto(r, "load")
  /\ UNCHANGED <<now, users, who, shown, row, loggedOut, raced>>

\* userRepo.GetByID
LoadUser(r) ==
  /\ at[r] = "load"
  /\ Goto(r, IF users[who[r]] > 0 THEN "issue" ELSE "failed")
  /\ UNCHANGED <<now, users, rows, who, shown, row, loggedOut, raced>>

-----------------------------------------------------------------------------
(* Logout *)

Logout(r, t) ==
  /\ at[r] = "idle"
  /\ shown' = [shown EXCEPT ![r] = t]
  /\ Goto(r, "logout")
  /\ UNCHANGED <<now, users, rows, who, row, loggedOut, raced>>

\* GetRefreshToken; a token that is not there is already logged out.
LogoutFind(r) ==
  /\ at[r] = "logout"
  /\ \/ /\ LiveRows(shown[r]) = {}
        /\ Goto(r, "done")
        /\ loggedOut' = loggedOut \cup {shown[r]}
        /\ UNCHANGED row
     \/ \E i \in LiveRows(shown[r]) :
          /\ row' = [row EXCEPT ![r] = i]
          /\ Goto(r, "logoutRevoke")
          /\ UNCHANGED loggedOut
  /\ UNCHANGED <<now, users, rows, who, shown, raced>>

LogoutRevoke(r) ==
  /\ at[r] = "logoutRevoke"
  /\ rows' = Revoked(row[r])
  /\ loggedOut' = loggedOut \cup {shown[r]}
  /\ Goto(r, "done")
  /\ UNCHANGED <<now, users, who, shown, row, raced>>

-----------------------------------------------------------------------------
\* A statement fails, the client goes away or the server dies.
Fail(r) ==
  /\ at[r] \notin {"idle", "done", "failed"}
  /\ Goto(r, "failed")
  /\ UNCHANGED <<now, users, rows, who, shown, row, loggedOut, raced>>

Tick ==
  /\ now < MaxTime
  /\ now' = now + 1
  /\ UNCHANGED <<users, rows, reqVars, loggedOut, raced>>

RequestStep(r) ==
  \/ \E u \in User : Register(r, u) \/ Login(r, u)
  \/ CreateUser(r) \/ Issue(r)
  \/ \E t \in Issued : Refresh(r, t) \/ Logout(r, t)
  \/ FindToken(r) \/ RevokeOld(r) \/ LoadUser(r)
  \/ LogoutFind(r) \/ LogoutRevoke(r)
  \/ Fail(r)

Next == Tick \/ \E r \in Request : RequestStep(r)

Spec == Init /\ [][Next]_vars

-----------------------------------------------------------------------------
(* Properties *)

\* The variables have the types of the tables and of the Go locals.
TypeOK ==
  /\ now \in 0 .. MaxTime
  /\ users \in [User -> Nat]
  /\ rows \in Seq(Row)
  /\ at \in [Request -> Steps]
  /\ who \in [Request -> User \cup {None}]
  /\ shown \in [Request -> Token \cup {None}]
  /\ row \in [Request -> Nat \cup {None}]
  /\ loggedOut \subseteq Token
  /\ raced \in BOOLEAN

\* An e-mail address has at most one account, although Register checks for it
\* in one statement and inserts in another.
OneAccountPerEmail == \A u \in User : users[u] <= 1

\* Rotation: the tokens that descend from one login are exchanged for each
\* other, so at most one of them is live and a request about to issue the next
\* has none left - as long as no two refreshes overlapped on one token.
Live(f) == {i \in 1 .. Len(rows) : rows[i].family = f /\ ~rows[i].revoked}
Heirs(f) == {r \in Request : /\ at[r] \in {"load", "issue"}
                             /\ row[r] # None
                             /\ rows[row[r]].family = f}
RotationWhenAlone ==
  raced \/ \A f \in 1 .. Len(rows) : Cardinality(Live(f)) + Cardinality(Heirs(f)) <= 1

\* After a successful logout the token is dead until it is issued anew, whatever
\* refreshes were under way, unless two rows hold the very same token.
LogoutWhenUnique ==
  \A t \in loggedOut :
    Cardinality({i \in 1 .. Len(rows) : rows[i].token = t}) = 1 => LiveRows(t) = {}
=============================================================================
