--------------------------- MODULE SessionsProofs ---------------------------
(***************************************************************************)
(* For any number of users and requests, any lifetime of tokens and any    *)
(* time: an e-mail address has one account, a refresh is an exchange, and  *)
(* rotation and logout hold under the provisos that Sessions states. And   *)
(* for any limit and any number of requests, the rate limiter before them  *)
(* leaves no key without a deadline that nobody is about to set, and lets  *)
(* no more than Max requests pass in a window.                             *)
(***************************************************************************)
EXTENDS Sessions, RateLimit, FiniteSetTheorems, TLAPS

\* A row's family is the row of the login it descends from, which is the same user's.
Lineage ==
  \A i \in 1 .. Len(rows) :
    /\ rows[i].family \in 1 .. Len(rows)
    /\ rows[rows[i].family].token.user = rows[i].token.user

\* A request that has a row; and what it knows of it.
HasRow(r) == row[r] \in 1 .. Len(rows) /\ rows[row[r]].token = shown[r]

Prepared ==
  \A r \in Request :
    /\ row[r] # None => HasRow(r)
    /\ at[r] \in {"idle", "create", "refresh", "logout"} => row[r] = None
    /\ at[r] \in {"create", "issue", "refresh", "revoke", "load"} => who[r] \in User
    /\ at[r] \in {"refresh", "revoke", "logout", "logoutRevoke"} => shown[r] \in Token
    /\ at[r] \in {"refresh", "revoke", "load"} => shown[r] \in Token /\ who[r] = shown[r].user
    /\ at[r] \in {"revoke", "load", "logoutRevoke"} => row[r] # None
    /\ at[r] \in {"load", "issue"} /\ row[r] # None => /\ rows[row[r]].revoked
                                                       /\ who[r] = shown[r].user

\* The row is live, or a refresh has found it so and is about to revoke it.
Claimed(i) ==
  ~rows[i].revoked \/ \E r \in Request : at[r] = "revoke" /\ row[r] = i

\* A refresh that has revoked its row and not yet issued the next.
Heir(r) == at[r] \in {"load", "issue"} /\ row[r] # None

\* In a family there is one claim or one heir, and one refresh has it.
Alone ==
  ~raced =>
    /\ \A i, j \in 1 .. Len(rows) :
         Claimed(i) /\ Claimed(j) /\ rows[i].family = rows[j].family => i = j
    /\ \A r, q \in Request :
         Heir(r) /\ Heir(q) /\ rows[row[r]].family = rows[row[q]].family => r = q
    /\ \A r \in Request, i \in 1 .. Len(rows) :
         Heir(r) /\ Claimed(i) => rows[row[r]].family # rows[i].family
    /\ \A r, q \in Request : at[r] = "revoke" /\ at[q] = "revoke" /\ row[r] = row[q] => r = q

\* LogoutWhenUnique without counting: of a token logged out, a row that is alone is dead.
DeadWhenUnique ==
  \A t \in loggedOut, i \in 1 .. Len(rows) :
    (\A j \in 1 .. Len(rows) : rows[j].token = t <=> j = i) => rows[i].revoked

IInv == TypeOK /\ OneAccountPerEmail /\ Lineage /\ Prepared /\ Alone /\ DeadWhenUnique

-----------------------------------------------------------------------------
\* The UPDATE of RevokeRefreshToken changes revoked in one row and nothing else.
LEMMA RevokedFacts ==
  ASSUME rows \in Seq(Row), NEW i \in 1 .. Len(rows), rows' = Revoked(i)
  PROVE  /\ rows' \in Seq(Row) /\ Len(rows') = Len(rows)
         /\ \A k \in 1 .. Len(rows) : /\ rows'[k].token = rows[k].token
                                      /\ rows'[k].family = rows[k].family
                                      /\ rows'[k].revoked = (k = i \/ rows[k].revoked)
<1>1. \A k \in 1 .. Len(rows) : rows[k] \in Row
  OBVIOUS
<1>2. [rows[i] EXCEPT !.revoked = TRUE] \in Row
  BY <1>1 DEF Row
<1>3. rows' = [rows EXCEPT ![i] = [rows[i] EXCEPT !.revoked = TRUE]]
  BY DEF Revoked
<1>4. rows' \in Seq(Row) /\ Len(rows') = Len(rows)
  BY <1>2, <1>3
<1>5. \A k \in 1 .. Len(rows) :
        rows'[k] = IF k = i THEN [rows[i] EXCEPT !.revoked = TRUE] ELSE rows[k]
  BY <1>3
<1>6. rows'[i].token = rows[i].token /\ rows'[i].family = rows[i].family /\ rows'[i].revoked = TRUE
  BY <1>1, <1>5 DEF Row
<1>7. \A k \in 1 .. Len(rows) : rows[k].revoked \in BOOLEAN
  BY <1>1 DEF Row
<1> QED BY <1>4, <1>5, <1>6, <1>7

\* The INSERT of generateAuthResponse adds a live row for this second.
LEMMA IssueFacts ==
  ASSUME TypeOK, Lineage, Prepared, NEW r \in Request, Issue(r)
  PROVE  LET n == Len(rows) + 1
             t == [user |-> who[r], second |-> now]
         IN /\ t \in Token /\ n \in Nat /\ n > 0
            /\ rows' \in Seq(Row) /\ Len(rows') = n
            /\ \A k \in 1 .. Len(rows) : rows'[k] = rows[k]
            /\ rows'[n].token = t /\ rows'[n].revoked = FALSE
            /\ rows'[n].family = IF row[r] = None THEN n ELSE rows[row[r]].family
            /\ row[r] # None => rows[row[r]].family \in 1 .. Len(rows)
            /\ loggedOut' = loggedOut \ {t}
<1> DEFINE n == Len(rows) + 1
           t == [user |-> who[r], second |-> now]
           f == IF row[r] = None THEN n ELSE rows[row[r]].family
           new == [token |-> t, revoked |-> FALSE, family |-> f]
<1>1. t \in Token
  BY DEF TypeOK, Prepared, Issue, Token
<1>2. n \in Nat \ {0}
  BY DEF TypeOK
<1>3. row[r] # None => rows[row[r]].family \in 1 .. Len(rows)
  BY DEF Prepared, HasRow, Lineage
<1>4. f \in Nat \ {0}
  BY <1>2, <1>3
<1>5. new \in Row
  BY <1>1, <1>4 DEF Row
<1>6. rows' = Append(rows, new) /\ loggedOut' = loggedOut \ {t}
  BY DEF Issue
<1>7. /\ rows' \in Seq(Row) /\ Len(rows') = n /\ rows'[n] = new
      /\ \A k \in 1 .. Len(rows) : rows'[k] = rows[k]
  <2> HIDE DEF new
  <2> QED BY <1>5, <1>6 DEF TypeOK
<1> QED BY <1>1, <1>2, <1>3, <1>6, <1>7

-----------------------------------------------------------------------------
\* The invariant holds initially.
LEMMA InitOK == Init => IInv
<1> SUFFICES ASSUME Init PROVE IInv
  OBVIOUS
<1>1. rows = <<>> /\ Len(rows) = 0 /\ loggedOut = {}
  BY DEF Init
<1>2. TypeOK
  <2>1. rows \in Seq(Row)
    BY <1>1
  <2>2. now \in 0 .. MaxTime /\ users \in [User -> Nat]
    BY SessionsAssumption DEF Init
  <2>3. at \in [Request -> Steps] /\ loggedOut \subseteq Token /\ raced \in BOOLEAN
    BY <1>1 DEF Init, Steps
  <2>4. /\ who \in [Request -> User \cup {None}]
        /\ shown \in [Request -> Token \cup {None}]
        /\ row \in [Request -> Nat \cup {None}]
    BY DEF Init
  <2> QED BY <2>1, <2>2, <2>3, <2>4 DEF TypeOK
<1>3. OneAccountPerEmail
  BY DEF Init, OneAccountPerEmail
<1>4. Lineage /\ DeadWhenUnique
  BY <1>1 DEF Lineage, DeadWhenUnique
<1>5. Prepared
  BY DEF Init, Prepared
<1>6. Alone
  BY <1>1 DEF Init, Alone, Heir
<1> QED BY <1>2, <1>3, <1>4, <1>5, <1>6 DEF IInv

\* A token that was issued is a token.
LEMMA IssuedAreTokens == TypeOK => Issued \subseteq Token
<1> SUFFICES ASSUME TypeOK, NEW i \in 1 .. Len(rows) PROVE rows[i].token \in Token
  BY DEF Issued
<1>1. rows[i] \in Row
  BY DEF TypeOK
<1> QED BY <1>1 DEF Row

\* Every step keeps the types.
LEMMA TypeStep == TypeOK /\ Lineage /\ Prepared /\ [Next]_vars => TypeOK'
<1> SUFFICES ASSUME TypeOK, Lineage, Prepared, [Next]_vars PROVE TypeOK'
  OBVIOUS
<1> USE DEF TypeOK, Steps, Goto
<1>1. ASSUME NEW r \in Request, NEW u \in User, Register(r, u) \/ Login(r, u) PROVE TypeOK'
  BY <1>1 DEF Register, Login
<1>2. ASSUME NEW r \in Request, CreateUser(r) PROVE TypeOK'
  <2>1. who[r] \in User
    BY <1>2 DEF CreateUser, Prepared
  <2> QED BY <1>2, <2>1 DEF CreateUser
<1>3. ASSUME NEW r \in Request, Issue(r) PROVE TypeOK'
  <2>1. rows' \in Seq(Row) /\ loggedOut' \subseteq Token
    BY <1>3, IssueFacts
  <2>2. at' \in [Request -> Steps] /\ UNCHANGED <<now, users, who, shown, row, raced>>
    BY <1>3 DEF Issue
  <2> QED BY <2>1, <2>2
<1>4. ASSUME NEW r \in Request, NEW t \in Issued, Refresh(r, t) \/ Logout(r, t) PROVE TypeOK'
  <2>1. t \in Token /\ t.user \in User
    BY IssuedAreTokens DEF Token
  <2> QED BY <1>4, <2>1 DEF Refresh, Logout
<1>5. ASSUME NEW r \in Request, FindToken(r) \/ LogoutFind(r) PROVE TypeOK'
  <2>1. LiveRows(shown[r]) \subseteq Nat
    BY DEF LiveRows
  <2>2. row' \in [Request -> Nat \cup {None}]
    BY <1>5, <2>1 DEF FindToken, LogoutFind
  <2>3. loggedOut' \subseteq Token
    BY <1>5 DEF FindToken, LogoutFind, Prepared
  <2>4. raced' \in BOOLEAN
    BY <1>5 DEF FindToken, LogoutFind
  <2> QED BY <1>5, <2>2, <2>3, <2>4 DEF FindToken, LogoutFind
<1>6. ASSUME NEW r \in Request, RevokeOld(r) \/ LogoutRevoke(r) PROVE TypeOK'
  <2>1. row[r] \in 1 .. Len(rows) /\ rows' = Revoked(row[r])
    BY <1>6 DEF RevokeOld, LogoutRevoke, Prepared, HasRow
  <2>2. rows' \in Seq(Row)
    BY <2>1, RevokedFacts
  <2>3. loggedOut' \subseteq Token /\ at' \in [Request -> Steps]
    BY <1>6 DEF RevokeOld, LogoutRevoke, Prepared
  <2> QED BY <1>6, <2>2, <2>3 DEF RevokeOld, LogoutRevoke
<1>7. ASSUME NEW r \in Request, LoadUser(r) \/ Fail(r) PROVE TypeOK'
  BY <1>7 DEF LoadUser, Fail
<1>8. CASE Tick
  <2>1. now' \in 0 .. MaxTime
    BY <1>8, SessionsAssumption DEF Tick
  <2> QED BY <1>8, <2>1 DEF Tick, reqVars
<1>9. CASE UNCHANGED vars
  BY <1>9 DEF vars
<1> QED
  BY <1>1, <1>2, <1>3, <1>4, <1>5, <1>6, <1>7, <1>8, <1>9 DEF Next, RequestStep

\* What a step does to the rows, the requests and the history, where it does anything.
LEMMA RowSteps ==
  ASSUME [Next]_vars
  PROVE  \/ UNCHANGED rows
         \/ \E r \in Request : Issue(r) \/ RevokeOld(r) \/ LogoutRevoke(r)
  BY DEF Next, RequestStep, vars, Tick, Register, Login, CreateUser, Refresh, Logout, FindToken,
         LoadUser, LogoutFind, Fail

\* Families stay families of one user.
LEMMA LineageStep == TypeOK /\ Lineage /\ Prepared /\ [Next]_vars => Lineage'
<1> SUFFICES ASSUME TypeOK, Lineage, Prepared, [Next]_vars PROVE Lineage'
  OBVIOUS
<1>1. CASE UNCHANGED rows
  BY <1>1 DEF Lineage
<1>2. ASSUME NEW r \in Request, Issue(r) PROVE Lineage'
  <2> DEFINE n == Len(rows) + 1
             t == [user |-> who[r], second |-> now]
  <2>1. /\ n \in Nat /\ Len(rows') = n /\ \A k \in 1 .. Len(rows) : rows'[k] = rows[k]
        /\ rows'[n].token = t
        /\ rows'[n].family = IF row[r] = None THEN n ELSE rows[row[r]].family
        /\ row[r] # None => rows[row[r]].family \in 1 .. Len(rows)
    BY <1>2, IssueFacts
  <2>2. Len(rows) \in Nat
    BY DEF TypeOK
  <2>3. row[r] # None => rows[rows[row[r]].family].token.user = who[r]
    BY <1>2 DEF Issue, Prepared, HasRow, Lineage
  <2>4. t.user = who[r]
    OBVIOUS
  <2> HIDE DEF t
  <2>5. rows'[n].family \in 1 .. n /\ rows'[rows'[n].family].token.user = rows'[n].token.user
    <3>1. CASE row[r] = None
      BY <2>1, <2>2, <3>1
    <3>2. CASE row[r] # None
      BY <2>1, <2>2, <2>3, <2>4, <3>2
    <3> QED BY <3>1, <3>2
  <2>6. ASSUME NEW i \in 1 .. Len(rows)
        PROVE  /\ rows'[i].family \in 1 .. n
               /\ rows'[rows'[i].family].token.user = rows'[i].token.user
    BY <2>1, <2>2 DEF Lineage
  <2> QED BY <2>1, <2>2, <2>5, <2>6 DEF Lineage
<1>3. ASSUME NEW r \in Request, RevokeOld(r) \/ LogoutRevoke(r) PROVE Lineage'
  <2>1. row[r] \in 1 .. Len(rows) /\ rows' = Revoked(row[r])
    BY <1>3 DEF RevokeOld, LogoutRevoke, Prepared, HasRow
  <2>2. Len(rows') = Len(rows) /\ \A k \in 1 .. Len(rows) : /\ rows'[k].token = rows[k].token
                                                         /\ rows'[k].family = rows[k].family
    BY <2>1, RevokedFacts DEF TypeOK
  <2> QED BY <2>2 DEF Lineage
<1> QED BY <1>1, <1>2, <1>3, RowSteps

\* A row, once there, keeps its token, and stays revoked.
LEMMA RowsLast ==
  ASSUME TypeOK, Lineage, Prepared, [Next]_vars
  PROVE  \A i \in 1 .. Len(rows) : /\ i \in 1 .. Len(rows')
                                   /\ rows'[i].token = rows[i].token
                                   /\ rows'[i].family = rows[i].family
                                   /\ rows[i].revoked => rows'[i].revoked
<1>1. CASE UNCHANGED rows
  BY <1>1
<1>2. ASSUME NEW r \in Request, Issue(r)
      PROVE  \A i \in 1 .. Len(rows) : i \in 1 .. Len(rows') /\ rows'[i] = rows[i]
  <2>1. Len(rows) \in Nat
    BY DEF TypeOK
  <2>2. Len(rows') = Len(rows) + 1 /\ \A k \in 1 .. Len(rows) : rows'[k] = rows[k]
    BY <1>2, IssueFacts
  <2> QED BY <2>1, <2>2
<1>3. ASSUME NEW r \in Request, RevokeOld(r) \/ LogoutRevoke(r)
      PROVE  \A i \in 1 .. Len(rows) : /\ i \in 1 .. Len(rows')
                                       /\ rows'[i].token = rows[i].token
                                       /\ rows'[i].family = rows[i].family
                                       /\ rows[i].revoked => rows'[i].revoked
  <2>1. row[r] \in 1 .. Len(rows) /\ rows' = Revoked(row[r])
    BY <1>3 DEF RevokeOld, LogoutRevoke, Prepared, HasRow
  <2> QED BY <2>1, RevokedFacts DEF TypeOK
<1> QED BY <1>1, <1>2, <1>3, RowSteps

\* Requests keep what they have established.
LEMMA PreparedStep == TypeOK /\ Lineage /\ Prepared /\ [Next]_vars => Prepared'
<1> SUFFICES ASSUME TypeOK, Lineage, Prepared, [Next]_vars PROVE Prepared'
  OBVIOUS
<1> USE DEF TypeOK, Prepared, Goto
<1>0. \A i \in 1 .. Len(rows) : /\ i \in 1 .. Len(rows') /\ rows'[i].token = rows[i].token
                                /\ rows[i].revoked => rows'[i].revoked
  BY RowsLast
<1>1. ASSUME NEW r \in Request, NEW u \in User, Register(r, u) \/ Login(r, u) PROVE Prepared'
  BY <1>1 DEF Register, Login, HasRow
<1>2. ASSUME NEW r \in Request, CreateUser(r) PROVE Prepared'
  BY <1>2 DEF CreateUser, HasRow
<1>3. ASSUME NEW r \in Request, Issue(r) PROVE Prepared'
  <2>1. \A q \in Request : row'[q] # None => HasRow(q)'
    BY <1>0, <1>3 DEF Issue, HasRow
  <2> QED BY <1>0, <1>3, <2>1 DEF Issue, HasRow
<1>4. ASSUME NEW r \in Request, NEW t \in Issued, Refresh(r, t) \/ Logout(r, t) PROVE Prepared'
  <2>1. t \in Token /\ t.user \in User
    BY IssuedAreTokens DEF Token
  <2> QED BY <1>4, <2>1 DEF Refresh, Logout, HasRow
<1>5. ASSUME NEW r \in Request, FindToken(r) \/ LogoutFind(r) PROVE Prepared'
  <2>1. \A i \in LiveRows(shown[r]) : i \in 1 .. Len(rows) /\ rows[i].token = shown[r]
    BY DEF LiveRows
  <2>2. \A i \in LiveRows(shown[r]) : i # None
    BY <2>1, SessionsAssumption
  <2> QED BY <1>5, <2>1, <2>2 DEF FindToken, LogoutFind, HasRow
<1>6. ASSUME NEW r \in Request, RevokeOld(r) \/ LogoutRevoke(r) PROVE Prepared'
  <2>1. row[r] \in 1 .. Len(rows) /\ rows' = Revoked(row[r])
    BY <1>6 DEF RevokeOld, LogoutRevoke, HasRow
  <2>2. rows'[row[r]].revoked
    BY <2>1, RevokedFacts
  <2>3. \A q \in Request : row'[q] # None => HasRow(q)'
    BY <1>0, <1>6 DEF RevokeOld, LogoutRevoke, HasRow
  <2> QED BY <1>0, <1>6, <2>2, <2>3 DEF RevokeOld, LogoutRevoke, HasRow
<1>7. ASSUME NEW r \in Request, LoadUser(r) \/ Fail(r) PROVE Prepared'
  BY <1>7 DEF LoadUser, Fail, HasRow
<1>8. CASE Tick
  BY <1>8 DEF Tick, reqVars, HasRow
<1>9. CASE UNCHANGED vars
  BY <1>9 DEF vars, HasRow
<1> QED
  BY <1>1, <1>2, <1>3, <1>4, <1>5, <1>6, <1>7, <1>8, <1>9 DEF Next, RequestStep

\* The unique key of users keeps an address to one account.
LEMMA OneAccountStep ==
  TypeOK /\ Prepared /\ OneAccountPerEmail /\ [Next]_vars => OneAccountPerEmail'
<1> SUFFICES ASSUME TypeOK, Prepared, OneAccountPerEmail, [Next]_vars PROVE OneAccountPerEmail'
  OBVIOUS
<1>1. UNCHANGED users \/ \E r \in Request : CreateUser(r)
  BY DEF Next, RequestStep, vars, Tick, Register, Login, Issue, Refresh, Logout, FindToken,
         RevokeOld, LoadUser, LogoutFind, LogoutRevoke, Fail
<1>2. ASSUME NEW r \in Request, CreateUser(r) PROVE OneAccountPerEmail'
  <2>1. who[r] \in User /\ users \in [User -> Nat]
    BY <1>2 DEF CreateUser, TypeOK, Prepared
  <2>2. users' = users \/ (users[who[r]] = 0 /\ users' = [users EXCEPT ![who[r]] = 1])
    BY <1>2, <2>1 DEF CreateUser
  <2> QED BY <2>1, <2>2 DEF OneAccountPerEmail
<1> QED BY <1>1, <1>2 DEF OneAccountPerEmail

\* A token that was logged out stays dead, or is issued anew.
LEMMA DeadStep ==
  ASSUME TypeOK, Lineage, Prepared, DeadWhenUnique, [Next]_vars
  PROVE  DeadWhenUnique'
<1> SUFFICES ASSUME NEW t \in loggedOut', NEW i \in 1 .. Len(rows'),
                    \A j \in 1 .. Len(rows') : rows'[j].token = t <=> j = i
             PROVE  rows'[i].revoked
  BY DEF DeadWhenUnique
<1>1. ASSUME NEW r \in Request, Issue(r) PROVE rows'[i].revoked
  <2> DEFINE n == Len(rows) + 1
  <2>1. /\ n \in Nat /\ Len(rows') = n /\ rows'[n].token \notin loggedOut'
        /\ loggedOut' \subseteq loggedOut /\ \A k \in 1 .. Len(rows) : rows'[k] = rows[k]
    BY <1>1, IssueFacts
  <2>2. Len(rows) \in Nat
    BY DEF TypeOK
  <2>3. i \in 1 .. Len(rows)
    BY <2>1, <2>2
  <2>4. \A j \in 1 .. Len(rows) : rows[j].token = t <=> j = i
    BY <2>1, <2>2
  <2> QED BY <2>1, <2>3, <2>4 DEF DeadWhenUnique
<1>2. ASSUME Len(rows') = Len(rows), t \in loggedOut PROVE rows'[i].revoked
  <2>1. \A j \in 1 .. Len(rows) : rows'[j].token = rows[j].token
    BY RowsLast
  <2>2. rows[i].revoked
    BY <1>2, <2>1 DEF DeadWhenUnique
  <2> QED BY <1>2, <2>2, RowsLast
<1>3. ASSUME NEW r \in Request, LogoutFind(r), t \notin loggedOut PROVE rows'[i].revoked
  <2>1. rows' = rows /\ t = shown[r] /\ LiveRows(shown[r]) = {}
    BY <1>3 DEF LogoutFind
  <2> QED BY <2>1 DEF LiveRows
<1>4. ASSUME NEW r \in Request, RevokeOld(r) \/ LogoutRevoke(r)
      PROVE  Len(rows') = Len(rows) /\ (t \notin loggedOut => rows'[i].revoked)
  <2>1. row[r] \in 1 .. Len(rows) /\ rows' = Revoked(row[r]) /\ rows[row[r]].token = shown[r]
    BY <1>4 DEF RevokeOld, LogoutRevoke, Prepared, HasRow
  <2>2. /\ Len(rows') = Len(rows) /\ rows'[row[r]].revoked /\ rows'[row[r]].token = shown[r]
    BY <2>1, RevokedFacts DEF TypeOK
  <2>3. t \notin loggedOut => t = shown[r]
    BY <1>4 DEF RevokeOld, LogoutRevoke
  <2> QED BY <2>1, <2>2, <2>3
<1>5. \/ UNCHANGED <<rows, loggedOut>>
      \/ \E r \in Request : Issue(r) \/ RevokeOld(r) \/ LogoutRevoke(r)
      \/ \E r \in Request : LogoutFind(r) /\ UNCHANGED rows
  BY DEF Next, RequestStep, vars, Tick, Register, Login, CreateUser, Refresh, Logout, FindToken,
         LoadUser, LogoutFind, Fail
<1> QED BY <1>1, <1>2, <1>3, <1>4, <1>5

\* A step that makes no claim and no heir keeps them alone.
LEMMA AloneIfFewer ==
  ASSUME Alone, raced => raced', UNCHANGED rows,
         \A i \in 1 .. Len(rows) : Claimed(i)' => Claimed(i),
         \A q \in Request : Heir(q)' => Heir(q) /\ row'[q] = row[q],
         ~raced' => \A r, q \in Request :
                      at'[r] = "revoke" /\ at'[q] = "revoke" /\ row'[r] = row'[q] => r = q
  PROVE  Alone'
  BY DEF Alone

\* A refresh that revokes its row is the only heir of the claim it gives up.
LEMMA AloneAfterRevoke ==
  ASSUME TypeOK, Prepared, Alone, NEW r \in Request, RevokeOld(r)
  PROVE  Alone'
<1> SUFFICES ASSUME ~raced PROVE Alone'
  BY DEF Alone, RevokeOld
<1> USE DEF TypeOK
<1>1. /\ row[r] \in 1 .. Len(rows) /\ row[r] # None /\ rows' = Revoked(row[r]) /\ row' = row
      /\ at[r] = "revoke" /\ at' = [at EXCEPT ![r] = "load"]
  BY DEF RevokeOld, Prepared, HasRow, Goto
<1>2. /\ Len(rows') = Len(rows)
      /\ \A k \in 1 .. Len(rows) : /\ rows'[k].family = rows[k].family
                                   /\ rows'[k].revoked = (k = row[r] \/ rows[k].revoked)
  BY <1>1, RevokedFacts
<1>3. \A q \in Request : at'[q] = "revoke" => q # r /\ at[q] = "revoke"
  BY <1>1
<1>4. Claimed(row[r])
  BY <1>1 DEF Claimed
<1>5. ASSUME NEW i \in 1 .. Len(rows), Claimed(i)' PROVE Claimed(i) /\ i # row[r]
  <2>1. CASE ~rows'[i].revoked
    BY <1>2, <2>1 DEF Claimed
  <2>2. CASE \E q \in Request : at'[q] = "revoke" /\ row'[q] = i
    <3>1. PICK q \in Request : at[q] = "revoke" /\ row[q] = i /\ q # r
      BY <1>1, <1>3, <2>2
    <3> QED BY <1>1, <3>1 DEF Claimed, Alone
  <2> QED BY <1>5, <2>1, <2>2 DEF Claimed
<1>6. ASSUME NEW q \in Request, Heir(q)' PROVE q = r \/ Heir(q)
  BY <1>1, <1>6 DEF Heir
<1>7. \A q \in Request : Heir(q)' \/ Heir(q) => row[q] \in 1 .. Len(rows)
  BY <1>1 DEF Heir, Prepared, HasRow
<1>8. \A q \in Request : Heir(q) => rows[row[q]].family # rows[row[r]].family
  BY <1>1, <1>4 DEF Alone
<1>9. \A i, j \in 1 .. Len(rows') :
        Claimed(i)' /\ Claimed(j)' /\ rows'[i].family = rows'[j].family => i = j
  BY <1>2, <1>5 DEF Alone
<1>10. ASSUME NEW p \in Request, NEW q \in Request, Heir(p)', Heir(q)',
              rows'[row'[p]].family = rows'[row'[q]].family
       PROVE  p = q
  <2>1. rows[row[p]].family = rows[row[q]].family
    BY <1>1, <1>2, <1>7, <1>10
  <2> QED BY <1>6, <1>8, <1>10, <2>1 DEF Alone
<1>11. ASSUME NEW q \in Request, NEW i \in 1 .. Len(rows'), Heir(q)', Claimed(i)'
       PROVE  rows'[row'[q]].family # rows'[i].family
  <2>1. Claimed(i) /\ i # row[r] /\ i \in 1 .. Len(rows)
    BY <1>2, <1>5, <1>11
  <2>2. rows[row[q]].family # rows[i].family
    BY <1>1, <1>4, <1>6, <1>11, <2>1 DEF Alone
  <2> QED BY <1>1, <1>2, <1>7, <1>11, <2>1, <2>2
<1>12. \A p, q \in Request : at'[p] = "revoke" /\ at'[q] = "revoke" /\ row'[p] = row'[q] => p = q
  BY <1>1, <1>3 DEF Alone
<1> QED BY <1>9, <1>10, <1>11, <1>12 DEF Alone

\* What is issued takes the place of the heir, or begins a family.
LEMMA AloneAfterIssue ==
  ASSUME TypeOK, Lineage, Prepared, Alone, NEW r \in Request, Issue(r)
  PROVE  Alone'
<1> SUFFICES ASSUME ~raced PROVE Alone'
  BY DEF Alone, Issue
<1> DEFINE n == Len(rows) + 1
<1>1. /\ row' = row /\ at[r] = "issue" /\ at' = [at EXCEPT ![r] = "done"]
  BY DEF Issue, Goto
<1>2. /\ n \in Nat /\ Len(rows') = n /\ Len(rows) \in Nat
      /\ \A k \in 1 .. Len(rows) : rows'[k] = rows[k]
      /\ rows'[n].family = IF row[r] = None THEN n ELSE rows[row[r]].family
  <2>1. Len(rows) \in Nat
    BY DEF TypeOK
  <2> QED BY <2>1, IssueFacts
<1>3. \A i \in 1 .. Len(rows) : rows[i].family \in 1 .. Len(rows) /\ rows[i].family # n
  BY <1>2 DEF Lineage
<1>4. \A q \in Request : at'[q] = "revoke" => at[q] = "revoke"
  BY <1>1
<1>5. \A i \in 1 .. Len(rows) : Claimed(i)' => Claimed(i)
  BY <1>1, <1>2, <1>4 DEF Claimed
<1>6. \A q \in Request : Heir(q)' => Heir(q) /\ q # r /\ row[q] \in 1 .. Len(rows)
  BY <1>1 DEF TypeOK, Heir, Prepared, HasRow
<1>7. \A i \in 1 .. Len(rows) : Claimed(i) => rows'[n].family # rows[i].family
  <2>1. CASE row[r] = None
    BY <1>2, <1>3, <2>1
  <2>2. CASE row[r] # None
    <3>1. Heir(r)
      BY <1>1, <2>2 DEF Heir
    <3> QED BY <1>2, <2>2, <3>1 DEF Alone
  <2> QED BY <2>1, <2>2
<1>8. \A q \in Request : Heir(q) /\ q # r => rows'[n].family # rows[row[q]].family
  <2>1. CASE row[r] = None
    BY <1>2, <1>3, <2>1 DEF Heir, Prepared, HasRow
  <2>2. CASE row[r] # None
    <3>1. Heir(r)
      BY <1>1, <2>2 DEF Heir
    <3> QED BY <1>2, <2>2, <3>1 DEF Alone
  <2> QED BY <2>1, <2>2
<1>9. \A i \in 1 .. Len(rows') : i = n \/ i \in 1 .. Len(rows)
  BY <1>2
<1>10. \A i, j \in 1 .. Len(rows') :
        Claimed(i)' /\ Claimed(j)' /\ rows'[i].family = rows'[j].family => i = j
  BY <1>2, <1>5, <1>7, <1>9 DEF Alone
<1>11. \A p, q \in Request :
         Heir(p)' /\ Heir(q)' /\ rows'[row'[p]].family = rows'[row'[q]].family => p = q
  BY <1>1, <1>2, <1>6 DEF Alone
<1>12. \A q \in Request, i \in 1 .. Len(rows') :
         Heir(q)' /\ Claimed(i)' => rows'[row'[q]].family # rows'[i].family
  BY <1>1, <1>2, <1>5, <1>6, <1>8, <1>9 DEF Alone
<1>13. \A p, q \in Request : at'[p] = "revoke" /\ at'[q] = "revoke" /\ row'[p] = row'[q] => p = q
  BY <1>1, <1>4 DEF Alone
<1> QED BY <1>10, <1>11, <1>12, <1>13 DEF Alone

\* Every step keeps claims and heirs alone.
LEMMA AloneStep == TypeOK /\ Lineage /\ Prepared /\ Alone /\ [Next]_vars => Alone'
<1> SUFFICES ASSUME TypeOK, Lineage, Prepared, Alone, [Next]_vars PROVE Alone'
  OBVIOUS
<1> USE DEF TypeOK, Goto
<1>1. ASSUME NEW r \in Request, UNCHANGED <<rows, raced>>,
             at'[r] # "revoke", Heir(r)' => Heir(r) /\ row'[r] = row[r],
             \A q \in Request : q # r => at'[q] = at[q] /\ row'[q] = row[q]
      PROVE  Alone'
  <2>1. \A i \in 1 .. Len(rows) : Claimed(i)' => Claimed(i)
    BY <1>1 DEF Claimed
  <2>2. \A q \in Request : Heir(q)' => Heir(q) /\ row'[q] = row[q]
    BY <1>1 DEF Heir
  <2>3. ~raced' => \A p, q \in Request :
          at'[p] = "revoke" /\ at'[q] = "revoke" /\ row'[p] = row'[q] => p = q
    BY <1>1 DEF Alone
  <2> QED BY <1>1, <2>1, <2>2, <2>3, AloneIfFewer
<1>2. ASSUME NEW r \in Request,
             \/ \E u \in User : Register(r, u) \/ Login(r, u)
             \/ CreateUser(r)
             \/ \E t \in Issued : Refresh(r, t) \/ Logout(r, t)
             \/ LoadUser(r) \/ LogoutFind(r) \/ Fail(r)
      PROVE  Alone'
  <2>1. UNCHANGED <<rows, raced>> /\ at'[r] # "revoke"
    BY <1>2 DEF Register, Login, CreateUser, Refresh, Logout, LoadUser, LogoutFind, Fail
  <2>2. Heir(r)' => Heir(r) /\ row'[r] = row[r]
    BY <1>2 DEF Register, Login, CreateUser, Refresh, Logout, LoadUser, LogoutFind, Fail, Heir,
                Prepared
  <2>3. \A q \in Request : q # r => at'[q] = at[q] /\ row'[q] = row[q]
    BY <1>2 DEF Register, Login, CreateUser, Refresh, Logout, LoadUser, LogoutFind, Fail
  <2> QED BY <1>1, <2>1, <2>2, <2>3
<1>3. ASSUME NEW r \in Request, FindToken(r) PROVE Alone'
  <2>1. rows' = rows /\ (raced => raced') /\ at[r] = "refresh"
    BY <1>3 DEF FindToken
  <2>2. \A q \in Request : q # r => at'[q] = at[q] /\ row'[q] = row[q]
    BY <1>3 DEF FindToken
  <2>3. at'[r] \in {"revoke", "failed"}
    BY <1>3 DEF FindToken
  <2>4. at'[r] = "revoke" => /\ row'[r] \in LiveRows(shown[r])
                             /\ \A q \in Request : at[q] = "revoke" /\ row[q] = row'[r] => raced'
    <3>1. LiveRows(shown[r]) = {} => at'[r] = "failed"
      BY <1>3 DEF FindToken
    <3>2. at'[r] = "revoke" => \E i \in LiveRows(shown[r]) :
             /\ row' = [row EXCEPT ![r] = i]
             /\ raced' = (raced \/ \E q \in Request : at[q] = "revoke" /\ row[q] = i)
      BY <1>3 DEF FindToken
    <3> QED BY <3>2
  <2>5. \A i \in 1 .. Len(rows) : Claimed(i)' => Claimed(i)
    BY <2>1, <2>2, <2>4 DEF Claimed, LiveRows
  <2>6. \A q \in Request : Heir(q)' => Heir(q) /\ row'[q] = row[q]
    BY <2>2, <2>3 DEF Heir
  <2>7. ASSUME ~raced', NEW p \in Request, NEW q \in Request,
               at'[p] = "revoke", at'[q] = "revoke", row'[p] = row'[q]
        PROVE  p = q
    <3>1. CASE p # r /\ q # r
      BY <2>1, <2>2, <2>7, <3>1 DEF Alone
    <3>2. CASE p = r /\ q # r
      BY <2>2, <2>4, <2>7, <3>2
    <3>3. CASE p # r /\ q = r
      BY <2>2, <2>4, <2>7, <3>3
    <3> QED BY <3>1, <3>2, <3>3
  <2> QED BY <2>1, <2>5, <2>6, <2>7, AloneIfFewer
<1>4. ASSUME NEW r \in Request, LogoutRevoke(r) PROVE Alone'
  <2>1. /\ row[r] \in 1 .. Len(rows) /\ rows' = Revoked(row[r]) /\ row' = row /\ raced' = raced
        /\ at' = [at EXCEPT ![r] = "done"]
    BY <1>4 DEF LogoutRevoke, Prepared, HasRow
  <2>2. /\ Len(rows') = Len(rows)
        /\ \A k \in 1 .. Len(rows) : /\ rows'[k].family = rows[k].family
                                     /\ rows[k].revoked => rows'[k].revoked
    BY <2>1, RevokedFacts
  <2>3. \A i \in 1 .. Len(rows) : Claimed(i)' => Claimed(i)
    BY <2>1, <2>2 DEF Claimed
  <2>4. \A q \in Request : Heir(q)' => Heir(q) /\ row[q] \in 1 .. Len(rows)
    BY <2>1 DEF Heir, Prepared, HasRow
  <2>5. ~raced => \A i, j \in 1 .. Len(rows') :
          Claimed(i)' /\ Claimed(j)' /\ rows'[i].family = rows'[j].family => i = j
    BY <2>2, <2>3 DEF Alone
  <2>6. ~raced => \A p, q \in Request :
          Heir(p)' /\ Heir(q)' /\ rows'[row'[p]].family = rows'[row'[q]].family => p = q
    BY <2>1, <2>2, <2>4 DEF Alone
  <2>7. ~raced => \A q \in Request, i \in 1 .. Len(rows') :
          Heir(q)' /\ Claimed(i)' => rows'[row'[q]].family # rows'[i].family
    BY <2>1, <2>2, <2>3, <2>4 DEF Alone
  <2>8. ~raced => \A p, q \in Request :
          at'[p] = "revoke" /\ at'[q] = "revoke" /\ row'[p] = row'[q] => p = q
    BY <2>1 DEF Alone
  <2> QED BY <2>1, <2>5, <2>6, <2>7, <2>8 DEF Alone
<1>5. CASE Tick \/ UNCHANGED vars
  <2>1. UNCHANGED <<rows, raced, at, row>>
    BY <1>5 DEF Tick, vars, reqVars
  <2> QED BY <2>1 DEF Alone, Claimed, Heir
<1> QED BY <1>2, <1>3, <1>4, <1>5, AloneAfterIssue, AloneAfterRevoke DEF Next, RequestStep

-----------------------------------------------------------------------------
\* The invariant holds in every reachable state.
LEMMA Invariance == Spec => []IInv
<1>1. IInv /\ [Next]_vars => IInv'
  BY TypeStep, OneAccountStep, LineageStep, PreparedStep, AloneStep, DeadStep DEF IInv
<1> QED BY <1>1, InitOK, PTL DEF Spec

\* The tables of users and refresh tokens keep their types.
THEOREM TypeCorrect == Spec => []TypeOK
<1>1. IInv => TypeOK
  BY DEF IInv
<1> QED BY <1>1, Invariance, PTL

\* Register and its check-then-insert give an e-mail address one account at most.
THEOREM OneAccount == Spec => []OneAccountPerEmail
<1>1. IInv => OneAccountPerEmail
  BY DEF IInv
<1> QED BY <1>1, Invariance, PTL

\* After a logout of a token that one row holds, no row holds it live: whatever number
\* of refreshes and logins race with it.
THEOREM LogoutHolds == Spec => []LogoutWhenUnique
<1>1. IInv => LogoutWhenUnique
  <2> SUFFICES ASSUME IInv, NEW t \in loggedOut,
                      Cardinality({i \in 1 .. Len(rows) : rows[i].token = t}) = 1,
                      NEW k \in LiveRows(t)
               PROVE  FALSE
    BY DEF LogoutWhenUnique
  <2> DEFINE S == {i \in 1 .. Len(rows) : rows[i].token = t}
  <2>1. IsFiniteSet(S)
    <3>1. IsFiniteSet(1 .. Len(rows))
      BY FS_Interval DEF IInv, TypeOK
    <3> QED BY <3>1, FS_Subset
  <2>2. PICK x : S = {x}
    BY <2>1, FS_Singleton
  <2>3. k \in S /\ ~rows[k].revoked
    BY DEF LiveRows
  <2> QED BY <2>2, <2>3 DEF IInv, DeadWhenUnique
<1> QED BY <1>1, Invariance, PTL

\* Of the tokens that descend from one login at most one is live or about to be issued,
\* as long as no two refreshes have held one row at a time.
THEOREM RotationHolds == Spec => []RotationWhenAlone
<1>1. IInv => RotationWhenAlone
  <2> SUFFICES ASSUME IInv, ~raced, NEW f \in 1 .. Len(rows)
               PROVE  Cardinality(Live(f)) + Cardinality(Heirs(f)) <= 1
    BY DEF RotationWhenAlone
  <2>1. \A i, j \in Live(f) : i = j
    BY DEF IInv, Alone, Live, Claimed
  <2>2. \A r, q \in Heirs(f) : r = q
    BY DEF IInv, Alone, Heirs, Heir
  <2>3. Live(f) = {} \/ Heirs(f) = {}
    BY DEF IInv, Alone, Live, Claimed, Heirs, Heir
  <2>4. ASSUME NEW S, \A x, y \in S : x = y PROVE Cardinality(S) \in {0, 1} /\ Cardinality({}) = 0
    <3>1. CASE S = {}
      BY <3>1, FS_EmptySet
    <3>2. CASE S # {}
      <4>1. PICK x \in S : TRUE
        BY <3>2
      <4>2. S = {x}
        BY <2>4, <4>1
      <4> QED BY <4>2, FS_EmptySet, FS_Singleton
    <3> QED BY <3>1, <3>2
  <2>5. Cardinality(Live(f)) \in {0, 1} /\ Cardinality(Heirs(f)) \in {0, 1}
    BY <2>1, <2>2, <2>4
  <2>6. CASE Live(f) = {}
    BY <2>5, <2>6, FS_EmptySet
  <2>7. CASE Heirs(f) = {}
    BY <2>5, <2>7, FS_EmptySet
  <2> QED BY <2>3, <2>6, <2>7
<1> QED BY <1>1, Invariance, PTL
-----------------------------------------------------------------------------
(* The rate limiter, which every request passes before anybody looks at its session *)

\* The requests let through were counted, unless Redis lost commands.
PassedAreCounted == ~crashed => passed <= count

LimiterInv == LimiterTypeOK /\ DeadlineComing /\ WithinLimit /\ PassedAreCounted

\* An INCR nobody listens to keeps the invariant: if it creates the key, it counts
\* as lost.
LEMMA UnheardKeeps ==
  ASSUME LimiterInv, Unheard, stage' \in [Hit -> {"out", "retry", "expire"}],
         adrift' \subseteq Hit, UNCHANGED <<deadline, passed, crashed>>,
         \A t \in Hit : stage[t] = "expire" => stage'[t] = "expire"
  PROVE  LimiterInv'
<1> USE RateLimitAssumption DEF LimiterInv, LimiterTypeOK, DeadlineComing, WithinLimit, PassedAreCounted
<1>1. count' \in 0 .. Max + 1 /\ count' >= count
  BY DEF Unheard, Min
<1>2. lost' \in BOOLEAN /\ (lost => lost') /\ (count = 0 => lost')
  <2>1. (lost \/ count = 0) \in BOOLEAN
    OBVIOUS
  <2> QED BY <2>1, Zenon DEF Unheard
<1>3. DeadlineComing'
  <2>1. CASE count = 0
    BY <1>2, <2>1
  <2>2. CASE count > 0
    BY <1>2, <2>2
  <2> QED BY <2>1, <2>2
<1> QED BY <1>1, <1>2, <1>3

\* Every step of the limiter keeps the invariant.
LEMMA LimiterKeeps ==
  ASSUME LimiterInv, [LimiterNext]_limiterVars
  PROVE  LimiterInv'
<1> USE RateLimitAssumption DEF LimiterInv, LimiterTypeOK, DeadlineComing, WithinLimit, PassedAreCounted
<1>1. ASSUME NEW t \in Hit, Incr(t) PROVE LimiterInv'
  <2>1. count + 1 \in Nat /\ passed + 1 \in Nat
    OBVIOUS
  <2>2. LimiterTypeOK'
    BY <1>1, <2>1 DEF Incr, Min, Exceeds
  <2>3. DeadlineComing'
    <3>1. CASE count = 0
      <4>1. stage'[t] = "expire"
        BY <1>1, <3>1 DEF Incr
      <4> QED BY <4>1
    <3>2. CASE count > 0
      BY <1>1, <3>2 DEF Incr
    <3> QED BY <3>1, <3>2
  <2>4. WithinLimit' /\ PassedAreCounted'
    BY <1>1, <2>1 DEF Incr, Min, Exceeds
  <2> QED BY <2>2, <2>3, <2>4
<1>2. ASSUME NEW t \in Hit, IncrUnanswered(t) PROVE LimiterInv'
  <2>1. /\ stage' \in [Hit -> {"out", "retry", "expire"}]
        /\ \A u \in Hit : stage[u] = "expire" => stage'[u] = "expire"
        /\ adrift' \subseteq Hit
        /\ UNCHANGED <<deadline, passed, crashed>>
    BY <1>2 DEF IncrUnanswered
  <2>2. CASE Unheard
    BY <2>1, <2>2, UnheardKeeps
  <2>3. CASE UNCHANGED <<count, lost>>
    BY <2>1, <2>3
  <2> QED BY <1>2, <2>2, <2>3 DEF IncrUnanswered
<1>3. ASSUME NEW t \in Hit, IncrArrives(t) PROVE LimiterInv'
  BY <1>3, UnheardKeeps DEF IncrArrives
<1>4. ASSUME NEW t \in Hit, AllowUncounted(t) PROVE LimiterInv'
  BY <1>4 DEF AllowUncounted
<1>5. ASSUME NEW t \in Hit, Expire(t) PROVE LimiterInv'
  <2>1. deadline' \in BOOLEAN /\ count' = count /\ lost' = FALSE
    BY <1>5 DEF Expire
  <2>2. LimiterTypeOK' /\ WithinLimit' /\ PassedAreCounted'
    BY <1>5, <2>1 DEF Expire
  <2>3. DeadlineComing'
    <3>1. count > 0 => deadline'
      BY <1>5 DEF Expire
    <3> QED BY <3>1, <2>1
  <2> QED BY <2>2, <2>3
<1>6. ASSUME NEW t \in Hit, LoseExpire(t) PROVE LimiterInv'
  <2>1. (lost \/ (count > 0 /\ ~deadline)) \in BOOLEAN
    OBVIOUS
  <2>2. lost' \in BOOLEAN /\ (count > 0 /\ ~deadline => lost')
    BY <1>6, <2>1, Zenon DEF LoseExpire
  <2>3. LimiterTypeOK' /\ WithinLimit' /\ PassedAreCounted'
    BY <1>6, <2>2 DEF LoseExpire
  <2>4. DeadlineComing'
    BY <1>6, <2>2 DEF LoseExpire
  <2> QED BY <2>3, <2>4
<1>7. CASE WindowEnds
  <2>1. count' = 0 /\ passed' = 0 /\ 0 \in 0 .. Max + 1 /\ 0 <= Max
    BY <1>7 DEF WindowEnds
  <2>2. ~(count' > 0)
    BY <2>1
  <2>3. LimiterTypeOK'
    BY <1>7, <2>1 DEF WindowEnds
  <2>4. DeadlineComing'
    BY <2>2
  <2>5. WithinLimit' /\ PassedAreCounted'
    BY <2>1
  <2> QED BY <2>3, <2>4, <2>5
<1>8. CASE RedisCrash
  <2>1. count' \in 0 .. count
    BY <1>8 DEF RedisCrash
  <2>2. count' \in 0 .. Max + 1
    BY <2>1
  <2>3. deadline' \in BOOLEAN /\ lost' \in BOOLEAN
    <3>1. (deadline /\ count' > 0) \in BOOLEAN
      OBVIOUS
    <3>2. (count' > 0 /\ (lost \/ (deadline /\ ~deadline'))) \in BOOLEAN
      OBVIOUS
    <3> QED BY <1>8, <3>1, <3>2, Zenon DEF RedisCrash
  <2>4. LimiterTypeOK' /\ WithinLimit' /\ PassedAreCounted'
    BY <1>8, <2>2, <2>3 DEF RedisCrash
  <2>5. DeadlineComing'
    <3> SUFFICES ASSUME count' > 0, ~deadline', ~lost'
                 PROVE \E t \in Hit : stage'[t] = "expire"
      OBVIOUS
    <3>1. ~lost /\ ~deadline
      BY <1>8, Zenon DEF RedisCrash
    <3>2. count > 0
      BY <2>1
    <3> QED BY <1>8, <3>1, <3>2 DEF RedisCrash
  <2> QED BY <2>4, <2>5
<1>9. CASE UNCHANGED limiterVars
  BY <1>9 DEF limiterVars
<1> QED BY <1>1, <1>2, <1>3, <1>4, <1>5, <1>6, <1>7, <1>8, <1>9 DEF LimiterNext

\* The limiter's invariant holds in every reachable state.
LEMMA LimiterInvariance == LimiterSpec => []LimiterInv
<1>1. LimiterInit => LimiterInv
  <2>1. 0 \in 0 .. Max + 1 /\ 0 <= Max /\ ~(0 > 0)
    BY RateLimitAssumption
  <2> SUFFICES ASSUME LimiterInit PROVE LimiterInv
    OBVIOUS
  <2>2. LimiterTypeOK
    BY <2>1 DEF LimiterInit, LimiterTypeOK
  <2>3. DeadlineComing
    BY <2>1 DEF LimiterInit, DeadlineComing
  <2>4. WithinLimit /\ PassedAreCounted
    BY <2>1 DEF LimiterInit, WithinLimit, PassedAreCounted
  <2> QED BY <2>2, <2>3, <2>4 DEF LimiterInv
<1>2. LimiterInv /\ [LimiterNext]_limiterVars => LimiterInv'
  BY LimiterKeeps
<1> QED BY <1>1, <1>2, PTL DEF LimiterSpec

\* The variables of the rate limiter keep their types for every limit.
THEOREM LimiterTypeCorrect == LimiterSpec => []LimiterTypeOK
<1>1. LimiterInv => LimiterTypeOK
  BY DEF LimiterInv
<1> QED BY <1>1, LimiterInvariance, PTL

\* The key of a client never counts without a deadline that is set or about to be
\* set, unless its EXPIRE was lost or the INCR that created it was answered to
\* nobody: for any limit and any number of racing requests of the middleware.
THEOREM DeadlinesCome == LimiterSpec => []DeadlineComing
<1>1. LimiterInv => DeadlineComing
  BY DEF LimiterInv
<1> QED BY <1>1, LimiterInvariance, PTL

\* In a window in which Redis forgets nothing its answers let no more than Max
\* requests of the middleware through.
THEOREM LimitKept == LimiterSpec => []WithinLimit
<1>1. LimiterInv => WithinLimit
  BY DEF LimiterInv
<1> QED BY <1>1, LimiterInvariance, PTL
=============================================================================
