--------------------------- MODULE BuildingProofs ---------------------------
(***************************************************************************)
(* What holds of a building for any number of people, invitations, calls,  *)
(* rows and amounts.                                                       *)
(*   Membership: a building never has two managers, every member has a     *)
(* title, an accepted invitation has done its work, and no manager removes *)
(* himself.                                                                *)
(*   Services: only managers open requests, a stamp tells an ending, no    *)
(* resident sees a pending request of another, and no difference that is   *)
(* reported is negative without one of two reasons.                        *)
(***************************************************************************)
EXTENDS Membership, Services, FiniteSetTheorems, FunctionTheorems, TLAPS

\* The requests that act on terms, and those among them that carry an invitation.
Acting   == {"seat", "check", "insert", "remove", "lookup", "signup", "join", "mark"}
Invited  == {"lookup", "signup", "join", "mark"}

\* What a request has established before its next statement.
Prepared ==
  \A r \in Request :
    /\ at[r] \in Acting => terms[r] \in Offer
    /\ at[r] = "seat" => /\ terms[r].role = "building_manager"
                         /\ terms[r].email = founder[terms[r].building]
                         /\ terms[r].email \in account
    /\ at[r] \in Invited => via[r] \in Invitation /\ offer[via[r]] = terms[r]
    /\ at[r] \in {"join", "mark"} => terms[r].email \in account
    /\ at[r] = "mark" => via[r] \in joined
    /\ at[r] = "remove" => actor[r] # terms[r].email

\* A building has a founder from its creation only, and one for good.
Founded == \A b \in Building : b \notin exists => founder[b] = None

\* SingleManager without counting.
AtMostOne == \A b \in Building : \A u, v \in Managers(b) : u = v

IInv == TypeOK /\ Prepared /\ Founded /\ AtMostOne /\ MembersHaveTitle /\ AcceptedMeansJoined

\* What a request carries into AddMember is one offer, and none of them is None.
LEMMA OfferFields ==
  ASSUME NEW t \in Offer
  PROVE  /\ t.building \in Building /\ t.email \in User /\ t.role \in Role
         /\ t = Terms(t.building, t.email, t.role)
         /\ t # None
  BY MembershipAssumption DEF Offer, Terms

\* The upsert changes one role and makes nobody a second manager.
LEMMA AddMemberKeepsOne ==
  ASSUME TypeOK, AtMostOne, NEW t \in Offer, MayAddMember(t), AddMember(t)
  PROVE  /\ role' \in [Building -> [User -> Role \cup {None}]]
         /\ \A b \in Building, u \in User :
              role'[b][u] = IF b = t.building /\ u = t.email THEN t.role ELSE role[b][u]
         /\ AtMostOne'
<1>1. t.building \in Building /\ t.email \in User /\ t.role \in Role
  BY OfferFields
<1>2. role' \in [Building -> [User -> Role \cup {None}]]
  BY <1>1 DEF AddMember, TypeOK
<1>3. \A b \in Building, u \in User :
        role'[b][u] = IF b = t.building /\ u = t.email THEN t.role ELSE role[b][u]
  BY <1>1 DEF AddMember, TypeOK
<1>4. ASSUME NEW b \in Building, NEW u \in Managers(b)', NEW v \in Managers(b)'
      PROVE  u = v
  <2>1. u \in User /\ v \in User /\ role'[b][u] = "building_manager" /\ role'[b][v] = "building_manager"
    BY <1>4 DEF Managers
  <2>2. CASE b = t.building /\ t.role = "building_manager"
    <3>1. Managers(b) \subseteq {t.email}
      BY <2>2 DEF MayAddMember
    <3> QED BY <1>3, <2>1, <2>2, <3>1 DEF Managers
  <2>3. CASE ~(b = t.building /\ t.role = "building_manager")
    <3>1. u \in Managers(b) /\ v \in Managers(b)
      BY <1>3, <2>1, <2>3 DEF Managers
    <3> QED BY <3>1 DEF AtMostOne
  <2> QED BY <2>2, <2>3
<1> QED BY <1>2, <1>3, <1>4 DEF AtMostOne

\* The invariant holds initially.
LEMMA InitOK == Init => IInv
<1> SUFFICES ASSUME Init PROVE IInv
  OBVIOUS
<1>1. TypeOK
  BY DEF Init, TypeOK, Steps
<1>2. Prepared
  BY DEF Init, Prepared, Acting, Invited
<1>3. Founded /\ AcceptedMeansJoined
  BY DEF Init, Founded, AcceptedMeansJoined
<1>4. \A b \in Building, u \in User : role[b][u] = None
  BY DEF Init
<1>5. None # "building_manager"
  BY MembershipAssumption DEF Role, Managing
<1>6. AtMostOne
  BY <1>4, <1>5 DEF AtMostOne, Managers
<1>7. MembersHaveTitle
  BY <1>4 DEF MembersHaveTitle
<1> QED BY <1>1, <1>2, <1>3, <1>6, <1>7 DEF IInv

\* Every step keeps the types.
LEMMA TypeStep == TypeOK /\ Prepared /\ AtMostOne /\ [Next]_vars => TypeOK'
<1> SUFFICES ASSUME TypeOK, Prepared, AtMostOne, [Next]_vars PROVE TypeOK'
  OBVIOUS
<1> USE DEF TypeOK, Steps, Goto
<1>1. ASSUME NEW r \in Request, NEW u \in User, NEW b \in Building, CreateBuilding(r, u, b)
      PROVE  TypeOK'
  <2>1. Terms(b, u, "building_manager") \in Offer
    BY DEF Terms, Offer, Role, Managing
  <2> QED BY <1>1, <2>1 DEF CreateBuilding
<1>2. ASSUME NEW r \in Request, SeatFounder(r) PROVE TypeOK'
  <2>1. terms[r] \in Offer
    BY <1>2 DEF SeatFounder, Prepared, Acting
  <2>2. role' \in [Building -> [User -> Role \cup {None}]]
    BY <1>2, <2>1, AddMemberKeepsOne DEF SeatFounder
  <2> QED BY <1>2, <2>2 DEF SeatFounder
<1>3. ASSUME NEW r \in Request, NEW u \in User, NEW t \in Offer, Invite(r, u, t) PROVE TypeOK'
  BY <1>3 DEF Invite
<1>4. ASSUME NEW r \in Request, CheckManager(r) PROVE TypeOK'
  BY <1>4 DEF CheckManager
<1>5. ASSUME NEW r \in Request, NEW i \in Invitation, InsertInvitation(r, i) PROVE TypeOK'
  <2>1. terms[r] \in Offer
    BY <1>5 DEF InsertInvitation, Prepared, Acting
  <2> QED BY <1>5, <2>1 DEF InsertInvitation
<1>6. ASSUME NEW r \in Request, NEW i \in Invitation, Accept(r, i) PROVE TypeOK'
  BY <1>6 DEF Accept
<1>7. ASSUME NEW r \in Request, LookupUser(r) PROVE TypeOK'
  BY <1>7 DEF LookupUser
<1>8. ASSUME NEW r \in Request, SignUp(r) PROVE TypeOK'
  <2>1. terms[r].email \in User
    BY <1>8, OfferFields DEF SignUp, Prepared, Acting
  <2> QED BY <1>8, <2>1 DEF SignUp
<1>9. ASSUME NEW r \in Request, Join(r) PROVE TypeOK'
  <2>1. terms[r] \in Offer /\ via[r] \in Invitation
    BY <1>9 DEF Join, Prepared, Acting, Invited
  <2>2. role' \in [Building -> [User -> Role \cup {None}]]
    BY <1>9, <2>1, AddMemberKeepsOne DEF Join
  <2>3. joined' \subseteq Invitation /\ at' \in [Request -> Steps]
    BY <1>9, <2>1 DEF Join
  <2> QED BY <1>9, <2>2, <2>3 DEF Join
<1>10. ASSUME NEW r \in Request, MarkAccepted(r) PROVE TypeOK'
  <2>1. via[r] \in Invitation
    BY <1>10 DEF MarkAccepted, Prepared, Invited
  <2> QED BY <1>10, <2>1 DEF MarkAccepted
<1>11. ASSUME NEW r \in Request, NEW u \in User, NEW v \in User, NEW b \in Building,
              AskRemove(r, u, b, v)
       PROVE  TypeOK'
  <2>1. Terms(b, v, "resident") \in Offer
    BY DEF Terms, Offer, Role
  <2> QED BY <1>11, <2>1 DEF AskRemove
<1>12. ASSUME NEW r \in Request, RemoveMember(r) PROVE TypeOK'
  <2>1. terms[r].building \in Building /\ terms[r].email \in User
    BY <1>12, OfferFields DEF RemoveMember, Prepared, Acting
  <2> QED BY <1>12, <2>1 DEF RemoveMember
<1>13. ASSUME NEW r \in Request, Fail(r) PROVE TypeOK'
  BY <1>13 DEF Fail
<1>14. ASSUME NEW u \in User, Register(u) PROVE TypeOK'
  BY <1>14 DEF Register
<1>15. ASSUME NEW i \in Invitation, Expire(i) PROVE TypeOK'
  BY <1>15 DEF Expire
<1>16. CASE UNCHANGED vars
  BY <1>16 DEF vars
<1> QED
  BY <1>1, <1>2, <1>3, <1>4, <1>5, <1>6, <1>7, <1>8, <1>9, <1>10, <1>11, <1>12, <1>13, <1>14,
     <1>15, <1>16 DEF Next, RequestStep

\* Every step keeps what open requests have established.
LEMMA PreparedStep == TypeOK /\ Prepared /\ Founded /\ [Next]_vars => Prepared'
<1> SUFFICES ASSUME TypeOK, Prepared, Founded, [Next]_vars PROVE Prepared'
  OBVIOUS
<1> USE DEF TypeOK, Prepared, Goto, Acting, Invited
<1>1. ASSUME NEW r \in Request, NEW u \in User, NEW b \in Building, CreateBuilding(r, u, b)
      PROVE  Prepared'
  <2>1. Terms(b, u, "building_manager") \in Offer
    BY DEF Terms, Offer, Role, Managing
  <2>2. ASSUME NEW q \in Request, at[q] = "seat" PROVE terms[q].building # b
    <3>1. terms[q].email \in User /\ founder[terms[q].building] = terms[q].email
      BY <2>2, OfferFields
    <3>2. founder[b] = None
      BY <1>1 DEF CreateBuilding, Founded
    <3> QED BY <3>1, <3>2, MembershipAssumption
  <2> QED BY <1>1, <2>1, <2>2 DEF CreateBuilding, Terms
<1>2. ASSUME NEW r \in Request, SeatFounder(r) PROVE Prepared'
  BY <1>2 DEF SeatFounder
<1>3. ASSUME NEW r \in Request, NEW u \in User, NEW t \in Offer, Invite(r, u, t) PROVE Prepared'
  BY <1>3 DEF Invite
<1>4. ASSUME NEW r \in Request, CheckManager(r) PROVE Prepared'
  BY <1>4 DEF CheckManager
<1>5. ASSUME NEW r \in Request, NEW i \in Invitation, InsertInvitation(r, i) PROVE Prepared'
  <2>1. \A q \in Request : at[q] \in Invited => offer[via[q]] # None
    BY OfferFields
  <2>2. \A q \in Request : at[q] \in Invited => offer'[via[q]] = offer[via[q]]
    BY <1>5, <2>1 DEF InsertInvitation
  <2> QED BY <1>5, <2>2 DEF InsertInvitation
<1>6. ASSUME NEW r \in Request, NEW i \in Invitation, Accept(r, i) PROVE Prepared'
  BY <1>6 DEF Accept
<1>7. ASSUME NEW r \in Request, LookupUser(r) PROVE Prepared'
  BY <1>7 DEF LookupUser
<1>8. ASSUME NEW r \in Request, SignUp(r) PROVE Prepared'
  BY <1>8 DEF SignUp
<1>9. ASSUME NEW r \in Request, Join(r) PROVE Prepared'
  BY <1>9 DEF Join
<1>10. ASSUME NEW r \in Request, MarkAccepted(r) PROVE Prepared'
  BY <1>10 DEF MarkAccepted
<1>11. ASSUME NEW r \in Request, NEW u \in User, NEW v \in User, NEW b \in Building,
              AskRemove(r, u, b, v)
       PROVE  Prepared'
  <2>1. Terms(b, v, "resident") \in Offer
    BY DEF Terms, Offer, Role
  <2> QED BY <1>11, <2>1 DEF AskRemove, Terms
<1>12. ASSUME NEW r \in Request, RemoveMember(r) PROVE Prepared'
  BY <1>12 DEF RemoveMember
<1>13. ASSUME NEW r \in Request, Fail(r) PROVE Prepared'
  BY <1>13 DEF Fail
<1>14. ASSUME NEW u \in User, Register(u) PROVE Prepared'
  BY <1>14 DEF Register
<1>15. ASSUME NEW i \in Invitation, Expire(i) PROVE Prepared'
  BY <1>15 DEF Expire
<1>16. CASE UNCHANGED vars
  BY <1>16 DEF vars
<1> QED
  BY <1>1, <1>2, <1>3, <1>4, <1>5, <1>6, <1>7, <1>8, <1>9, <1>10, <1>11, <1>12, <1>13, <1>14,
     <1>15, <1>16 DEF Next, RequestStep

\* Accounts, buildings and completed joins only accumulate; a founder or an offer, once
\* there, stays; an invitation is accepted by whoever is about to mark it.
LEMMA Monotone ==
  ASSUME TypeOK, Prepared, Founded, [Next]_vars
  PROVE  /\ account \subseteq account' /\ exists \subseteq exists' /\ joined \subseteq joined'
         /\ \A b \in Building : founder[b] # None => founder'[b] = founder[b]
         /\ \A b \in Building : b \notin exists' => founder'[b] = founder[b]
         /\ \A i \in Invitation : offer[i] # None => offer'[i] = offer[i]
         /\ \A i \in accepted' : i \in accepted \/ \E r \in Request : at[r] = "mark" /\ i = via[r]
<1> USE DEF TypeOK
<1>1. ASSUME NEW r \in Request, NEW u \in User, NEW b \in Building, CreateBuilding(r, u, b)
      PROVE  /\ exists \subseteq exists'
             /\ \A c \in Building : founder[c] # None => founder'[c] = founder[c]
             /\ \A c \in Building : c \notin exists' => founder'[c] = founder[c]
             /\ UNCHANGED <<account, joined, offer, accepted>>
  BY <1>1 DEF CreateBuilding, Founded
<1>2. ASSUME NEW r \in Request, NEW i \in Invitation, InsertInvitation(r, i)
      PROVE  /\ \A j \in Invitation : offer[j] # None => offer'[j] = offer[j]
             /\ UNCHANGED <<account, exists, founder, joined, accepted>>
  BY <1>2 DEF InsertInvitation
<1>3. ASSUME NEW r \in Request, RequestStep(r),
             ~\E u \in User, b \in Building : CreateBuilding(r, u, b),
             ~\E i \in Invitation : InsertInvitation(r, i)
      PROVE  /\ account \subseteq account' /\ joined \subseteq joined'
             /\ UNCHANGED <<exists, founder, offer>>
             /\ \A i \in accepted' : i \in accepted \/ (at[r] = "mark" /\ i = via[r])
  BY <1>3 DEF RequestStep, SeatFounder, Invite, CheckManager, Accept, LookupUser, SignUp, Join,
              MarkAccepted, AskRemove, RemoveMember, Fail
<1>4. ASSUME NEW u \in User, Register(u)
      PROVE  account \subseteq account' /\ UNCHANGED <<exists, founder, joined, offer, accepted>>
  BY <1>4 DEF Register
<1>5. ASSUME NEW i \in Invitation, Expire(i)
      PROVE  UNCHANGED <<account, exists, founder, joined, offer, accepted>>
  BY <1>5 DEF Expire
<1>6. CASE UNCHANGED vars
  BY <1>6 DEF vars
<1> QED BY <1>1, <1>2, <1>3, <1>4, <1>5, <1>6 DEF Next

\* How a role changes: nobody's, or that of one person in one building - by AddMember
\* with the terms of a founder or of an acceptance, or to none by a removal.
LEMMA RoleChange ==
  ASSUME TypeOK, Prepared, AtMostOne, [Next]_vars
  PROVE  \/ UNCHANGED role
         \/ \E r \in Request :
              /\ at[r] \in {"seat", "join"} /\ MayAddMember(terms[r]) /\ AddMember(terms[r])
              /\ at[r] = "join" => via[r] \in joined'
         \/ \E r \in Request :
              /\ at[r] = "remove"
              /\ role' = [role EXCEPT ![terms[r].building][terms[r].email] = None]
<1>1. ASSUME NEW r \in Request, RequestStep(r), ~SeatFounder(r), ~Join(r), ~RemoveMember(r)
      PROVE  UNCHANGED role
  BY <1>1 DEF RequestStep, CreateBuilding, Invite, CheckManager, InsertInvitation, Accept,
              LookupUser, SignUp, MarkAccepted, AskRemove, Fail
<1>2. ASSUME NEW r \in Request, SeatFounder(r)
      PROVE  UNCHANGED role \/ (at[r] = "seat" /\ MayAddMember(terms[r]) /\ AddMember(terms[r]))
  BY <1>2 DEF SeatFounder
<1>3. ASSUME NEW r \in Request, Join(r)
      PROVE  \/ UNCHANGED role
             \/ at[r] = "join" /\ MayAddMember(terms[r]) /\ AddMember(terms[r]) /\ via[r] \in joined'
  BY <1>3 DEF Join
<1>4. ASSUME NEW r \in Request, RemoveMember(r)
      PROVE  at[r] = "remove" /\ role' = [role EXCEPT ![terms[r].building][terms[r].email] = None]
  BY <1>4 DEF RemoveMember
<1>5. ASSUME NEW u \in User, Register(u) PROVE UNCHANGED role
  BY <1>5 DEF Register
<1>6. ASSUME NEW i \in Invitation, Expire(i) PROVE UNCHANGED role
  BY <1>6 DEF Expire
<1>7. CASE UNCHANGED vars
  BY <1>7 DEF vars
<1> QED BY <1>1, <1>2, <1>3, <1>4, <1>5, <1>6, <1>7 DEF Next

\* Every step keeps the invariant.
LEMMA StepKeeps == IInv /\ [Next]_vars => IInv'
<1> SUFFICES ASSUME IInv, [Next]_vars PROVE IInv'
  OBVIOUS
<1> USE DEF IInv
<1>1. TypeOK'
  BY TypeStep
<1>2. Prepared'
  BY PreparedStep
<1>3. Founded'
  BY Monotone DEF Founded
<1>4. AcceptedMeansJoined'
  <2> SUFFICES ASSUME NEW i \in accepted'
               PROVE  i \in joined' /\ offer'[i] # None /\ offer'[i].email \in account'
    BY DEF AcceptedMeansJoined
  <2>1. i \in Invitation
    BY <1>1 DEF TypeOK
  <2>2. i \in joined /\ offer[i] # None /\ offer[i].email \in account
    <3>1. CASE i \in accepted
      BY <3>1 DEF AcceptedMeansJoined
    <3>2. CASE i \notin accepted
      <4>1. PICK r \in Request : at[r] = "mark" /\ i = via[r]
        BY <3>2, Monotone
      <4> QED BY <4>1, OfferFields DEF Prepared, Acting, Invited
    <3> QED BY <3>1, <3>2
  <2> QED BY <2>1, <2>2, Monotone
<1>5. AtMostOne' /\ MembersHaveTitle'
  <2> DEFINE Title(b, u) ==
        /\ u \in account'
        /\ \/ u = founder'[b] /\ role'[b][u] = "building_manager"
           \/ \E i \in joined' : offer'[i] = Terms(b, u, role'[b][u])
  <2>1. ASSUME NEW b \in Building, NEW u \in User, role[b][u] # None, role'[b][u] = role[b][u]
        PROVE  Title(b, u)
    <3>1. u \in account'
      BY <2>1, Monotone DEF MembersHaveTitle
    <3>2. CASE u = founder[b] /\ role[b][u] = "building_manager"
      <4>1. founder[b] # None
        BY <3>2, MembershipAssumption
      <4> QED BY <2>1, <3>1, <3>2, <4>1, Monotone
    <3>3. ASSUME NEW i \in joined, offer[i] = Terms(b, u, role[b][u])
          PROVE  Title(b, u)
      <4>1. role[b][u] \in Role /\ Terms(b, u, role[b][u]) \in Offer
        BY <2>1 DEF TypeOK, Terms, Offer
      <4>2. offer[i] # None /\ i \in Invitation
        BY <3>3, <4>1, OfferFields DEF TypeOK
      <4> QED BY <2>1, <3>1, <3>3, <4>2, Monotone
    <3> QED BY <2>1, <3>2, <3>3 DEF MembersHaveTitle
  <2>2. CASE UNCHANGED role
    <3>1. AtMostOne'
      BY <2>2 DEF AtMostOne, Managers
    <3>2. ASSUME NEW b \in Building, NEW u \in User, role'[b][u] # None PROVE Title(b, u)
      BY <2>1, <2>2, <3>2
    <3> QED BY <3>1, <3>2 DEF MembersHaveTitle
  <2>3. ASSUME NEW r \in Request, at[r] \in {"seat", "join"}, MayAddMember(terms[r]),
               AddMember(terms[r]), at[r] = "join" => via[r] \in joined'
        PROVE  AtMostOne' /\ MembersHaveTitle'
    <3>1. terms[r] \in Offer /\ terms[r].email \in account
      BY <2>3 DEF Prepared, Acting
    <3>2. /\ AtMostOne'
          /\ \A b \in Building, u \in User :
               role'[b][u] = IF b = terms[r].building /\ u = terms[r].email
                             THEN terms[r].role ELSE role[b][u]
      BY <2>3, <3>1, AddMemberKeepsOne
    <3>3. ASSUME NEW b \in Building, NEW u \in User, role'[b][u] # None,
                 b = terms[r].building, u = terms[r].email
          PROVE  Title(b, u)
      <4>1. u \in account' /\ role'[b][u] = terms[r].role
        BY <3>1, <3>2, <3>3, Monotone
      <4>2. CASE at[r] = "seat"
        <5>1. founder[b] = u /\ founder[b] # None /\ terms[r].role = "building_manager"
          BY <3>3, <4>2, MembershipAssumption DEF Prepared
        <5> QED BY <4>1, <5>1, Monotone
      <4>3. CASE at[r] = "join"
        <5>1. via[r] \in Invitation /\ offer[via[r]] = terms[r] /\ terms[r] # None
          BY <3>1, <4>3, OfferFields DEF Prepared, Invited
        <5>2. offer'[via[r]] = Terms(b, u, terms[r].role)
          BY <3>1, <3>3, <5>1, OfferFields, Monotone
        <5> QED BY <2>3, <4>1, <4>3, <5>2
      <4> QED BY <2>3, <4>2, <4>3
    <3>4. ASSUME NEW b \in Building, NEW u \in User, role'[b][u] # None PROVE Title(b, u)
      BY <2>1, <3>2, <3>3, <3>4
    <3> QED BY <3>2, <3>4 DEF MembersHaveTitle
  <2>4. ASSUME NEW r \in Request, at[r] = "remove",
               role' = [role EXCEPT ![terms[r].building][terms[r].email] = None]
        PROVE  AtMostOne' /\ MembersHaveTitle'
    <3>1. terms[r].building \in Building /\ terms[r].email \in User
      BY <2>4, OfferFields DEF Prepared, Acting
    <3>2. \A b \in Building, u \in User : role'[b][u] \in {None, role[b][u]}
      BY <2>4, <3>1 DEF TypeOK
    <3>3. None # "building_manager"
      BY MembershipAssumption DEF Role, Managing
    <3>4. AtMostOne'
      BY <3>2, <3>3 DEF AtMostOne, Managers
    <3>5. ASSUME NEW b \in Building, NEW u \in User, role'[b][u] # None PROVE Title(b, u)
      BY <2>1, <3>2, <3>5
    <3> QED BY <3>4, <3>5 DEF MembersHaveTitle
  <2> QED BY <2>2, <2>3, <2>4, RoleChange
<1> QED BY <1>1, <1>2, <1>3, <1>4, <1>5

\* The invariant holds in every reachable state.
LEMMA Invariance == Spec => []IInv
  BY InitOK, StepKeeps, PTL DEF Spec

\* The tables of buildings, members and invitations keep their types.
THEOREM TypeCorrect == Spec => []TypeOK
<1>1. IInv => TypeOK
  BY DEF IInv
<1> QED BY <1>1, Invariance, PTL

\* A building never has two managers: for any number of invitations and of requests
\* of InviteUser and AcceptInvitation, in any order.
THEOREM OneManager == Spec => []SingleManager
<1>1. IInv => SingleManager
  <2> SUFFICES ASSUME IInv, NEW b \in Building PROVE Cardinality(Managers(b)) <= 1
    BY DEF SingleManager
  <2>1. CASE Managers(b) = {}
    BY <2>1, FS_EmptySet
  <2>2. CASE Managers(b) # {}
    <3>1. \E u : Managers(b) = {u}
      BY <2>2 DEF IInv, AtMostOne
    <3> QED BY <3>1, FS_Singleton
  <2> QED BY <2>1, <2>2
<1> QED BY <1>1, Invariance, PTL

\* Nobody is a member without an account and a title to the very role held, whatever
\* Create, AcceptInvitation and RemoveMember do at the same time.
THEOREM TitleHeld == Spec => []MembersHaveTitle
<1>1. IInv => MembersHaveTitle
  BY DEF IInv
<1> QED BY <1>1, Invariance, PTL

\* AcceptInvitation marks no invitation before its invitee has an account and has been
\* added to the building.
THEOREM AcceptedHasJoined == Spec => []AcceptedMeansJoined
<1>1. IInv => AcceptedMeansJoined
  BY DEF IInv
<1> QED BY <1>1, Invariance, PTL

\* A manager loses the role only by accepting an invitation or by another's RemoveMember.
THEOREM OfficeKeeps == Spec => OfficeKept
<1>1. ASSUME IInv, [Next]_vars, NEW b \in Building, NEW u \in User,
             role[b][u] = "building_manager", role'[b][u] # "building_manager"
      PROVE  \E r \in Request : \/ at[r] = "join" /\ terms[r].email = u /\ offer[via[r]].building = b
                                \/ at[r] = "remove" /\ actor[r] # u
  <2> TypeOK /\ Prepared /\ AtMostOne
    BY <1>1 DEF IInv
  <2>1. ASSUME NEW r \in Request, at[r] \in {"seat", "join"}, MayAddMember(terms[r]),
               AddMember(terms[r])
        PROVE  at[r] = "join" /\ terms[r].email = u /\ offer[via[r]].building = b
    <3>1. terms[r] \in Offer
      BY <2>1 DEF Prepared, Acting
    <3>2. role'[b][u] = IF b = terms[r].building /\ u = terms[r].email
                        THEN terms[r].role ELSE role[b][u]
      BY <2>1, <3>1, AddMemberKeepsOne
    <3>3. b = terms[r].building /\ u = terms[r].email /\ terms[r].role # "building_manager"
      BY <1>1, <3>2
    <3> QED BY <2>1, <3>3 DEF Prepared, Invited
  <2>2. ASSUME NEW r \in Request, at[r] = "remove",
               role' = [role EXCEPT ![terms[r].building][terms[r].email] = None]
        PROVE  actor[r] # u
    <3>1. terms[r].building \in Building /\ terms[r].email \in User
      BY <2>2, OfferFields DEF Prepared, Acting
    <3>2. u = terms[r].email
      BY <1>1, <2>2, <3>1 DEF TypeOK
    <3> QED BY <2>2, <3>2 DEF Prepared
  <2>3. ~UNCHANGED role
    BY <1>1
  <2> QED BY <1>1, <2>1, <2>2, <2>3, RoleChange
<1>2. IInv /\ [Next]_vars =>
        [\A b \in Building, u \in User :
           role[b][u] = "building_manager" /\ role'[b][u] # "building_manager" =>
             \E r \in Request :
               \/ at[r] = "join" /\ terms[r].email = u /\ offer[via[r]].building = b
               \/ at[r] = "remove" /\ actor[r] # u]_vars
  BY <1>1
<1> QED BY <1>2, Invariance, PTL DEF Spec, OfficeKept
-----------------------------------------------------------------------------
(* The desk of a building, next to its ledger and its dashboard *)

\* The shapes of what a desk call reads and writes.
DeskShape ==
  /\ everManager \subseteq User /\ manager \subseteq everManager
  /\ stage = [t \in Call |-> stage[t]] /\ kind = [t \in Call |-> kind[t]]
  /\ user = [t \in Call |-> user[t]]
  /\ status = [i \in Item |-> status[i]] /\ stamp \in [Item -> BOOLEAN]
  /\ author = [k \in Ticket |-> author[k]] /\ setter = [k \in Ticket |-> setter[k]]
  /\ row = [t \in Call |-> row[t]] /\ new = [t \in Call |-> new[t]]
  /\ shown = [t \in Call |-> shown[t]]

\* What a call has established before its next statement: who makes it, and that the
\* role that managerOnly read, in this building or another, or that it chose by, in this
\* one, was a managing one.
Granted(t) ==
  /\ t \in away => stage[t] # "idle" /\ kind[t] \in {"manage", "decide"}
  /\ stage[t] \in {"role", "insert", "count", "rows", "check", "update", "act"} => user[t] \in User
  /\ stage[t] \in {"check", "update", "act"} => user[t] \in everManager \cup Elsewhere
  /\ stage[t] \in {"insert", "count", "rows"} => /\ kind[t] # "decide"
                                                 /\ new[t] \in {"open", "pending_approval"}
                                                 /\ new[t] = "open" => user[t] \in everManager
  /\ stage[t] \in {"check", "update"} => kind[t] = "decide"
  /\ kind[t] = "decide" => row[t] \in Ticket /\ new[t] \in {"open", "closed"}

\* A decision on grounds that are not stale decides on a request that is pending.
Fresh(t) == stage[t] = "update" /\ t \notin stale => status[row[t]] = "pending_approval"

\* Only an answered call has shown anything, and of what there is.
Answered(t) ==
  /\ stage[t] # "done" => shown[t] = {}
  /\ shown[t] \subseteq {k \in Ticket : status[k] # None}

\* A row that has not been inserted has no stamp.
Blank == \A i \in Item : status[i] = None => ~stamp[i]

\* The desk's invariant: the properties, and what keeps them.
DeskInv ==
  /\ DeskShape /\ Blank
  /\ \A t \in Call : Granted(t) /\ Fresh(t) /\ Answered(t)
  /\ OpenedByManager /\ StampsTell /\ NoPeeking

\* What a step of a call that goes on does to the calls.
LEMMA Moved ==
  ASSUME DeskShape, NEW t \in Call, NEW step, Move(t, step)
  PROVE  /\ stage' = [s \in Call |-> stage'[s]] /\ stage'[t] = step
         /\ \A s \in Call \ {t} : stage'[s] = stage[s]
         /\ UNCHANGED <<manager, everManager, kind, user, away, stale>>
  BY DEF DeskShape, Move, Reach, roles

\* The same for a call that ends with a write.
LEMMA Written ==
  ASSUME DeskShape, NEW t \in Call, NEW readers, Wrote(t, readers)
  PROVE  /\ stage' = [s \in Call |-> stage'[s]] /\ stage'[t] = "done"
         /\ kind' = [s \in Call |-> kind'[s]] /\ user' = [s \in Call |-> user'[s]]
         /\ kind'[t] = None /\ user'[t] = None
         /\ \A s \in Call \ {t} : stage'[s] = stage[s] /\ kind'[s] = kind[s] /\ user'[s] = user[s]
         /\ stale \subseteq stale' /\ \A s \in readers \ {t} : Open(s) => s \in stale'
         /\ UNCHANGED <<manager, everManager>> /\ away' = away \ {t}
  BY DEF DeskShape, Wrote, End, Reach, roles

\* The same for a call that begins.
LEMMA Began ==
  ASSUME DeskShape, NEW t \in Call, NEW u, NEW k, NEW step, Begin(t, u, k, step)
  PROVE  /\ stage[t] = "idle"
         /\ stage' = [s \in Call |-> stage'[s]] /\ stage'[t] = step
         /\ kind' = [s \in Call |-> kind'[s]] /\ user' = [s \in Call |-> user'[s]]
         /\ kind'[t] = k /\ user'[t] = u
         /\ \A s \in Call \ {t} : stage'[s] = stage[s] /\ kind'[s] = kind[s] /\ user'[s] = user[s]
         /\ away' \subseteq away \cup {t}
         /\ t \in away' => t \in away \/ k \in {"manage", "decide"}
         /\ UNCHANGED <<manager, everManager, stale>>
  BY DEF DeskShape, Begin, Reach, roles

\* A step that writes no row of the desk, by a call that has shown nothing, leaves the
\* invariant to what the call itself is about to do.
LEMMA QuietKeeps ==
  ASSUME DeskInv, NEW t \in Call, stage[t] # "done",
         stage' = [s \in Call |-> stage'[s]], kind' = [s \in Call |-> kind'[s]],
         user' = [s \in Call |-> user'[s]],
         row' = [s \in Call |-> row'[s]], new' = [s \in Call |-> new'[s]],
         \A s \in Call \ {t} : /\ stage'[s] = stage[s] /\ kind'[s] = kind[s] /\ user'[s] = user[s]
                               /\ row'[s] = row[s] /\ new'[s] = new[s],
         stale \subseteq stale', away' \subseteq away \cup {t},
         UNCHANGED <<manager, everManager, status, stamp, author, setter, reopened, shown>>,
         Granted(t)', Fresh(t)'
  PROVE  DeskInv'
<1>1. DeskShape'
  BY DEF DeskInv, DeskShape
<1>2. ASSUME NEW s \in Call PROVE Granted(s)' /\ Fresh(s)'
  <2>1. CASE s = t
    BY <2>1
  <2>2. CASE s # t
    BY <2>2 DEF DeskInv, Granted, Fresh
  <2> QED
    BY <2>1, <2>2
<1>3. shown[t] = {}
  BY DEF DeskInv, Answered
<1>4. ASSUME NEW s \in Call PROVE Answered(s)'
  BY <1>3 DEF DeskInv, Answered
<1>5. NoPeeking'
  BY <1>3 DEF DeskInv, NoPeeking
<1>6. Blank' /\ OpenedByManager' /\ StampsTell'
  BY DEF DeskInv, Blank, OpenedByManager, StampsTell, Exists
<1> QED
  BY <1>1, <1>2, <1>4, <1>5, <1>6 DEF DeskInv

\* A call that ends has forgotten what it was about, and no other has.
LEMMA Forgot ==
  ASSUME DeskShape, NEW t \in Call, Forget(t)
  PROVE  /\ row' = [s \in Call |-> row'[s]] /\ new' = [s \in Call |-> new'[s]]
         /\ \A s \in Call \ {t} : row'[s] = row[s] /\ new'[s] = new[s]
  BY DEF DeskShape, Forget

\* The same where it was about nothing to begin with.
LEMMA Nothing ==
  ASSUME DeskShape, NEW t \in Call, UNCHANGED <<row, new>>
  PROVE  /\ row' = [s \in Call |-> row'[s]] /\ new' = [s \in Call |-> new'[s]]
         /\ \A s \in Call \ {t} : row'[s] = row[s] /\ new'[s] = new[s]
  BY DEF DeskShape

\* A call that ends by writing one row keeps the invariant if it does at that row, and
\* marks those as stale who have read it.
LEMMA WriteKeeps ==
  ASSUME DeskInv, NEW t \in Call, stage[t] # "done", NEW readers, Wrote(t, readers),
         row' = [s \in Call |-> row'[s]], new' = [s \in Call |-> new'[s]],
         \A s \in Call \ {t} : row'[s] = row[s] /\ new'[s] = new[s],
         shown' = shown, NEW i \in Item,
         status' = [j \in Item |-> status'[j]], stamp' \in [Item -> BOOLEAN],
         author' = [k \in Ticket |-> author'[k]], setter' = [k \in Ticket |-> setter'[k]],
         \A j \in Item \ {i} : status'[j] = status[j] /\ stamp'[j] = stamp[j],
         \A k \in Ticket \ {i} : author'[k] = author[k] /\ setter'[k] = setter[k],
         reopened \subseteq reopened',
         status[i] # None => status'[i] # None,
         status'[i] = None => ~stamp'[i],
         status'[i] \in Ended => stamp'[i],
         i \in Ticket =>
           /\ status[i] = None \/ (author'[i] = author[i] /\ Deciders(i) \subseteq readers)
           /\ setter[i] # None => setter'[i] # None
           /\ Exists(i)' /\ status'[i] # "pending_approval" => setter'[i] \in everManager \cup Elsewhere
           /\ Exists(i)' /\ stamp'[i] /\ status'[i] \notin Ended => i \in reopened'
  PROVE  DeskInv'
<1>0. /\ DeskShape /\ stage'[t] = "done" /\ kind'[t] = None
      /\ stage' = [s \in Call |-> stage'[s]]
      /\ kind' = [s \in Call |-> kind'[s]] /\ user' = [s \in Call |-> user'[s]]
      /\ \A s \in Call \ {t} : stage'[s] = stage[s] /\ kind'[s] = kind[s] /\ user'[s] = user[s]
      /\ stale \subseteq stale' /\ \A s \in readers \ {t} : Open(s) => s \in stale'
      /\ UNCHANGED <<manager, everManager>> /\ away' = away \ {t}
  BY Written DEF DeskInv
<1>1. DeskShape'
  BY <1>0 DEF DeskShape
<1>2. ASSUME NEW s \in Call PROVE Granted(s)'
  <2>1. CASE s = t
    BY <1>0, <2>1, CallsAssumption DEF Granted
  <2>2. CASE s # t
    BY <1>0, <2>2 DEF DeskInv, Granted
  <2> QED
    BY <2>1, <2>2
<1>3. ASSUME NEW s \in Call, stage'[s] = "update", s \notin stale'
      PROVE  status'[row'[s]] = "pending_approval"
  <2>1. s # t /\ stage[s] = "update" /\ s \notin stale /\ row'[s] = row[s]
    BY <1>0, <1>3
  <2>2. kind[s] = "decide" /\ row[s] \in Ticket /\ status[row[s]] = "pending_approval"
    BY <2>1 DEF DeskInv, Granted, Fresh
  <2>3. CASE row[s] = i
    <3>1. s \in Deciders(i) /\ Open(s) /\ status[i] # None
      BY <2>1, <2>2, <2>3, DeskAssumption DEF Deciders, Open
    <3> QED
      BY <1>0, <1>3, <2>1, <2>2, <2>3, <3>1
  <2>4. CASE row[s] # i
    BY <2>1, <2>2, <2>4 DEF Item
  <2> QED
    BY <2>3, <2>4
<1>4. shown[t] = {}
  BY DEF DeskInv, Answered
<1>5. ASSUME NEW s \in Call PROVE Answered(s)'
  <2>1. stage'[s] # "done" => shown[s] = {}
    BY <1>0, <1>4 DEF DeskInv, Answered
  <2>2. ASSUME NEW k \in shown[s] PROVE k \in Ticket /\ status'[k] # None
    BY <2>2 DEF DeskInv, Answered, Item
  <2> QED
    BY <2>1, <2>2 DEF Answered
<1>6. NoPeeking'
  <2> SUFFICES ASSUME NEW s \in Call, user'[s] \notin everManager', NEW k \in shown[s]
               PROVE  author'[k] = user'[s] \/ setter'[k] # None
    BY DEF NoPeeking
  <2>1. s # t /\ user'[s] = user[s] /\ k \in Ticket /\ status[k] # None
    BY <1>0, <1>4 DEF DeskInv, Answered
  <2>2. author[k] = user[s] \/ setter[k] # None
    BY <1>0, <2>1 DEF DeskInv, NoPeeking
  <2>3. CASE k = i
    BY <2>1, <2>2, <2>3
  <2>4. CASE k # i
    BY <2>1, <2>2, <2>4
  <2> QED
    BY <2>3, <2>4
<1>7. Blank'
  BY DEF DeskInv, Blank
<1>8. ASSUME NEW k \in Ticket, Exists(k)', status'[k] # "pending_approval"
      PROVE  setter'[k] \in everManager' \cup Elsewhere
  <2>1. CASE k = i
    BY <1>0, <1>8, <2>1
  <2>2. CASE k # i
    BY <1>0, <1>8, <2>2 DEF DeskInv, OpenedByManager, Exists, Item
  <2> QED
    BY <2>1, <2>2
<1>9. StampsTell'
  <2>1. ASSUME NEW j \in Item, status'[j] \in Ended PROVE stamp'[j]
    BY <2>1 DEF DeskInv, StampsTell
  <2>2. ASSUME NEW k \in Ticket, Exists(k)', stamp'[k], status'[k] \notin Ended
        PROVE  k \in reopened'
    <3>1. CASE k = i
      BY <2>2, <3>1
    <3>2. CASE k # i
      BY <2>2, <3>2 DEF DeskInv, StampsTell, Exists, Item
    <3> QED
      BY <3>1, <3>2
  <2> QED
    BY <2>1, <2>2, Zenon DEF StampsTell, Ended
<1> QED
  BY <1>1, <1>2, <1>3, <1>5, <1>6, <1>7, <1>8, <1>9 DEF DeskInv, Fresh, OpenedByManager

-----------------------------------------------------------------------------
(* Steps that write no row of the desk *)

\* The steps of a call about which Granted says something.
Claiming == {"role", "insert", "count", "rows", "check", "update", "act"}

\* A call that goes on to a statement of the ledger or the dashboard.
LEMMA PassesBy ==
  ASSUME DeskInv, NEW t \in Call, stage[t] # "done", NEW step, step \notin Claiming,
         step # "idle", Move(t, step), UNCHANGED deskVars
  PROVE  DeskInv'
<1>1. /\ DeskShape /\ stage' = [s \in Call |-> stage'[s]] /\ stage'[t] = step
      /\ \A s \in Call \ {t} : stage'[s] = stage[s]
      /\ UNCHANGED <<manager, everManager, kind, user, away, stale>>
  BY Moved DEF DeskInv
<1>2. UNCHANGED <<status, stamp, author, setter, reopened, row, new, shown>>
  BY DEF deskVars, deskRows
<1>3. Granted(t)' /\ Fresh(t)'
  BY <1>1, <1>2 DEF DeskInv, Granted, Fresh, Claiming
<1> QED
  BY <1>1, <1>2, <1>3, QuietKeeps DEF DeskShape

\* A call that ends with a write to the ledger.
LEMMA LedgerWrites ==
  ASSUME DeskInv, NEW t \in Call, stage[t] # "done", NEW readers, Wrote(t, readers),
         UNCHANGED deskVars
  PROVE  DeskInv'
<1>1. /\ DeskShape /\ stage'[t] = "done" /\ kind'[t] = None
      /\ stage' = [s \in Call |-> stage'[s]]
      /\ kind' = [s \in Call |-> kind'[s]] /\ user' = [s \in Call |-> user'[s]]
      /\ \A s \in Call \ {t} : stage'[s] = stage[s] /\ kind'[s] = kind[s] /\ user'[s] = user[s]
      /\ stale \subseteq stale'
      /\ UNCHANGED <<manager, everManager>> /\ away' = away \ {t}
  BY Written DEF DeskInv
<1>2. UNCHANGED <<status, stamp, author, setter, reopened, row, new, shown>>
  BY DEF deskVars, deskRows
<1>3. Granted(t)' /\ Fresh(t)'
  BY <1>1, CallsAssumption DEF Granted, Fresh
<1> QED
  BY <1>1, <1>2, <1>3, QuietKeeps DEF DeskShape

\* A call that fails.
LEMMA BreakKeeps ==
  ASSUME DeskInv, NEW t \in Call, Break(t), Forget(t), UNCHANGED <<deskRows, shown>>
  PROVE  DeskInv'
<1>1. /\ DeskShape /\ stage[t] # "done" /\ stage'[t] = "done" /\ kind'[t] = None
      /\ stage' = [s \in Call |-> stage'[s]]
      /\ kind' = [s \in Call |-> kind'[s]] /\ user' = [s \in Call |-> user'[s]]
      /\ \A s \in Call \ {t} : stage'[s] = stage[s] /\ kind'[s] = kind[s] /\ user'[s] = user[s]
      /\ UNCHANGED <<manager, everManager, stale>> /\ away' = away \ {t}
  BY DEF DeskInv, DeskShape, Break, End, Reach, Open, roles
<1>2. UNCHANGED <<status, stamp, author, setter, reopened, shown>>
  BY DEF deskRows
<1>3. Granted(t)' /\ Fresh(t)'
  BY <1>1, CallsAssumption DEF Granted, Fresh
<1> QED
  BY <1>1, <1>2, <1>3, Forgot, QuietKeeps

\* A call that begins and is not a decision.
LEMMA BeginKeeps ==
  ASSUME DeskInv, NEW t \in Call, NEW u, NEW k, k # "decide",
         NEW step, step \notin Claiming \/ (step = "role" /\ u \in User), step # "idle",
         Begin(t, u, k, step), UNCHANGED deskVars
  PROVE  DeskInv'
<1>1. /\ DeskShape /\ stage[t] = "idle" /\ stage'[t] = step /\ kind'[t] = k /\ user'[t] = u
      /\ stage' = [s \in Call |-> stage'[s]]
      /\ kind' = [s \in Call |-> kind'[s]] /\ user' = [s \in Call |-> user'[s]]
      /\ \A s \in Call \ {t} : stage'[s] = stage[s] /\ kind'[s] = kind[s] /\ user'[s] = user[s]
      /\ UNCHANGED <<manager, everManager, stale>>
      /\ away' \subseteq away \cup {t}
      /\ t \in away' => t \in away \/ k \in {"manage", "decide"}
  BY Began DEF DeskInv
<1>2. UNCHANGED <<status, stamp, author, setter, reopened, row, new, shown>>
  BY DEF deskVars, deskRows
<1>3. Granted(t)' /\ Fresh(t)'
  BY <1>1 DEF DeskInv, Granted, Fresh, Claiming
<1> QED
  BY <1>1, <1>2, <1>3, QuietKeeps DEF DeskShape

\* A decision begins: it names a request and one of two statuses.
LEMMA StartDecideKeeps ==
  ASSUME DeskInv, NEW t \in Call, NEW u \in User, NEW k \in Ticket,
         NEW s \in {"open", "closed"}, StartDecide(t, u, k, s)
  PROVE  DeskInv'
<1>1. /\ DeskShape /\ stage[t] = "idle" /\ stage'[t] = "role" /\ kind'[t] = "decide" /\ user'[t] = u
      /\ stage' = [c \in Call |-> stage'[c]]
      /\ kind' = [c \in Call |-> kind'[c]] /\ user' = [c \in Call |-> user'[c]]
      /\ \A c \in Call \ {t} : stage'[c] = stage[c] /\ kind'[c] = kind[c] /\ user'[c] = user[c]
      /\ UNCHANGED <<manager, everManager, stale>> /\ away' \subseteq away \cup {t}
  BY Began DEF DeskInv, StartDecide
<1>2. /\ row' = [c \in Call |-> row'[c]] /\ new' = [c \in Call |-> new'[c]]
      /\ row'[t] = k /\ new'[t] = s
      /\ \A c \in Call \ {t} : row'[c] = row[c] /\ new'[c] = new[c]
      /\ UNCHANGED <<status, stamp, author, setter, reopened, shown>>
  BY <1>1 DEF StartDecide, DeskShape, deskRows
<1>3. Granted(t)' /\ Fresh(t)'
  BY <1>1, <1>2 DEF Granted, Fresh
<1> QED
  BY <1>1, <1>2, <1>3, QuietKeeps

\* A call that managerOnly has let pass is that of a manager.
LEMMA MayKeeps ==
  ASSUME DeskInv, NEW t \in Call, MayDecide(t) \/ MayManage(t), UNCHANGED deskVars
  PROVE  DeskInv'
<1> DEFINE step == IF kind[t] = "decide" THEN "check" ELSE "act"
<1>1. /\ stage[t] = "role" /\ user[t] \in manager \cup Elsewhere
      /\ Move(t, step) /\ step \in {"check", "act"}
  BY DEF MayDecide, MayManage, PassesManagerOnly
<1>2. /\ DeskShape /\ stage' = [s \in Call |-> stage'[s]] /\ stage'[t] = step
      /\ \A s \in Call \ {t} : stage'[s] = stage[s]
      /\ UNCHANGED <<manager, everManager, kind, user, away, stale>>
  BY <1>1, Moved DEF DeskInv
<1>3. UNCHANGED <<status, stamp, author, setter, reopened, row, new, shown>>
  BY DEF deskVars, deskRows
<1>4. Granted(t)' /\ Fresh(t)'
  BY <1>1, <1>2, <1>3 DEF DeskInv, DeskShape, Granted, Fresh
<1> QED
  BY <1>1, <1>2, <1>3, <1>4, QuietKeeps DEF DeskShape

\* A decision goes on when it has read that the request is pending.
LEMMA CheckPendingKeeps ==
  ASSUME DeskInv, NEW t \in Call, CheckPending(t)
  PROVE  DeskInv'
<1>1. /\ DeskShape /\ stage' = [s \in Call |-> stage'[s]] /\ stage'[t] = "update"
      /\ \A s \in Call \ {t} : stage'[s] = stage[s]
      /\ UNCHANGED <<manager, everManager, kind, user, away, stale>>
  BY Moved DEF DeskInv, CheckPending
<1>2. /\ stage[t] = "check" /\ status[row[t]] = "pending_approval"
      /\ UNCHANGED <<status, stamp, author, setter, reopened, row, new, shown>>
  BY DEF CheckPending, deskVars, deskRows
<1>3. Granted(t)' /\ Fresh(t)'
  BY <1>1, <1>2 DEF DeskInv, Granted, Fresh
<1> QED
  BY <1>1, <1>2, <1>3, QuietKeeps DEF DeskShape

\* What a call chooses by its user's role it chooses as the manager only for one.
LEMMA ReadRoleKeeps ==
  ASSUME DeskInv, NEW t \in Call, ReadRoleToChoose(t)
  PROVE  DeskInv'
<1> DEFINE step == IF kind[t] = "file" THEN "insert" ELSE "count"
<1>1. /\ DeskShape /\ stage' = [s \in Call |-> stage'[s]] /\ stage'[t] = step
      /\ \A s \in Call \ {t} : stage'[s] = stage[s]
      /\ UNCHANGED <<manager, everManager, kind, user, away, stale>>
  BY Moved DEF DeskInv, ReadRoleToChoose
<1>2. /\ stage[t] = "role" /\ kind[t] \in {"file", "list"}
      /\ UNCHANGED <<status, stamp, author, setter, reopened, row, shown>>
  BY DEF ReadRoleToChoose, deskRows
<1>3. PICK managing \in {FALSE, user[t] \in manager} :
        new' = [new EXCEPT ![t] = IF managing THEN "open" ELSE "pending_approval"]
  <2>1. t \notin away
    BY <1>2 DEF DeskInv, Granted
  <2> QED
    BY <2>1 DEF ReadRoleToChoose, PassesManagerOnly
<1>4. /\ new' = [s \in Call |-> new'[s]] /\ \A s \in Call \ {t} : new'[s] = new[s]
      /\ new'[t] \in {"open", "pending_approval"}
      /\ new'[t] = "open" => user[t] \in manager
  BY <1>1, <1>3 DEF DeskShape
<1>5. Granted(t)' /\ Fresh(t)'
  BY <1>1, <1>2, <1>4 DEF DeskInv, DeskShape, Granted, Fresh
<1> QED
  BY <1>1, <1>2, <1>4, <1>5, QuietKeeps DEF DeskShape

\* The count goes into the answer only.
LEMMA CountTicketsKeeps ==
  ASSUME DeskInv, NEW t \in Call, CountTickets(t)
  PROVE  DeskInv'
<1>1. /\ DeskShape /\ stage' = [s \in Call |-> stage'[s]] /\ stage'[t] = "rows"
      /\ \A s \in Call \ {t} : stage'[s] = stage[s]
      /\ UNCHANGED <<manager, everManager, kind, user, away, stale>>
  BY Moved DEF DeskInv, CountTickets
<1>2. /\ stage[t] = "count"
      /\ UNCHANGED <<status, stamp, author, setter, reopened, row, new, shown>>
  BY DEF CountTickets, deskVars, deskRows
<1>3. Granted(t)' /\ Fresh(t)'
  BY <1>1, <1>2 DEF DeskInv, Granted, Fresh
<1> QED
  BY <1>1, <1>2, <1>3, QuietKeeps DEF DeskShape

\* The answer shows what the role allows, and a pending request of another to nobody else.
LEMMA ListTicketsKeeps ==
  ASSUME DeskInv, NEW t \in Call, ListTickets(t)
  PROVE  DeskInv'
<1>1. /\ DeskShape /\ stage' = [s \in Call |-> stage'[s]] /\ stage'[t] = "done"
      /\ \A s \in Call \ {t} : stage'[s] = stage[s]
      /\ UNCHANGED <<manager, everManager, kind, user, away, stale>>
  BY Moved DEF DeskInv, ListTickets
<1>2. /\ stage[t] = "rows"
      /\ UNCHANGED <<status, stamp, author, setter, reopened>>
      /\ shown' = [s \in Call |-> shown'[s]] /\ shown'[t] = Visible(t)
      /\ \A s \in Call \ {t} : shown'[s] = shown[s]
      /\ row' = [s \in Call |-> row'[s]] /\ new' = [s \in Call |-> new'[s]]
      /\ \A s \in Call \ {t} : row'[s] = row[s] /\ new'[s] = new[s]
  BY <1>1, Forgot DEF ListTickets, deskRows, DeskShape
<1>3. DeskShape'
  BY <1>1, <1>2 DEF DeskShape
<1>4. ASSUME NEW s \in Call PROVE Granted(s)' /\ Fresh(s)'
  <2>1. CASE s = t
    <3>1. kind[t] # "decide"
      BY <1>2 DEF DeskInv, Granted
    <3> QED
      BY <1>1, <1>2, <2>1, <3>1 DEF DeskInv, Granted, Fresh
  <2>2. CASE s # t
    BY <1>1, <1>2, <2>2 DEF DeskInv, Granted, Fresh
  <2> QED
    BY <2>1, <2>2
<1>5. ASSUME NEW s \in Call PROVE Answered(s)'
  <2>1. CASE s = t
    BY <1>1, <1>2, <2>1 DEF Answered, Visible, Exists
  <2>2. CASE s # t
    BY <1>1, <1>2, <2>2 DEF DeskInv, Answered
  <2> QED
    BY <2>1, <2>2
<1>6. NoPeeking'
  <2> SUFFICES ASSUME NEW s \in Call, user[s] \notin everManager, NEW k \in shown'[s]
               PROVE  author[k] = user[s] \/ setter[k] # None
    BY <1>1, <1>2 DEF NoPeeking
  <2>1. CASE s = t
    <3>1. k \in Ticket /\ Exists(k) /\ (status[k] # "pending_approval" \/ author[k] = user[t])
      BY <1>2, <2>1 DEF Visible, DeskInv, Granted
    <3>2. status[k] # "pending_approval" => setter[k] \in everManager \cup Elsewhere
      BY <3>1 DEF DeskInv, OpenedByManager
    <3>3. None \notin everManager \cup Elsewhere
      BY CallsAssumption, DeskAssumption DEF DeskInv, DeskShape
    <3> QED
      BY <2>1, <3>1, <3>2, <3>3
  <2>2. CASE s # t
    BY <1>2, <2>2 DEF DeskInv, NoPeeking
  <2> QED
    BY <2>1, <2>2
<1>7. Blank' /\ OpenedByManager' /\ StampsTell'
  BY <1>1, <1>2 DEF DeskInv, Blank, OpenedByManager, StampsTell, Exists
<1> QED
  BY <1>3, <1>4, <1>5, <1>6, <1>7 DEF DeskInv

-----------------------------------------------------------------------------
(* Steps that write a row of the desk *)

\* A filed request is pending, or open because a manager files it.
LEMMA InsertTicketKeeps ==
  ASSUME DeskInv, NEW t \in Call, NEW k \in Ticket, InsertTicket(t, k)
  PROVE  DeskInv'
<1>1. /\ stage[t] = "insert" /\ status[k] = None
      /\ Wrote(t, {}) /\ Forget(t) /\ UNCHANGED <<stamp, reopened, shown>>
      /\ k \in Item
  BY DEF InsertTicket, Item
<1>2. /\ user[t] \in User /\ new[t] \in {"open", "pending_approval"}
      /\ new[t] = "open" => user[t] \in everManager
  BY <1>1 DEF DeskInv, Granted
<1>3. /\ DeskShape /\ ~stamp[k] /\ everManager' = everManager
  BY <1>1, Written DEF DeskInv, Blank
<1>4. /\ status' = [j \in Item |-> status'[j]] /\ status'[k] = new[t]
      /\ \A j \in Item \ {k} : status'[j] = status[j]
      /\ author' = [j \in Ticket |-> author'[j]]
      /\ \A j \in Ticket \ {k} : author'[j] = author[j]
  BY <1>1, <1>3 DEF InsertTicket, DeskShape
<1>5. /\ setter' = [j \in Ticket |-> setter'[j]]
      /\ \A j \in Ticket \ {k} : setter'[j] = setter[j]
      /\ setter'[k] = IF new[t] = "open" THEN user[t] ELSE setter[k]
  BY <1>3 DEF InsertTicket, DeskShape
<1>6. /\ status'[k] # None /\ status'[k] \notin Ended
      /\ stamp' \in [Item -> BOOLEAN] /\ ~stamp'[k]
      /\ \A j \in Item \ {k} : stamp'[j] = stamp[j]
  BY <1>1, <1>2, <1>3, <1>4, DeskAssumption DEF Ended, DeskShape
<1>7. setter[k] # None => setter'[k] # None
  BY <1>2, <1>5, DeskAssumption
<1>8. status'[k] # "pending_approval" => setter'[k] \in everManager \cup Elsewhere
  BY <1>2, <1>4, <1>5
<1> QED
  BY <1>1, <1>3, <1>4, <1>5, <1>6, <1>7, <1>8, Forgot, WriteKeeps

\* What an UPDATE of a status does to its row and to no other.
LEMMA StatusSet ==
  ASSUME DeskInv, NEW i \in Item, NEW s, s # None, SetStatus(i, s)
  PROVE  /\ status' = [j \in Item |-> status'[j]] /\ stamp' \in [Item -> BOOLEAN]
         /\ \A j \in Item \ {i} : status'[j] = status[j] /\ stamp'[j] = stamp[j]
         /\ status'[i] = IF Exists(i) THEN s ELSE status[i]
         /\ stamp'[i] => stamp[i] \/ s \in Ended
         /\ status[i] # None => status'[i] # None
         /\ status'[i] = None => ~stamp'[i]
         /\ status'[i] \in Ended => stamp'[i]
         /\ Exists(i)' => Exists(i)
<1>1. DeskShape /\ Blank /\ (status[i] \in Ended => stamp[i])
  BY DEF DeskInv, StampsTell
<1>2. /\ status' = [j \in Item |-> status'[j]]
      /\ \A j \in Item \ {i} : status'[j] = status[j]
      /\ status'[i] = IF Exists(i) THEN s ELSE status[i]
  BY <1>1 DEF SetStatus, DeskShape
<1>3. /\ stamp' \in [Item -> BOOLEAN]
      /\ \A j \in Item \ {i} : stamp'[j] = stamp[j]
      /\ stamp'[i] = (stamp[i] \/ (Exists(i) /\ s \in Ended))
  BY <1>1, Zenon DEF SetStatus, DeskShape
<1>4. status'[i] = None => ~stamp'[i]
  BY <1>1, <1>2, <1>3 DEF Blank, Exists
<1>5. status'[i] \in Ended => stamp'[i]
  BY <1>1, <1>2, <1>3
<1> QED
  BY <1>2, <1>3, <1>4, <1>5 DEF Exists

\* A decision is that of a manager, and on stale grounds if it reopens a request.
LEMMA UpdateDecidedKeeps ==
  ASSUME DeskInv, NEW t \in Call, UpdateDecided(t)
  PROVE  DeskInv'
<1>0. stage[t] = "update"
  BY DEF UpdateDecided
<1>1. PICK k \in Ticket : k = row[t]
  BY <1>0 DEF DeskInv, Granted
<1>2. /\ k \in Item /\ new[t] \in {"open", "closed"} /\ new[t] # None
      /\ user[t] \in everManager \cup Elsewhere /\ user[t] \in User
  BY <1>0, DeskAssumption DEF DeskInv, Granted, Item
<1>3. /\ Wrote(t, Deciders(k)) /\ SetStatus(k, new[t])
      /\ Forget(t) /\ shown' = shown /\ author' = author
      /\ reopened \subseteq reopened' /\ (t \in stale => k \in reopened')
  BY <1>1 DEF UpdateDecided
<1>4. DeskShape /\ everManager' = everManager
  BY <1>3, Written DEF DeskInv
<1>5. /\ setter' = [j \in Ticket |-> setter'[j]] /\ setter'[k] = user[t]
      /\ \A j \in Ticket \ {k} : setter'[j] = setter[j]
  BY <1>1, <1>2, <1>4 DEF UpdateDecided, DeskShape
<1>6. /\ status' = [j \in Item |-> status'[j]] /\ stamp' \in [Item -> BOOLEAN]
      /\ \A j \in Item \ {k} : status'[j] = status[j] /\ stamp'[j] = stamp[j]
      /\ status'[k] = IF Exists(k) THEN new[t] ELSE status[k]
      /\ stamp'[k] => stamp[k] \/ new[t] \in Ended
      /\ status[k] # None => status'[k] # None
      /\ status'[k] = None => ~stamp'[k]
      /\ status'[k] \in Ended => stamp'[k]
      /\ Exists(k)' => Exists(k)
  BY <1>2, <1>3, StatusSet
<1>7. setter'[k] # None
  BY <1>2, <1>5, DeskAssumption
<1>8. ASSUME Exists(k)', stamp'[k], status'[k] \notin Ended PROVE k \in reopened'
  <2>1. Exists(k) /\ new[t] \notin Ended /\ stamp[k]
    BY <1>6, <1>8
  <2>2. CASE t \in stale
    BY <1>3, <2>2
  <2>3. CASE t \notin stale
    <3>1. status[k] = "pending_approval"
      BY <1>1, <1>0, <2>3 DEF DeskInv, Fresh
    <3> QED
      BY <1>2, <1>3, <2>1, <3>1 DEF DeskInv, StampsTell, Ended
  <2> QED
    BY <2>2, <2>3
<1>9. /\ author' = [j \in Ticket |-> author'[j]] /\ shown' = shown
      /\ \A j \in Ticket : author'[j] = author[j]
  BY <1>3, <1>4 DEF DeskShape
<1>10. setter'[k] \in everManager \cup Elsewhere /\ stage[t] # "done"
  BY <1>0, <1>2, <1>5
<1> QED
  BY <1>2, <1>3, <1>4, <1>5, <1>6, <1>7, <1>8, <1>9, <1>10, Forgot, WriteKeeps

\* An update by a manager that takes an ended request out of its ending reopens it.
LEMMA UpdateRequestKeeps ==
  ASSUME DeskInv, NEW t \in Call, NEW k \in Ticket, NEW s \in TicketStatus, UpdateRequest(t, k, s)
  PROVE  DeskInv'
<1>1. stage[t] = "act" /\ k \in Item /\ s # None
  BY DeskAssumption DEF UpdateRequest, Item, TicketStatus
<1>2. user[t] \in everManager \cup Elsewhere /\ user[t] \in User
  BY <1>1 DEF DeskInv, Granted
<1>3. /\ Wrote(t, Deciders(k)) /\ SetStatus(k, s)
      /\ UNCHANGED <<row, new, shown>> /\ author' = author
      /\ reopened \subseteq reopened' /\ (stamp[k] /\ s \notin Ended => k \in reopened')
  BY DEF UpdateRequest
<1>4. DeskShape /\ everManager' = everManager /\ stage[t] # "done"
  BY <1>1, <1>3, Written DEF DeskInv
<1>5. /\ setter' = [j \in Ticket |-> setter'[j]]
      /\ setter'[k] = IF Exists(k) THEN user[t] ELSE setter[k]
      /\ \A j \in Ticket \ {k} : setter'[j] = setter[j]
  BY <1>4 DEF UpdateRequest, DeskShape
<1>6. /\ status' = [j \in Item |-> status'[j]] /\ stamp' \in [Item -> BOOLEAN]
      /\ \A j \in Item \ {k} : status'[j] = status[j] /\ stamp'[j] = stamp[j]
      /\ status'[k] = IF Exists(k) THEN s ELSE status[k]
      /\ stamp'[k] => stamp[k] \/ s \in Ended
      /\ status[k] # None => status'[k] # None
      /\ status'[k] = None => ~stamp'[k]
      /\ status'[k] \in Ended => stamp'[k]
      /\ Exists(k)' => Exists(k)
  BY <1>1, <1>3, StatusSet
<1>7. setter[k] # None => setter'[k] # None
  BY <1>2, <1>5, DeskAssumption
<1>8. Exists(k)' => setter'[k] \in everManager \cup Elsewhere
  BY <1>2, <1>5, <1>6
<1>9. Exists(k)' /\ stamp'[k] /\ status'[k] \notin Ended => k \in reopened'
  BY <1>3, <1>6
<1>10. /\ author' = [j \in Ticket |-> author'[j]] /\ shown' = shown
       /\ \A j \in Ticket : author'[j] = author[j]
  BY <1>3, <1>4 DEF DeskShape
<1> QED
  BY <1>1, <1>3, <1>5, <1>6, <1>7, <1>4, <1>8, <1>9, <1>10, Nothing, WriteKeeps

\* A deleted request keeps its stamp and says nothing any more.
LEMMA DeleteRequestKeeps ==
  ASSUME DeskInv, NEW t \in Call, NEW k \in Ticket, DeleteRequest(t, k)
  PROVE  DeskInv'
<1>1. /\ stage[t] = "act" /\ k \in Item /\ DeskShape
      /\ Wrote(t, Deciders(k)) /\ UNCHANGED <<row, new, shown>>
      /\ UNCHANGED <<stamp, author, setter, reopened>>
  BY DEF DeleteRequest, Item, DeskInv
<1>2. /\ status' = [j \in Item |-> status'[j]] /\ status'[k] = "gone"
      /\ \A j \in Item \ {k} : status'[j] = status[j]
  BY <1>1 DEF DeleteRequest, DeskShape
<1>3. status'[k] # None /\ status'[k] \notin Ended /\ ~Exists(k)'
  BY <1>2, DeskAssumption DEF Ended, Exists
<1>4. /\ author' = [j \in Ticket |-> author'[j]] /\ setter' = [j \in Ticket |-> setter'[j]]
      /\ stamp' \in [Item -> BOOLEAN] /\ shown' = shown
      /\ \A j \in Item : stamp'[j] = stamp[j]
      /\ \A j \in Ticket : author'[j] = author[j] /\ setter'[j] = setter[j]
  BY <1>1 DEF DeskShape
<1> QED
  BY <1>1, <1>2, <1>3, <1>4, Nothing, WriteKeeps

\* A pass or a package is created, or given another status, in one statement.
LEMMA ItemKeeps ==
  ASSUME DeskInv, NEW t \in Call, NEW i \in Pass \cup Package, NEW s, s # None,
         (Insert(t, i, s) /\ s \notin Ended) \/ Update(t, i, s)
  PROVE  DeskInv'
<1>1. i \in Item /\ i \notin Ticket /\ DeskShape
  BY DeskAssumption DEF Item, DeskInv
<1>2. /\ stage[t] = "idle" /\ Wrote(t, {}) /\ UNCHANGED <<row, new, shown>>
      /\ UNCHANGED <<author, setter, reopened>>
  BY DEF Insert, Update
<1>3. CASE Insert(t, i, s) /\ s \notin Ended
  <2>1. /\ status' = [j \in Item |-> status'[j]] /\ status'[i] = s
        /\ \A j \in Item \ {i} : status'[j] = status[j]
        /\ stamp' = stamp
    BY <1>1, <1>3 DEF Insert, DeskShape
  <2> QED
    BY <1>1, <1>2, <1>3, <2>1, Nothing, WriteKeeps DEF DeskShape
<1>4. CASE Update(t, i, s)
  <2>1. /\ status' = [j \in Item |-> status'[j]] /\ stamp' \in [Item -> BOOLEAN]
        /\ \A j \in Item \ {i} : status'[j] = status[j] /\ stamp'[j] = stamp[j]
        /\ status[i] # None => status'[i] # None
        /\ status'[i] = None => ~stamp'[i]
        /\ status'[i] \in Ended => stamp'[i]
    BY <1>1, <1>4, StatusSet DEF Update
  <2> QED
    BY <1>1, <1>2, <2>1, Nothing, WriteKeeps DEF DeskShape
<1> QED
  BY <1>3, <1>4

-----------------------------------------------------------------------------
(* Every step of the services, and what holds of the desk *)

\* A step of the desk.
LEMMA DeskStepKeeps ==
  ASSUME DeskInv, NEW t \in Call, DeskStep(t)
  PROVE  DeskInv'
<1>1. ASSUME NEW u \in User, StartFile(t, u) \/ StartList(t, u) PROVE DeskInv'
  BY <1>1, BeginKeeps DEF StartFile, StartList, Claiming
<1>2. ASSUME NEW u \in User, NEW k \in Ticket, NEW s \in {"open", "closed"}, StartDecide(t, u, k, s)
      PROVE  DeskInv'
  BY <1>2, StartDecideKeeps
<1>3. CASE ReadRoleToChoose(t) \/ CountTickets(t) \/ ListTickets(t)
  BY <1>3, ReadRoleKeeps, CountTicketsKeeps, ListTicketsKeeps
<1>4. CASE MayDecide(t)
  BY <1>4, MayKeeps DEF MayDecide
<1>5. CASE CheckPending(t) \/ UpdateDecided(t)
  BY <1>5, CheckPendingKeeps, UpdateDecidedKeeps
<1>6. ASSUME NEW k \in Ticket, InsertTicket(t, k) \/ DeleteRequest(t, k) PROVE DeskInv'
  BY <1>6, InsertTicketKeeps, DeleteRequestKeeps
<1>7. ASSUME NEW k \in Ticket, NEW s \in TicketStatus, UpdateRequest(t, k, s) PROVE DeskInv'
  BY <1>7, UpdateRequestKeeps
<1>8. ASSUME NEW i \in Item, CreatePass(t, i) \/ CreatePackage(t, i) PROVE DeskInv'
  <2>1. \E s \in {"pending", "waiting"} : Insert(t, i, s)
    BY <1>8 DEF CreatePass, CreatePackage
  <2>2. i \in Pass \cup Package
    BY <1>8 DEF CreatePass, CreatePackage
  <2> QED
    BY <2>1, <2>2, ItemKeeps, DeskAssumption DEF Ended
<1>9. ASSUME NEW i \in Item, \/ CheckIn(t, i) \/ CheckOut(t, i) \/ CancelPass(t, i)
                             \/ PickUp(t, i) \/ Notify(t, i)
      PROVE  DeskInv'
  <2>1. \E s \in {"checked_in", "checked_out", "cancelled", "picked_up", "notified"} :
          Update(t, i, s)
    BY <1>9 DEF CheckIn, CheckOut, CancelPass, PickUp, Notify
  <2>2. i \in Pass \cup Package
    BY <1>9 DEF CheckIn, CheckOut, CancelPass, PickUp, Notify
  <2> QED
    BY <2>1, <2>2, ItemKeeps, DeskAssumption
<1> QED
  BY <1>1, <1>2, <1>3, <1>4, <1>5, <1>6, <1>7, <1>8, <1>9 DEF DeskStep

\* A step of the ledger or of the dashboard, which leaves the desk's rows alone.
LEMMA OthersKeep ==
  ASSUME DeskInv, NEW t \in Call, LedgerStep(t) \/ DashboardStep(t), UNCHANGED deskVars
  PROVE  DeskInv'
<1>1. ASSUME StartReport(t) PROVE DeskInv'
  BY <1>1, BeginKeeps DEF StartReport, Claiming
<1>2. CASE ReadPayments(t) \/ ReadDue(t)
  <2>1. stage[t] # "done" /\ \E step \in {"due", "done"} : Move(t, step)
    BY <1>2 DEF ReadPayments, ReadDue
  <2> QED
    BY <2>1, PassesBy DEF Claiming
<1>3. ASSUME NEW plans, NEW period, NEW pay, stage[t] # "done",
             Store(t, plans, period, pay)
      PROVE  DeskInv'
  BY <1>3, LedgerWrites DEF Store
<1>4. ASSUME NEW p \in Plan, DeleteDues(t, p) PROVE DeskInv'
  <2>1. stage[t] # "done" /\ \E plans, period, pay : Store(t, plans, period, pay)
    BY <1>4 DEF DeleteDues
  <2> QED
    BY <1>3, <2>1
<1>5. ASSUME NEW p \in Plan, NEW x \in Amount, CreateDues(t, p, x) \/ UpdateDues(t, p, x)
      PROVE  DeskInv'
  <2>1. stage[t] # "done" /\ \E plans, period, pay : Store(t, plans, period, pay)
    BY <1>5 DEF CreateDues, UpdateDues
  <2> QED
    BY <1>3, <2>1
<1>6. ASSUME NEW p \in Plan, NEW u \in Unit, NEW x \in Amount, PayDues(t, p, u, x) PROVE DeskInv'
  <2>1. stage[t] # "done" /\ \E plans, period, pay : Store(t, plans, period, pay)
    BY <1>6 DEF PayDues
  <2> QED
    BY <1>3, <2>1, <1>6
<1>7. ASSUME NEW u \in Unit, NEW s, DeleteUnit(t, u) \/ CreateUnit(t, u, s) \/ UpdateUnit(t, u, s)
      PROVE  DeskInv'
  <2>1. stage[t] # "done" /\ \E readers : Wrote(t, readers)
    BY <1>7 DEF DeleteUnit, CreateUnit, UpdateUnit
  <2> QED
    BY <2>1, LedgerWrites
<1>8. CASE DashboardStep(t)
  <2>1. stage[t] # "done" /\ \E step \in {"occupied", "requests", "done"} : Move(t, step)
    BY <1>8 DEF DashboardStep, CountUnits, CountOccupied, CountOpen
  <2> QED
    BY <2>1, PassesBy DEF Claiming
<1> QED
  BY <1>1, <1>2, <1>4, <1>5, <1>6, <1>7, <1>8 DEF LedgerStep

\* Membership gives and takes roles; it writes nothing else.
LEMMA RolesKeep ==
  ASSUME DeskInv, NEW u \in User, Promote(u) \/ Demote(u), UNCHANGED deskVars
  PROVE  DeskInv'
<1>1. /\ DeskShape /\ everManager \subseteq everManager' /\ everManager' \subseteq User
      /\ manager' \subseteq everManager'
      /\ UNCHANGED <<stage, kind, user, away, stale>>
  BY DEF DeskInv, DeskShape, Promote, Demote
<1>2. UNCHANGED <<status, stamp, author, setter, reopened, row, new, shown>>
  BY DEF deskVars, deskRows
<1>3. DeskShape'
  BY <1>1, <1>2 DEF DeskShape
<1>4. ASSUME NEW t \in Call PROVE Granted(t)' /\ Fresh(t)' /\ Answered(t)'
  BY <1>1, <1>2 DEF DeskInv, Granted, Fresh, Answered
<1>5. OpenedByManager'
  BY <1>1, <1>2 DEF DeskInv, OpenedByManager, Exists
<1>6. NoPeeking'
  BY <1>1, <1>2 DEF DeskInv, NoPeeking
<1>7. Blank' /\ StampsTell'
  BY <1>2 DEF DeskInv, Blank, StampsTell, Exists
<1> QED
  BY <1>3, <1>4, <1>5, <1>6, <1>7 DEF DeskInv

\* At a new building and at one in use no call is under way and every request is pending.
LEMMA DeskBegins == ServicesInit => DeskInv
<1> SUFFICES ASSUME ServicesInit PROVE DeskInv
  OBVIOUS
<1>1. PICK inUse \in BOOLEAN : CallsInit /\ DeskInit(inUse)
  BY DEF ServicesInit
<1>2. /\ manager = {} /\ everManager = {}
      /\ stage = [t \in Call |-> "idle"]
      /\ kind = [t \in Call |-> None] /\ user = [t \in Call |-> None] /\ away = {}
  BY <1>1 DEF CallsInit
<1>3. /\ stamp = [i \in Item |-> FALSE] /\ setter = [k \in Ticket |-> None]
      /\ row = [t \in Call |-> None] /\ new = [t \in Call |-> None] /\ shown = [t \in Call |-> {}]
      /\ status = [i \in Item |-> IF i \in Ticket /\ author[i] # None
                                THEN "pending_approval" ELSE None]
      /\ author = [k \in Ticket |-> author[k]]
  BY <1>1 DEF DeskInit
<1>4. \A i \in Item : status[i] \in {"pending_approval", None}
  BY <1>3
<1>5. DeskShape
  BY <1>2, <1>3 DEF DeskShape
<1>6. Blank /\ StampsTell /\ OpenedByManager
  BY <1>3, <1>4, DeskAssumption DEF Blank, StampsTell, OpenedByManager, Exists, Ended, Item
<1>7. NoPeeking /\ \A t \in Call : Granted(t) /\ Fresh(t) /\ Answered(t)
  BY <1>2, <1>3, CallsAssumption DEF NoPeeking, Granted, Fresh, Answered
<1> QED
  BY <1>5, <1>6, <1>7 DEF DeskInv

\* Every step of the services keeps the desk's invariant.
LEMMA DeskSteps == DeskInv /\ [ServicesNext]_servicesVars => DeskInv'
<1> SUFFICES ASSUME DeskInv, [ServicesNext]_servicesVars PROVE DeskInv'
  OBVIOUS
<1>1. ASSUME NEW t \in Call, CallStep(t) PROVE DeskInv'
  <2>1. CASE DeskStep(t)
    BY <2>1, DeskStepKeeps
  <2>2. CASE (LedgerStep(t) \/ DashboardStep(t)) /\ UNCHANGED deskVars
    BY <2>2, OthersKeep
  <2>3. CASE /\ StartDashboard(t) \/ \E u \in User : StartManage(t, u)
             /\ UNCHANGED <<deskVars, ledgerVars>>
    <3>1. UNCHANGED deskVars
      BY <2>3
    <3> QED
      BY <2>3, <3>1, BeginKeeps DEF StartManage, StartDashboard, Claiming
  <2>4. CASE MayManage(t) /\ UNCHANGED <<deskVars, ledgerVars>>
    <3>1. UNCHANGED deskVars
      BY <2>4
    <3> QED
      BY <2>4, <3>1, MayKeeps
  <2>5. CASE Break(t) /\ Forget(t) /\ UNCHANGED <<deskRows, shown, ledgerVars>>
    <3>1. UNCHANGED <<deskRows, shown>>
      BY <2>5
    <3> QED
      BY <2>5, <3>1, BreakKeeps
  <2> QED
    BY <1>1, <2>1, <2>2, <2>3, <2>4, <2>5 DEF CallStep
<1>2. ASSUME NEW u \in User, Promote(u) \/ Demote(u), UNCHANGED deskVars PROVE DeskInv'
  BY <1>2, RolesKeep
<1>3. CASE UNCHANGED servicesVars
  <2>1. UNCHANGED <<manager, everManager, stage, kind, user, away, stale>>
    BY <1>3 DEF servicesVars, callVars, roles
  <2>2. UNCHANGED <<status, stamp, author, setter, reopened, row, new, shown>>
    BY <1>3 DEF servicesVars, deskVars, deskRows
  <2>3. DeskShape' /\ Blank' /\ \A t \in Call : Granted(t)' /\ Fresh(t)' /\ Answered(t)'
    BY <2>1, <2>2 DEF DeskInv, DeskShape, Blank, Granted, Fresh, Answered
  <2>4. OpenedByManager' /\ StampsTell' /\ NoPeeking'
    BY <2>1, <2>2 DEF DeskInv, OpenedByManager, StampsTell, NoPeeking, Exists
  <2> QED
    BY <2>3, <2>4 DEF DeskInv
<1> QED
  BY <1>1, <1>2, <1>3 DEF ServicesNext

\* The desk's invariant holds whatever the calls do.
LEMMA DeskInvariance == ServicesSpec => []DeskInv
  BY DeskBegins, DeskSteps, PTL DEF ServicesSpec

\* No maintenance request leaves pending_approval but by a user who has had a managing
\* role in its building or has one in another, the one managerOnly looked at: its check
\* and the write of the handler are two statements, and the role may be gone between them.
THEOREM OpenedOnlyByManagers == ServicesSpec => []OpenedByManager
<1>1. DeskInv => OpenedByManager
  BY DEF DeskInv
<1> QED
  BY <1>1, DeskInvariance, PTL

\* resolved_at, checked_out_at and picked_up_at tell whether a request, a pass or a
\* package has ended, except after a reopening or after two overlapping decisions.
THEOREM StampsHold == ServicesSpec => []StampsTell
<1>1. DeskInv => StampsTell
  BY DEF DeskInv
<1> QED
  BY <1>1, DeskInvariance, PTL

\* GetRequests shows a resident nobody else's request that no manager has opened, however
\* roles and requests change between its statements.
THEOREM NobodyPeeks == ServicesSpec => []NoPeeking
<1>1. DeskInv => NoPeeking
  BY DEF DeskInv
<1> QED
  BY <1>1, DeskInvariance, PTL

-----------------------------------------------------------------------------
(* The ledger and the dashboard: the types, and differences that are not negative *)

\* The statements of a report, of a dashboard, and of the calls that are neither.
Claims(t) ==
  /\ stage[t] \in {"payments", "due"} => kind[t] = "report"
  /\ stage[t] \in {"units", "occupied", "requests"} => kind[t] = "dashboard"
  /\ stage[t] \in Claiming => kind[t] \notin {"report", "dashboard"}

\* Until a plan of the period was paid more than its amount, none is.
Covered == ~overpaid => \A p \in current : PaidFor(paid, p) <= amount[p]

\* What a report or a dashboard has read is so still, unless the call is stale.
Current(t) ==
  t \notin stale =>
    /\ stage[t] = "due" => result[t] = -PaidIn(paid, current)
    /\ stage[t] = "occupied" => result[t] = Cardinality({u \in Unit : occupancy[u] # None})
    /\ stage[t] = "requests" => result[t] >= 0

\* The ledger's invariant: the types, the property, and what keeps it.
LedgerInv ==
  /\ ServicesTypeOK /\ Covered
  /\ \A t \in Call : Claims(t) /\ Current(t)
  /\ DifferencesExplained

\* A sum of amounts over finitely many rows counts a finite set.
LEMMA TotalFinite ==
  ASSUME NEW D, IsFiniteSet(D), NEW f, DOMAIN f = D
  PROVE  /\ IsFiniteSet({x \in D \X Amount : x[2] <= f[x[1]]})
         /\ Total(f) = Cardinality({x \in D \X Amount : x[2] <= f[x[1]]})
         /\ Total(f) \in Nat
<1> DEFINE C == {x \in D \X Amount : x[2] <= f[x[1]]}
<1>1. IsFiniteSet(Amount)
  BY FS_Interval, LedgerAssumption DEF Amount
<1>2. IsFiniteSet(D \X Amount)
  BY <1>1, FS_Product
<1>3. C \in SUBSET (D \X Amount)
  OBVIOUS
<1>4. IsFiniteSet(C)
  BY <1>2, <1>3, FS_Subset
<1>5. Total(f) = Cardinality(C)
  BY Zenon DEF Total
<1> QED
  BY <1>4, <1>5, FS_CardinalityType

\* A sum of smaller amounts is not larger.
LEMMA TotalGrows ==
  ASSUME NEW D, IsFiniteSet(D), NEW f \in [D -> 0 .. MaxAmount], NEW g \in [D -> 0 .. MaxAmount],
         \A x \in D : f[x] <= g[x]
  PROVE  Total(f) <= Total(g)
<1> DEFINE C(h) == {x \in D \X Amount : x[2] <= h[x[1]]}
<1>1. IsFiniteSet(C(g)) /\ Total(g) = Cardinality(C(g)) /\ Total(f) = Cardinality(C(f))
  BY TotalFinite
<1>2. C(f) \in SUBSET C(g)
  BY LedgerAssumption DEF Amount
<1> QED
  BY <1>1, <1>2, FS_Subset

\* Plans that are each paid at most their amount are paid at most their amounts in all:
\* the units paid for a plan are mapped into its amount, one to one.
LEMMA CoveredSums ==
  ASSUME NEW pay \in [Plan -> [Unit -> 0 .. MaxAmount]], NEW plans \in [Plan -> Amount \cup {None}],
         NEW period \in SUBSET {p \in Plan : plans[p] # None},
         \A p \in period : PaidFor(pay, p) <= plans[p]
  PROVE  PaidIn(pay, period) <= Total([p \in period |-> plans[p]])
<1> DEFINE OneToOne(f, S) == \A c, d \in S : f[c] = f[d] => c = d
           Coins(p) == {x \in Unit \X Amount : x[2] <= pay[p][x[1]]}
           paidOf == [x \in period \X Unit |-> pay[x[1]][x[2]]]
           Paid == {x \in (period \X Unit) \X Amount : x[2] <= paidOf[x[1]]}
           dueOf == [p \in period |-> plans[p]]
           Due == {x \in period \X Amount : x[2] <= dueOf[x[1]]}
<1>1. IsFiniteSet(period) /\ IsFiniteSet(period \X Unit)
  BY FS_Subset, FS_Product, LedgerAssumption
<1>2. /\ IsFiniteSet(Due) /\ Total(dueOf) = Cardinality(Due)
      /\ PaidIn(pay, period) = Cardinality(Paid)
  <2>1. IsFiniteSet(Due) /\ Total(dueOf) = Cardinality(Due)
    <3>1. DOMAIN dueOf = period
      OBVIOUS
    <3> QED
      BY <1>1, <3>1, TotalFinite
  <2>2. PaidIn(pay, period) = Cardinality(Paid)
    <3>1. DOMAIN paidOf = period \X Unit
      OBVIOUS
    <3>2. PaidIn(pay, period) = Total(paidOf)
      BY DEF PaidIn
    <3> HIDE DEF paidOf
    <3> QED
      BY <1>1, <3>1, <3>2, TotalFinite
  <2> QED
    BY <2>1, <2>2
<1>3. ASSUME NEW p \in period PROVE \E f \in [Coins(p) -> 1 .. plans[p]] : OneToOne(f, Coins(p))
  <2>1. pay[p] \in [Unit -> 0 .. MaxAmount] /\ plans[p] \in Nat /\ plans[p] \in Amount
    BY LedgerAssumption DEF Amount
  <2>2. IsFiniteSet(Coins(p)) /\ PaidFor(pay, p) = Cardinality(Coins(p))
    BY <2>1, TotalFinite, LedgerAssumption DEF PaidFor
  <2>3. Cardinality(Coins(p)) \in Nat /\ ExistsBijection(1 .. Cardinality(Coins(p)), Coins(p))
    BY <2>2, FS_CardinalityType
  <2>4. ExistsInjection(Coins(p), 1 .. Cardinality(Coins(p)))
    BY <2>3, Fun_ExistsBijSymmetric, Fun_ExistsBijEquiv
  <2>5. ExistsInjection(1 .. Cardinality(Coins(p)), 1 .. plans[p])
    BY <2>1, <2>2, <2>3, Fun_NatInjLeq
  <2> HIDE DEF Coins
  <2>6. ExistsInjection(Coins(p), 1 .. plans[p])
    BY <2>4, <2>5, Fun_ExistsInjTransitive
  <2>7. PICK f : f \in Injection(Coins(p), 1 .. plans[p])
    BY <2>6, Fun_ExistsInj
  <2>8. f \in [Coins(p) -> 1 .. plans[p]] /\ OneToOne(f, Coins(p))
    BY <2>7 DEF Injection, IsInjective
  <2> QED
    BY <2>8
<1> DEFINE into(p) == CHOOSE f \in [Coins(p) -> 1 .. plans[p]] : OneToOne(f, Coins(p))
           F == [x \in Paid |-> <<x[1][1], into(x[1][1])[<<x[1][2], x[2]>>]>>]
<1>4. ASSUME NEW p \in period
      PROVE  into(p) \in [Coins(p) -> 1 .. plans[p]] /\ OneToOne(into(p), Coins(p))
  <2> HIDE DEF Coins, OneToOne
  <2> QED
    BY <1>3, Zenon
<1>5. ASSUME NEW x \in Paid
      PROVE  /\ x[1][1] \in period /\ x[1][2] \in Unit /\ x[2] \in Amount
             /\ x = <<<<x[1][1], x[1][2]>>, x[2]>>
             /\ <<x[1][2], x[2]>> \in Coins(x[1][1])
  OBVIOUS
<1> HIDE DEF Coins, into
<1>6. F \in [Paid -> Due]
  <2> SUFFICES ASSUME NEW x \in Paid PROVE F[x] \in Due
    OBVIOUS
  <2>1. x[1][1] \in period /\ <<x[1][2], x[2]>> \in Coins(x[1][1])
    BY <1>5
  <2>2. into(x[1][1])[<<x[1][2], x[2]>>] \in 1 .. plans[x[1][1]]
    BY <1>4, <2>1
  <2>3. plans[x[1][1]] \in 1 .. MaxAmount
    BY <2>1 DEF Amount
  <2> QED
    BY <2>1, <2>2, <2>3, LedgerAssumption DEF Amount
<1>7. ASSUME NEW x \in Paid, NEW y \in Paid, F[x] = F[y] PROVE x = y
  <2>1. x[1][1] = y[1][1] /\ into(x[1][1])[<<x[1][2], x[2]>>] = into(x[1][1])[<<y[1][2], y[2]>>]
    BY <1>7
  <2>2. <<x[1][2], x[2]>> = <<y[1][2], y[2]>>
    BY <1>4, <1>5, <2>1
  <2> QED
    BY <1>5, <2>1, <2>2
<1>8. F \in Injection(Paid, Due)
  BY <1>6, <1>7, Fun_IsInj
<1> QED
  BY <1>2, <1>8, FS_Injection

\* The statements of the calls.
Stages == {"idle", "role", "check", "update", "act", "insert", "count", "rows",
           "payments", "due", "units", "occupied", "requests", "done"}

\* The types of the calls, step by step.
LEMMA CallsTyped ==
  ASSUME CallsTypeOK, NEW t \in Call
  PROVE  /\ \A step \in Stages : Move(t, step) => CallsTypeOK'
         /\ \A readers \in SUBSET Call : Wrote(t, readers) => CallsTypeOK'
         /\ \A u \in User \cup {None},
              k \in {"manage", "decide", "file", "list", "report", "dashboard"},
              step \in Stages : Begin(t, u, k, step) => CallsTypeOK'
         /\ Break(t) => CallsTypeOK'
<1>1. ASSUME NEW step \in Stages, Move(t, step) PROVE CallsTypeOK'
  BY <1>1 DEF CallsTypeOK, Stages, Move, Reach, roles
<1>2. ASSUME NEW readers \in SUBSET Call, Wrote(t, readers) PROVE CallsTypeOK'
  BY <1>2 DEF CallsTypeOK, Wrote, End, Reach, roles
<1>3. ASSUME NEW u \in User \cup {None},
             NEW k \in {"manage", "decide", "file", "list", "report", "dashboard"},
             NEW step \in Stages, Begin(t, u, k, step)
      PROVE  CallsTypeOK'
  BY <1>3 DEF CallsTypeOK, Stages, Begin, Reach, roles
<1>4. ASSUME Break(t) PROVE CallsTypeOK'
  BY <1>4 DEF CallsTypeOK, Break, End, Reach, roles
<1> QED
  BY <1>1, <1>2, <1>3, <1>4

\* Every status is one of those of its table.
StatusOK ==
  /\ \A k \in Ticket : status[k] \in TicketStatus \cup {"gone", None}
  /\ \A i \in Pass : status[i] \in PassStatus \cup {None}
  /\ \A i \in Package : status[i] \in PackStatus \cup {None}

\* A row is given a status of its table.
LEMMA StatusTyped ==
  ASSUME DeskInv, StatusOK, NEW i \in Item, NEW s,
         \A j \in Item \ {i} : status'[j] = status[j], status'[i] \in {s, status[i]},
         i \in Ticket => s \in TicketStatus \cup {"gone"},
         i \in Pass => s \in PassStatus, i \in Package => s \in PackStatus
  PROVE  StatusOK'
  BY DEF StatusOK, Item

\* What a request, a pass or a package is set to keeps the types of the desk.
LEMMA SetTyped ==
  ASSUME DeskInv, DeskTypeOK, NEW i \in Item, NEW s, s # None, SetStatus(i, s),
         i \in Ticket => s \in TicketStatus,
         i \in Pass => s \in PassStatus, i \in Package => s \in PackStatus
  PROVE  StatusOK' /\ stamp' \in [Item -> BOOLEAN]
<1>1. /\ stamp' \in [Item -> BOOLEAN]
      /\ \A j \in Item \ {i} : status'[j] = status[j]
      /\ status'[i] \in {s, status[i]}
  BY StatusSet
<1>2. StatusOK
  BY DEF DeskTypeOK, StatusOK
<1> QED
  BY <1>1, <1>2, StatusTyped

\* The types of the desk: every step.
LEMMA DeskTyped ==
  ASSUME DeskInv, DeskTypeOK, NEW t \in Call, DeskStep(t)
  PROVE  DeskTypeOK'
<1> USE DEF DeskTypeOK
<1>0. StatusOK
  BY DEF StatusOK
<1>1. CASE UNCHANGED deskVars
  <2>1. UNCHANGED <<status, stamp, author, setter, reopened, row, new, shown>>
    BY <1>1 DEF deskVars, deskRows
  <2> QED
    BY <2>1
<1>2. ASSUME NEW u \in User, StartFile(t, u) \/ StartList(t, u) PROVE UNCHANGED deskVars
  BY <1>2 DEF StartFile, StartList
<1>3. ASSUME NEW u \in User, NEW k \in Ticket, NEW s \in {"open", "closed"}, StartDecide(t, u, k, s)
      PROVE  DeskTypeOK'
  <2>1. UNCHANGED <<status, stamp, author, setter, reopened, shown>>
    BY <1>3 DEF StartDecide, deskRows
  <2>2. row' \in [Call -> Ticket \cup {None}] /\ new' \in [Call -> TicketStatus \cup {None}]
    BY <1>3 DEF StartDecide, TicketStatus
  <2> QED
    BY <2>1, <2>2
<1>4. CASE ReadRoleToChoose(t)
  <2>1. UNCHANGED <<status, stamp, author, setter, reopened, row, shown>>
    BY <1>4 DEF ReadRoleToChoose, deskRows
  <2>2. new' \in [Call -> TicketStatus \cup {None}]
    BY <1>4 DEF ReadRoleToChoose, TicketStatus
  <2> QED
    BY <2>1, <2>2
<1>5. CASE ListTickets(t)
  <2>1. UNCHANGED <<status, stamp, author, setter, reopened>>
    BY <1>5 DEF ListTickets, deskRows
  <2>2. /\ shown' \in [Call -> SUBSET Ticket]
        /\ row' \in [Call -> Ticket \cup {None}] /\ new' \in [Call -> TicketStatus \cup {None}]
    BY <1>5 DEF ListTickets, Visible, Forget
  <2> QED
    BY <2>1, <2>2
<1>6. CASE CountTickets(t) \/ MayDecide(t) \/ CheckPending(t)
  BY <1>1, <1>6 DEF CountTickets, MayDecide, CheckPending
<1>7. CASE UpdateDecided(t)
  <2>1. row[t] \in Ticket /\ row[t] \in Item /\ new[t] \in {"open", "closed"} /\ user[t] \in User
    BY <1>7 DEF UpdateDecided, DeskInv, Granted, Item
  <2>2. row[t] \notin Pass /\ row[t] \notin Package /\ new[t] # None
    BY <2>1, DeskAssumption
  <2>3. /\ SetStatus(row[t], new[t]) /\ UNCHANGED <<author, shown>>
        /\ row' \in [Call -> Ticket \cup {None}] /\ new' \in [Call -> TicketStatus \cup {None}]
        /\ setter' \in [Ticket -> User \cup {None}] /\ reopened' \subseteq Ticket
    BY <1>7, <2>1 DEF UpdateDecided, Forget
  <2>4. StatusOK' /\ stamp' \in [Item -> BOOLEAN]
    BY <2>1, <2>2, <2>3, SetTyped DEF TicketStatus
  <2> QED
    BY <2>3, <2>4 DEF StatusOK
<1>8. ASSUME NEW k \in Ticket, InsertTicket(t, k) PROVE DeskTypeOK'
  <2>1. k \in Item /\ k \notin Pass /\ k \notin Package
    BY DeskAssumption DEF Item
  <2>2. user[t] \in User /\ new[t] \in {"open", "pending_approval"}
    BY <1>8 DEF InsertTicket, DeskInv, Granted
  <2>3. /\ UNCHANGED <<stamp, reopened, shown>>
        /\ row' \in [Call -> Ticket \cup {None}] /\ new' \in [Call -> TicketStatus \cup {None}]
        /\ author' \in [Ticket -> User \cup {None}] /\ setter' \in [Ticket -> User \cup {None}]
    BY <1>8, <2>2 DEF InsertTicket, Forget
  <2>4. (\A j \in Item \ {k} : status'[j] = status[j]) /\ status'[k] = new[t]
    BY <1>8, <2>1 DEF InsertTicket, DeskInv, DeskShape
  <2>5. StatusOK'
    BY <1>0, <2>1, <2>2, <2>4, StatusTyped DEF TicketStatus
  <2> QED
    BY <2>3, <2>5 DEF StatusOK
<1>9. ASSUME NEW k \in Ticket, NEW s \in TicketStatus, UpdateRequest(t, k, s) PROVE DeskTypeOK'
  <2>1. k \in Item /\ k \notin Pass /\ k \notin Package /\ s # None
    BY DeskAssumption DEF Item, TicketStatus
  <2>2. user[t] \in User
    BY <1>9 DEF UpdateRequest, DeskInv, Granted
  <2>3. /\ SetStatus(k, s) /\ UNCHANGED <<author, row, new, shown>>
        /\ setter' \in [Ticket -> User \cup {None}] /\ reopened' \subseteq Ticket
    BY <1>9, <2>2 DEF UpdateRequest
  <2>4. StatusOK' /\ stamp' \in [Item -> BOOLEAN]
    BY <2>1, <2>3, SetTyped
  <2> QED
    BY <2>3, <2>4 DEF StatusOK
<1>10. ASSUME NEW k \in Ticket, DeleteRequest(t, k) PROVE DeskTypeOK'
  <2>1. k \in Item /\ k \notin Pass /\ k \notin Package
    BY DeskAssumption DEF Item
  <2>2. UNCHANGED <<stamp, author, setter, reopened, row, new, shown>>
    BY <1>10 DEF DeleteRequest
  <2>3. (\A j \in Item \ {k} : status'[j] = status[j]) /\ status'[k] = "gone"
    BY <1>10, <2>1 DEF DeleteRequest, DeskInv, DeskShape
  <2>4. StatusOK'
    BY <1>0, <2>1, <2>3, StatusTyped
  <2> QED
    BY <2>2, <2>4 DEF StatusOK
<1>11. ASSUME NEW i \in Item, CreatePass(t, i) \/ CreatePackage(t, i) PROVE DeskTypeOK'
  <2>1. PICK s : /\ Insert(t, i, s) /\ i \notin Ticket
                 /\ i \in Pass => s \in PassStatus
                 /\ i \in Package => s \in PackStatus
    BY <1>11, DeskAssumption DEF CreatePass, CreatePackage, PassStatus, PackStatus
  <2>2. /\ UNCHANGED <<stamp, author, setter, reopened, row, new, shown>>
        /\ (\A j \in Item \ {i} : status'[j] = status[j]) /\ status'[i] = s
    BY <2>1 DEF Insert, DeskInv, DeskShape
  <2>3. StatusOK'
    BY <1>0, <2>1, <2>2, StatusTyped
  <2> QED
    BY <2>2, <2>3 DEF StatusOK
<1>12. ASSUME NEW i \in Item, \/ CheckIn(t, i) \/ CheckOut(t, i) \/ CancelPass(t, i)
                              \/ PickUp(t, i) \/ Notify(t, i)
       PROVE  DeskTypeOK'
  <2>1. PICK s : /\ Update(t, i, s) /\ i \notin Ticket /\ s # None
                 /\ i \in Pass => s \in PassStatus
                 /\ i \in Package => s \in PackStatus
    BY <1>12, DeskAssumption
       DEF CheckIn, CheckOut, CancelPass, PickUp, Notify, PassStatus, PackStatus
  <2>2. SetStatus(i, s) /\ UNCHANGED <<author, setter, reopened, row, new, shown>>
    BY <2>1 DEF Update
  <2>3. StatusOK' /\ stamp' \in [Item -> BOOLEAN]
    BY <2>1, <2>2, SetTyped
  <2> QED
    BY <2>2, <2>3 DEF StatusOK
<1> QED
  BY <1>1, <1>2, <1>3, <1>4, <1>5, <1>6, <1>7, <1>8, <1>9, <1>10, <1>11, <1>12 DEF DeskStep

\* What the units have paid, in any shape of the payments.
LEMMA PaidTyped ==
  ASSUME NEW pay \in [Plan -> [Unit -> 0 .. MaxAmount]]
  PROVE  /\ \A p \in Plan : PaidFor(pay, p) \in Nat
         /\ \A period \in SUBSET Plan : PaidIn(pay, period) \in Nat
<1>1. ASSUME NEW p \in Plan PROVE PaidFor(pay, p) \in Nat
  <2>1. DOMAIN pay[p] = Unit
    OBVIOUS
  <2> QED
    BY <2>1, TotalFinite, LedgerAssumption DEF PaidFor
<1>2. ASSUME NEW period \in SUBSET Plan PROVE PaidIn(pay, period) \in Nat
  <2> DEFINE paidOf == [x \in period \X Unit |-> pay[x[1]][x[2]]]
  <2>1. IsFiniteSet(period \X Unit)
    BY FS_Subset, FS_Product, LedgerAssumption
  <2>2. DOMAIN paidOf = period \X Unit /\ PaidIn(pay, period) = Total(paidOf)
    BY DEF PaidIn
  <2> HIDE DEF paidOf
  <2> QED
    BY <2>1, <2>2, TotalFinite
<1> QED
  BY <1>1, <1>2

\* A step that leaves the ledger alone keeps its invariant, whoever takes it, unless the
\* call that takes it claims to have read the ledger.
LEMMA BesideKeeps ==
  ASSUME LedgerInv, NEW t \in Call, UNCHANGED ledgerVars, CallsTypeOK', DeskTypeOK',
         \A s \in Call \ {t} : stage'[s] = stage[s] /\ kind'[s] = kind[s],
         stale \subseteq stale', Claims(t)',
         stage'[t] \notin {"due", "occupied", "requests"},
         stage'[t] = "done" => kind'[t] \notin {"report", "dashboard"}
  PROVE  LedgerInv'
<1>1. UNCHANGED <<amount, current, paid, occupancy, overpaid, result>>
  BY DEF ledgerVars, ledgerRows
<1>2. ServicesTypeOK'
  BY <1>1 DEF LedgerInv, ServicesTypeOK, LedgerTypeOK
<1>3. Covered'
  BY <1>1 DEF LedgerInv, Covered, PaidFor, Total
<1>4. ASSUME NEW s \in Call PROVE Claims(s)' /\ Current(s)'
  <2>1. CASE s = t
    BY <2>1 DEF Current
  <2>2. CASE s # t
    <3>1. Claims(s) /\ Current(s) /\ stage'[s] = stage[s] /\ kind'[s] = kind[s]
      BY <2>2 DEF LedgerInv
    <3> QED
      BY <1>1, <3>1 DEF Claims, Current, PaidIn, Total
  <2> QED
    BY <2>1, <2>2
<1>5. DifferencesExplained'
  BY <1>1 DEF LedgerInv, DifferencesExplained, PendingExplained, VacantAddsUp
<1> QED
  BY <1>2, <1>3, <1>4, <1>5 DEF LedgerInv

\* The statements of the other calls.
LEMMA BesideSteps ==
  ASSUME LedgerInv, DeskInv, NEW t \in Call, UNCHANGED ledgerVars, DeskTypeOK'
  PROVE  /\ \A step \in Claiming \cup {"done"} :
              stage[t] \in Claiming /\ Move(t, step) => LedgerInv'
         /\ \A readers \in SUBSET Call : Wrote(t, readers) => LedgerInv'
         /\ \A u \in User, k \in {"manage", "decide", "file", "list"} :
              Begin(t, u, k, "role") => LedgerInv'
         /\ Begin(t, None, "report", "payments") => LedgerInv'
         /\ Begin(t, None, "dashboard", "units") => LedgerInv'
         /\ Break(t) => LedgerInv'
<1>0. CallsTypeOK /\ Claims(t) /\ DeskShape
  BY DEF LedgerInv, ServicesTypeOK, DeskInv
<1>1. ASSUME NEW step \in Claiming \cup {"done"}, stage[t] \in Claiming, Move(t, step)
      PROVE  LedgerInv'
  <2>1. /\ stage'[t] = step /\ \A s \in Call \ {t} : stage'[s] = stage[s]
        /\ kind' = kind /\ stale' = stale
    BY <1>0, <1>1, Moved
  <2>2. CallsTypeOK'
    BY <1>0, <1>1, CallsTyped DEF Stages, Claiming
  <2>3. Claims(t)' /\ (stage'[t] = "done" => kind'[t] \notin {"report", "dashboard"})
    BY <1>0, <1>1, <2>1 DEF Claims, Claiming
  <2> QED
    BY <1>1, <2>1, <2>2, <2>3, BesideKeeps DEF Claiming
<1>2. ASSUME NEW readers \in SUBSET Call, Wrote(t, readers) PROVE LedgerInv'
  <2>1. /\ stage'[t] = "done" /\ kind'[t] = None
        /\ \A s \in Call \ {t} : stage'[s] = stage[s] /\ kind'[s] = kind[s]
        /\ stale \subseteq stale'
    BY <1>0, <1>2, Written
  <2>2. CallsTypeOK' /\ Claims(t)'
    BY <1>0, <1>2, <2>1, CallsTyped DEF Claims, Claiming
  <2> QED
    BY <2>1, <2>2, BesideKeeps, CallsAssumption
<1>3. ASSUME NEW u \in User \cup {None},
             NEW k \in {"manage", "decide", "file", "list", "report", "dashboard"},
             NEW step \in {"role", "payments", "units"}, Begin(t, u, k, step),
             step = "role" <=> k \notin {"report", "dashboard"},
             step = "payments" => k = "report", step = "units" => k = "dashboard"
      PROVE  LedgerInv'
  <2>1. /\ stage'[t] = step /\ kind'[t] = k /\ stale' = stale
        /\ \A s \in Call \ {t} : stage'[s] = stage[s] /\ kind'[s] = kind[s]
    BY <1>0, <1>3, Began
  <2>2. CallsTypeOK'
    BY <1>0, <1>3, CallsTyped DEF Stages
  <2>3. Claims(t)'
    BY <1>3, <2>1 DEF Claims, Claiming
  <2> QED
    BY <1>3, <2>1, <2>2, <2>3, BesideKeeps
<1>4. ASSUME Break(t) PROVE LedgerInv'
  <2>1. /\ stage'[t] = "done" /\ kind'[t] = None /\ stale' = stale
        /\ \A s \in Call \ {t} : stage'[s] = stage[s] /\ kind'[s] = kind[s]
    BY <1>0, <1>4 DEF DeskShape, Break, End, Reach
  <2>2. CallsTypeOK' /\ Claims(t)'
    BY <1>0, <1>4, <2>1, CallsTyped DEF Claims, Claiming
  <2> QED
    BY <2>1, <2>2, BesideKeeps, CallsAssumption
<1> QED
  BY <1>1, <1>2, <1>3, <1>4

\* A step of the desk leaves the ledger's invariant.
LEMMA DeskLeavesLedger ==
  ASSUME LedgerInv, DeskInv, NEW t \in Call, DeskStep(t), UNCHANGED ledgerVars
  PROVE  LedgerInv'
<1>1. DeskTypeOK'
  BY DeskTyped DEF LedgerInv, ServicesTypeOK
<1>2. ASSUME NEW u \in User, StartFile(t, u) \/ StartList(t, u) PROVE LedgerInv'
  BY <1>1, <1>2, BesideSteps DEF StartFile, StartList
<1>3. ASSUME NEW u \in User, NEW k \in Ticket, NEW s \in {"open", "closed"}, StartDecide(t, u, k, s)
      PROVE  LedgerInv'
  BY <1>1, <1>3, BesideSteps DEF StartDecide
<1>4. CASE \/ ReadRoleToChoose(t) \/ CountTickets(t) \/ ListTickets(t)
           \/ MayDecide(t) \/ CheckPending(t)
  <2>1. stage[t] \in Claiming /\ \E step \in Claiming \cup {"done"} : Move(t, step)
    BY <1>4 DEF ReadRoleToChoose, CountTickets, ListTickets, MayDecide, CheckPending, Claiming
  <2> QED
    BY <1>1, <2>1, BesideSteps
<1>5. ASSUME NEW readers \in SUBSET Call, Wrote(t, readers) PROVE LedgerInv'
  BY <1>1, <1>5, BesideSteps
<1>6. \A k : Deciders(k) \in SUBSET Call
  BY DEF Deciders
<1>7. CASE UpdateDecided(t)
  BY <1>5, <1>6, <1>7 DEF UpdateDecided
<1>8. ASSUME NEW k \in Ticket, NEW s,
             InsertTicket(t, k) \/ DeleteRequest(t, k) \/ UpdateRequest(t, k, s)
      PROVE  LedgerInv'
  BY <1>5, <1>6, <1>8 DEF InsertTicket, DeleteRequest, UpdateRequest
<1>9. ASSUME NEW i \in Item, CreatePass(t, i) \/ CreatePackage(t, i) PROVE LedgerInv'
  BY <1>5, <1>9 DEF CreatePass, CreatePackage, Insert
<1>10. ASSUME NEW i \in Item, \/ CheckIn(t, i) \/ CheckOut(t, i) \/ CancelPass(t, i)
                              \/ PickUp(t, i) \/ Notify(t, i)
       PROVE  LedgerInv'
  BY <1>5, <1>10 DEF CheckIn, CheckOut, CancelPass, PickUp, Notify, Update
<1> QED
  BY <1>2, <1>3, <1>4, <1>7, <1>8, <1>9, <1>10 DEF DeskStep

\* A write to plans and payments makes those stale who add up, and a payment beyond the
\* amount of a plan of the period is remembered.
LEMMA StoreKeeps ==
  ASSUME LedgerInv, DeskInv, NEW t \in Call, UNCHANGED deskVars,
         NEW plans \in [Plan -> Amount \cup {None}],
         NEW period \in SUBSET {p \in Plan : plans[p] # None},
         NEW pay \in [Plan -> [Unit -> 0 .. MaxAmount]], Store(t, plans, period, pay)
  PROVE  LedgerInv'
<1>1. /\ amount' = plans /\ current' = period /\ paid' = pay
      /\ overpaid' = (overpaid \/ \E p \in period : PaidFor(pay, p) > plans[p])
      /\ Wrote(t, Readers("due")) /\ occupancy' = occupancy /\ result' = result
  BY DEF Store
<1>2. /\ CallsTypeOK /\ DeskTypeOK /\ LedgerTypeOK /\ DeskShape /\ Readers("due") \in SUBSET Call
  BY DEF LedgerInv, ServicesTypeOK, DeskInv, Readers
<1>3. /\ stage'[t] = "done" /\ kind'[t] = None
      /\ \A s \in Call \ {t} : stage'[s] = stage[s] /\ kind'[s] = kind[s]
      /\ stale \subseteq stale' /\ \A s \in Readers("due") \ {t} : Open(s) => s \in stale'
  BY <1>1, <1>2, Written
<1>4. overpaid' \in BOOLEAN /\ (overpaid => overpaid')
  BY <1>1, <1>2, Zenon DEF LedgerTypeOK
<1>5. ServicesTypeOK'
  <2>1. CallsTypeOK'
    BY <1>1, <1>2, CallsTyped
  <2>2. DeskTypeOK'
    BY <1>2 DEF DeskTypeOK, deskVars, deskRows
  <2>3. LedgerTypeOK'
    BY <1>1, <1>2, <1>4 DEF LedgerTypeOK
  <2> QED
    BY <2>1, <2>2, <2>3 DEF ServicesTypeOK
<1>6. Covered'
  <2> SUFFICES ASSUME ~overpaid', NEW p \in period PROVE PaidFor(pay, p) <= plans[p]
    BY <1>1 DEF Covered, PaidFor, Total
  <2>1. ~(PaidFor(pay, p) > plans[p])
    BY <1>1, Zenon
  <2>2. PaidFor(pay, p) \in Nat /\ plans[p] \in Nat
    BY PaidTyped DEF Amount
  <2> QED
    BY <2>1, <2>2
<1>7. ASSUME NEW s \in Call PROVE Claims(s)' /\ Current(s)'
  <2>1. CASE s = t
    BY <1>3, <2>1, CallsAssumption DEF Claims, Current, Claiming
  <2>2. CASE s # t
    <3>1. Claims(s) /\ Current(s) /\ stage'[s] = stage[s] /\ kind'[s] = kind[s]
      BY <1>3, <2>2 DEF LedgerInv
    <3>2. stage[s] = "due" => s \in stale'
      BY <1>3, <2>2 DEF Readers, Open
    <3> QED
      BY <1>1, <1>3, <3>1, <3>2 DEF Claims, Current
  <2> QED
    BY <2>1, <2>2
<1>8. DifferencesExplained'
  <2>1. PendingExplained'
    BY <1>1, <1>3, <1>4, CallsAssumption DEF LedgerInv, DifferencesExplained, PendingExplained
  <2>2. VacantAddsUp'
    BY <1>1, <1>3, CallsAssumption DEF LedgerInv, DifferencesExplained, VacantAddsUp
  <2> QED
    BY <2>1, <2>2 DEF DifferencesExplained
<1> QED
  BY <1>5, <1>6, <1>7, <1>8 DEF LedgerInv

\* A write to the units makes those stale who count them; payments can only go with them.
LEMMA UnitsKeep ==
  ASSUME LedgerInv, DeskInv, NEW t \in Call, UNCHANGED deskVars,
         UNCHANGED <<amount, current, overpaid, result>>,
         occupancy' \in [Unit -> {"occupied", "vacant", "maintenance", None}],
         paid' \in [Plan -> [Unit -> 0 .. MaxAmount]],
         \A p \in Plan, u \in Unit : paid'[p][u] <= paid[p][u],
         NEW readers \in SUBSET Call, Wrote(t, readers), Readers("occupied") \subseteq readers,
         paid' = paid \/ Readers("due") \subseteq readers
  PROVE  LedgerInv'
<1>1. /\ CallsTypeOK /\ DeskTypeOK /\ LedgerTypeOK /\ DeskShape
  BY DEF LedgerInv, ServicesTypeOK, DeskInv
<1>2. /\ stage'[t] = "done" /\ kind'[t] = None
      /\ \A s \in Call \ {t} : stage'[s] = stage[s] /\ kind'[s] = kind[s]
      /\ stale \subseteq stale' /\ \A s \in readers \ {t} : Open(s) => s \in stale'
  BY <1>1, Written
<1>3. ServicesTypeOK'
  <2>1. CallsTypeOK'
    BY <1>1, CallsTyped
  <2>2. DeskTypeOK'
    BY <1>1 DEF DeskTypeOK, deskVars, deskRows
  <2>3. LedgerTypeOK'
    BY <1>1 DEF LedgerTypeOK
  <2> QED
    BY <2>1, <2>2, <2>3 DEF ServicesTypeOK
<1>4. Covered'
  <2> SUFFICES ASSUME ~overpaid, NEW p \in current PROVE PaidFor(paid', p) <= amount[p]
    BY DEF Covered, PaidFor, Total
  <2>1. p \in Plan /\ PaidFor(paid, p) <= amount[p] /\ amount[p] \in Amount
    BY <1>1 DEF LedgerInv, Covered, LedgerTypeOK
  <2>2. paid[p] \in [Unit -> 0 .. MaxAmount] /\ paid'[p] \in [Unit -> 0 .. MaxAmount]
    BY <1>1, <2>1 DEF LedgerTypeOK
  <2>3. PaidFor(paid', p) <= PaidFor(paid, p)
    BY <2>1, <2>2, TotalGrows, LedgerAssumption DEF PaidFor
  <2>4. PaidFor(paid, p) \in Nat /\ PaidFor(paid', p) \in Nat /\ amount[p] \in Nat
    BY <1>1, <2>1, PaidTyped DEF Amount, LedgerTypeOK
  <2> QED
    BY <2>1, <2>3, <2>4
<1>5. ASSUME NEW s \in Call PROVE Claims(s)' /\ Current(s)'
  <2>1. CASE s = t
    BY <1>2, <2>1, CallsAssumption DEF Claims, Current, Claiming
  <2>2. CASE s # t
    <3>1. Claims(s) /\ Current(s) /\ stage'[s] = stage[s] /\ kind'[s] = kind[s]
      BY <1>2, <2>2 DEF LedgerInv
    <3>2. stage[s] = "occupied" => s \in stale'
      BY <1>2, <2>2 DEF Readers, Open
    <3>3. stage[s] = "due" => s \in stale' \/ paid' = paid
      BY <1>2, <2>2 DEF Readers, Open
    <3> QED
      BY <1>2, <3>1, <3>2, <3>3 DEF Claims, Current
  <2> QED
    BY <2>1, <2>2
<1>6. DifferencesExplained'
  <2>1. PendingExplained'
    BY <1>2, CallsAssumption DEF LedgerInv, DifferencesExplained, PendingExplained
  <2>2. VacantAddsUp'
    BY <1>2, CallsAssumption DEF LedgerInv, DifferencesExplained, VacantAddsUp
  <2> QED
    BY <2>1, <2>2 DEF DifferencesExplained
<1> QED
  BY <1>3, <1>4, <1>5, <1>6 DEF LedgerInv

\* A call that reads the ledger keeps the invariant if what it computes agrees with it.
LEMMA ReadKeeps ==
  ASSUME LedgerInv, DeskInv, NEW t \in Call, UNCHANGED deskVars, UNCHANGED ledgerRows,
         NEW step \in Stages, Move(t, step), NEW x \in Int, result' = [result EXCEPT ![t] = x],
         Claims(t)', Current(t)',
         step = "done" /\ x < 0 => /\ kind[t] = "report" => overpaid \/ t \in stale
                                   /\ kind[t] = "dashboard" => t \in stale
  PROVE  LedgerInv'
<1>1. CallsTypeOK /\ DeskTypeOK /\ LedgerTypeOK /\ DeskShape
  BY DEF LedgerInv, ServicesTypeOK, DeskInv
<1>2. /\ stage'[t] = step /\ \A s \in Call \ {t} : stage'[s] = stage[s]
      /\ UNCHANGED <<kind, stale>>
  BY <1>1, Moved
<1>3. UNCHANGED <<amount, current, paid, occupancy, overpaid>>
  BY DEF ledgerRows
<1>4. /\ result' \in [Call -> Int] /\ result'[t] = x
      /\ \A s \in Call \ {t} : result'[s] = result[s]
  BY <1>1 DEF LedgerTypeOK
<1>5. ServicesTypeOK'
  <2>1. CallsTypeOK'
    BY <1>1, CallsTyped
  <2>2. DeskTypeOK'
    BY <1>1 DEF DeskTypeOK, deskVars, deskRows
  <2>3. LedgerTypeOK'
    BY <1>1, <1>3, <1>4 DEF LedgerTypeOK
  <2> QED
    BY <2>1, <2>2, <2>3 DEF ServicesTypeOK
<1>6. Covered'
  BY <1>3 DEF LedgerInv, Covered, PaidFor, Total
<1>7. ASSUME NEW s \in Call PROVE Claims(s)' /\ Current(s)'
  <2>1. CASE s = t
    BY <2>1
  <2>2. CASE s # t
    <3>1. /\ Claims(s) /\ Current(s) /\ stage'[s] = stage[s] /\ kind'[s] = kind[s]
          /\ result'[s] = result[s]
      BY <1>2, <1>4, <2>2 DEF LedgerInv
    <3> QED
      BY <1>2, <1>3, <3>1 DEF Claims, Current, PaidIn, Total
  <2> QED
    BY <2>1, <2>2
<1>8. DifferencesExplained'
  <2>1. PendingExplained'
    BY <1>2, <1>3, <1>4 DEF LedgerInv, DifferencesExplained, PendingExplained
  <2>2. VacantAddsUp'
    BY <1>2, <1>4 DEF LedgerInv, DifferencesExplained, VacantAddsUp
  <2> QED
    BY <2>1, <2>2 DEF DifferencesExplained
<1> QED
  BY <1>5, <1>6, <1>7, <1>8 DEF LedgerInv

\* The two statements of a report: what is due less what is paid is negative only if
\* somebody paid too much, or the call is stale.
LEMMA ReportKeeps ==
  ASSUME LedgerInv, DeskInv, NEW t \in Call, UNCHANGED deskVars, ReadPayments(t) \/ ReadDue(t)
  PROVE  LedgerInv'
<1>1. CallsTypeOK /\ LedgerTypeOK /\ DeskShape /\ Claims(t) /\ Current(t)
  BY DEF LedgerInv, ServicesTypeOK, DeskInv
<1>2. /\ PaidIn(paid, current) \in Nat
      /\ current \in SUBSET {p \in Plan : amount[p] # None} /\ current \in SUBSET Plan
  BY <1>1, PaidTyped DEF LedgerTypeOK
<1>3. CASE ReadPayments(t)
  <2> DEFINE x == -PaidIn(paid, current)
  <2>1. /\ stage[t] = "payments" /\ Move(t, "due") /\ UNCHANGED ledgerRows
        /\ result' = [result EXCEPT ![t] = x]
    BY <1>3 DEF ReadPayments
  <2>2. /\ stage'[t] = "due" /\ kind'[t] = "report" /\ result'[t] = -PaidIn(paid, current)
        /\ paid' = paid /\ current' = current
    BY <1>1, <2>1, Moved DEF Claims, ledgerRows, LedgerTypeOK
  <2>3. Claims(t)' /\ Current(t)'
    BY <2>2 DEF Claims, Current, Claiming, PaidIn, Total
  <2>4. x \in Int /\ "due" \in Stages /\ "due" # "done"
    BY <1>2 DEF Stages
  <2> HIDE DEF x
  <2> QED
    BY <2>1, <2>3, <2>4, ReadKeeps
<1>4. CASE ReadDue(t)
  <2> DEFINE due == Total([p \in current |-> amount[p]])
             x == result[t] + due
  <2>1. /\ stage[t] = "due" /\ Move(t, "done") /\ UNCHANGED ledgerRows
        /\ result' = [result EXCEPT ![t] = x]
    BY <1>1, <1>4 DEF ReadDue, LedgerTypeOK
  <2>2. due \in Nat /\ x \in Int
    <3>1. IsFiniteSet(current)
      BY <1>2, FS_Subset, LedgerAssumption
    <3>2. DOMAIN [p \in current |-> amount[p]] = current
      OBVIOUS
    <3>3. due \in Nat
      BY <3>1, <3>2, TotalFinite
    <3> HIDE DEF due
    <3> QED
      BY <1>1, <3>3 DEF LedgerTypeOK
  <2>3. ASSUME x < 0 PROVE overpaid \/ t \in stale
    <3> SUFFICES ASSUME ~overpaid, t \notin stale PROVE FALSE
      OBVIOUS
    <3>1. result[t] = -PaidIn(paid, current)
      BY <1>1, <2>1 DEF Current
    <3>2. \A p \in current : PaidFor(paid, p) <= amount[p]
      BY DEF LedgerInv, Covered
    <3>3. PaidIn(paid, current) <= due
      BY <1>1, <1>2, <3>2, CoveredSums DEF LedgerTypeOK
    <3> HIDE DEF due
    <3> QED
      BY <1>2, <2>2, <2>3, <3>1, <3>3
  <2>4. Claims(t)' /\ Current(t)' /\ kind[t] = "report"
    BY <1>1, <2>1, Moved DEF Claims, Current, Claiming
  <2> HIDE DEF x
  <2> QED
    BY <2>1, <2>2, <2>3, <2>4, ReadKeeps DEF Stages
<1> QED
  BY <1>3, <1>4

\* The statements of a dashboard: no more units are occupied than there are.
LEMMA DashboardKeeps ==
  ASSUME LedgerInv, DeskInv, NEW t \in Call, UNCHANGED deskVars, DashboardStep(t)
  PROVE  LedgerInv'
<1> DEFINE Units == {u \in Unit : occupancy[u] # None}
           Occupied == {u \in Unit : occupancy[u] = "occupied"}
<1>1. CallsTypeOK /\ LedgerTypeOK /\ DeskShape /\ Claims(t) /\ Current(t)
  BY DEF LedgerInv, ServicesTypeOK, DeskInv
<1>2. /\ Cardinality(Units) \in Nat /\ Cardinality(Occupied) \in Nat
      /\ Cardinality(Occupied) <= Cardinality(Units)
  <2>1. IsFiniteSet(Units) /\ Occupied \in SUBSET Units
    BY FS_Subset, LedgerAssumption
  <2>2. IsFiniteSet(Occupied) /\ Cardinality(Occupied) <= Cardinality(Units)
    BY <2>1, FS_Subset
  <2> QED
    BY <2>1, <2>2, FS_CardinalityType
<1>3. CASE CountUnits(t) /\ UNCHANGED ledgerRows
  <2>1. /\ stage[t] = "units" /\ Move(t, "occupied")
        /\ result' = [result EXCEPT ![t] = Cardinality(Units)]
    BY <1>3 DEF CountUnits
  <2>2. /\ stage'[t] = "occupied" /\ kind'[t] = "dashboard" /\ result'[t] = Cardinality(Units)
        /\ occupancy' = occupancy
    BY <1>1, <1>3, <2>1, Moved DEF Claims, ledgerRows, LedgerTypeOK
  <2>3. Claims(t)' /\ Current(t)'
    BY <2>2 DEF Claims, Current, Claiming
  <2> QED
    BY <1>2, <1>3, <2>1, <2>3, ReadKeeps DEF Stages
<1>4. CASE CountOccupied(t) /\ UNCHANGED ledgerRows
  <2> DEFINE x == result[t] - Cardinality(Occupied)
  <2>1. /\ stage[t] = "occupied" /\ Move(t, "requests")
        /\ result' = [result EXCEPT ![t] = x]
    BY <1>1, <1>4 DEF CountOccupied, LedgerTypeOK
  <2>2. x \in Int /\ (t \notin stale => x >= 0)
    BY <1>1, <1>2, <2>1 DEF Current, LedgerTypeOK
  <2>3. /\ stage'[t] = "requests" /\ kind'[t] = "dashboard" /\ result'[t] = x /\ stale' = stale
    BY <1>1, <2>1, Moved DEF Claims, LedgerTypeOK
  <2> HIDE DEF x
  <2>4. Claims(t)' /\ Current(t)'
    BY <2>2, <2>3 DEF Claims, Current, Claiming
  <2> QED
    BY <1>4, <2>1, <2>2, <2>4, ReadKeeps DEF Stages
<1>5. CASE CountOpen(t) /\ UNCHANGED ledgerVars
  <2>1. stage[t] = "requests" /\ Move(t, "done") /\ UNCHANGED ledgerRows /\ result' = result
    BY <1>5 DEF CountOpen, ledgerVars
  <2>2. result' = [result EXCEPT ![t] = result[t]] /\ result[t] \in Int
    BY <1>1, <2>1 DEF LedgerTypeOK
  <2>3. kind[t] = "dashboard" /\ (t \notin stale => result[t] >= 0)
    BY <1>1, <2>1 DEF Claims, Current
  <2>4. Claims(t)' /\ Current(t)' /\ "done" \in Stages
    BY <1>1, <2>1, <2>3, Moved DEF Claims, Current, Claiming, Stages
  <2>5. PICK x \in Int : x = result[t]
    BY <2>2
  <2>6. x < 0 => /\ kind[t] = "report" => overpaid \/ t \in stale
                 /\ kind[t] = "dashboard" => t \in stale
    BY <2>3, <2>5
  <2> QED
    BY <2>1, <2>2, <2>4, <2>5, <2>6, ReadKeeps
<1> QED
  BY <1>3, <1>4, <1>5 DEF DashboardStep

\* Every step of the ledger.
LEMMA LedgerStepKeeps ==
  ASSUME LedgerInv, DeskInv, NEW t \in Call, UNCHANGED deskVars, LedgerStep(t)
  PROVE  LedgerInv'
<1>1. DeskTypeOK /\ LedgerTypeOK
  BY DEF LedgerInv, ServicesTypeOK
<1>2. DeskTypeOK'
  BY <1>1 DEF DeskTypeOK, deskVars, deskRows
<1>3. ASSUME StartReport(t) PROVE LedgerInv'
  BY <1>2, <1>3, BesideSteps DEF StartReport
<1>4. CASE ReadPayments(t) \/ ReadDue(t)
  BY <1>4, ReportKeeps
<1>5. ASSUME NEW p \in Plan, DeleteDues(t, p) PROVE LedgerInv'
  <2>1. [amount EXCEPT ![p] = None] \in [Plan -> Amount \cup {None}]
    BY <1>1 DEF LedgerTypeOK
  <2>2. current \ {p} \in SUBSET {q \in Plan : [amount EXCEPT ![p] = None][q] # None}
    BY <1>1 DEF LedgerTypeOK
  <2>3. [paid EXCEPT ![p] = [u \in Unit |-> 0]] \in [Plan -> [Unit -> 0 .. MaxAmount]]
    BY <1>1, LedgerAssumption DEF LedgerTypeOK
  <2> QED
    BY <1>5, <2>1, <2>2, <2>3, StoreKeeps DEF DeleteDues
<1>6. ASSUME NEW p \in Plan, NEW x \in Amount, CreateDues(t, p, x) \/ UpdateDues(t, p, x)
      PROVE  LedgerInv'
  <2> DEFINE plans == [amount EXCEPT ![p] = x]
  <2>1. plans \in [Plan -> Amount \cup {None}] /\ paid \in [Plan -> [Unit -> 0 .. MaxAmount]]
    BY <1>1 DEF LedgerTypeOK
  <2>2. PICK period \in {current, current \cup {p}, current \ {p}} : Store(t, plans, period, paid)
    BY <1>6 DEF CreateDues, UpdateDues
  <2>3. x # None
    BY LedgerAssumption DEF Amount
  <2>4. period \in SUBSET {q \in Plan : plans[q] # None}
    BY <1>1, <2>2, <2>3 DEF LedgerTypeOK
  <2> QED
    BY <2>1, <2>2, <2>4, StoreKeeps
<1>7. ASSUME NEW p \in Plan, NEW u \in Unit, NEW x \in Amount, PayDues(t, p, u, x) PROVE LedgerInv'
  <2> DEFINE pay == [paid EXCEPT ![p][u] = x]
  <2>1. /\ amount \in [Plan -> Amount \cup {None}]
        /\ current \in SUBSET {q \in Plan : amount[q] # None}
    BY <1>1 DEF LedgerTypeOK
  <2>2. pay \in [Plan -> [Unit -> 0 .. MaxAmount]]
    BY <1>1, LedgerAssumption DEF LedgerTypeOK, Amount
  <2> QED
    BY <1>7, <2>1, <2>2, StoreKeeps DEF PayDues
<1>8. Readers("due") \in SUBSET Call /\ Readers("occupied") \in SUBSET Call
  BY DEF Readers
<1>9. ASSUME NEW u \in Unit, NEW s \in {"occupied", "vacant", "maintenance"},
             CreateUnit(t, u, s) \/ UpdateUnit(t, u, s)
      PROVE  LedgerInv'
  <2>1. /\ occupancy' = [occupancy EXCEPT ![u] = s] /\ paid' = paid
        /\ Wrote(t, Readers("occupied")) /\ UNCHANGED <<amount, current, overpaid, result>>
    BY <1>9 DEF CreateUnit, UpdateUnit
  <2>2. occupancy' \in [Unit -> {"occupied", "vacant", "maintenance", None}]
    BY <1>1, <2>1 DEF LedgerTypeOK
  <2>3. /\ paid' \in [Plan -> [Unit -> 0 .. MaxAmount]]
        /\ \A p \in Plan, n \in Unit : paid'[p][n] <= paid[p][n]
    BY <1>1, <2>1, LedgerAssumption DEF LedgerTypeOK
  <2> QED
    BY <1>8, <2>1, <2>2, <2>3, UnitsKeep
<1>10. ASSUME NEW u \in Unit, DeleteUnit(t, u) PROVE LedgerInv'
  <2>1. /\ occupancy' = [occupancy EXCEPT ![u] = None]
        /\ paid' = [p \in Plan |-> [paid[p] EXCEPT ![u] = 0]]
        /\ Wrote(t, Readers("due") \cup Readers("occupied"))
        /\ UNCHANGED <<amount, current, overpaid, result>>
    BY <1>10 DEF DeleteUnit
  <2>2. occupancy' \in [Unit -> {"occupied", "vacant", "maintenance", None}]
    BY <1>1, <2>1 DEF LedgerTypeOK
  <2>3. ASSUME NEW p \in Plan
        PROVE  /\ paid'[p] \in [Unit -> 0 .. MaxAmount]
               /\ \A n \in Unit : paid'[p][n] <= paid[p][n]
    BY <1>1, <2>1, LedgerAssumption DEF LedgerTypeOK
  <2>4. paid' \in [Plan -> [Unit -> 0 .. MaxAmount]]
    BY <2>1, <2>3
  <2> QED
    BY <1>8, <2>1, <2>2, <2>3, <2>4, UnitsKeep
<1> QED
  BY <1>3, <1>4, <1>5, <1>6, <1>7, <1>9, <1>10 DEF LedgerStep

\* Roles are given and taken; the ledger does not look at them.
LEMMA RolesLeaveLedger ==
  ASSUME LedgerInv, NEW u \in User, Promote(u) \/ Demote(u), UNCHANGED <<deskVars, ledgerVars>>
  PROVE  LedgerInv'
<1>1. CallsTypeOK /\ DeskTypeOK /\ LedgerTypeOK
  BY DEF LedgerInv, ServicesTypeOK
<1>2. UNCHANGED <<stage, kind, user, stale>> /\ CallsTypeOK'
  BY <1>1 DEF CallsTypeOK, Promote, Demote
<1>3. DeskTypeOK'
  BY <1>1 DEF DeskTypeOK, deskVars, deskRows
<1>4. UNCHANGED <<amount, current, paid, occupancy, overpaid, result>>
  BY DEF ledgerVars, ledgerRows
<1>5. ServicesTypeOK'
  BY <1>1, <1>2, <1>3, <1>4 DEF ServicesTypeOK, LedgerTypeOK
<1>6. Covered'
  BY <1>4 DEF LedgerInv, Covered, PaidFor, Total
<1>7. ASSUME NEW t \in Call PROVE Claims(t)' /\ Current(t)'
  BY <1>2, <1>4 DEF LedgerInv, Claims, Current, PaidIn, Total
<1>8. DifferencesExplained'
  BY <1>2, <1>4 DEF LedgerInv, DifferencesExplained, PendingExplained, VacantAddsUp
<1> QED
  BY <1>5, <1>6, <1>7, <1>8 DEF LedgerInv

\* At a new building and at one in use nothing is paid and no call is under way.
LEMMA LedgerBegins == ServicesInit => LedgerInv
<1> SUFFICES ASSUME ServicesInit PROVE LedgerInv
  OBVIOUS
<1>1. PICK inUse \in BOOLEAN : CallsInit /\ DeskInit(inUse) /\ LedgerInit(inUse)
  BY DEF ServicesInit
<1>2. CallsTypeOK
  BY <1>1 DEF CallsInit, CallsTypeOK
<1>3. DeskTypeOK
  <2>1. author \in [Ticket -> User \cup {None}]
    <3>1. CASE inUse
      BY <1>1, <3>1 DEF DeskInit
    <3>2. CASE ~inUse
      BY <1>1, <3>2 DEF DeskInit
    <3> QED
      BY <3>1, <3>2
  <2>2. /\ stamp = [i \in Item |-> FALSE] /\ setter = [k \in Ticket |-> None] /\ reopened = {}
        /\ row = [t \in Call |-> None] /\ new = [t \in Call |-> None] /\ shown = [t \in Call |-> {}]
        /\ status = [i \in Item |-> IF i \in Ticket /\ author[i] # None
                                  THEN "pending_approval" ELSE None]
    BY <1>1 DEF DeskInit
  <2>3. StatusOK
    BY <2>2, DeskAssumption DEF StatusOK, Item, TicketStatus
  <2> QED
    BY <2>1, <2>2, <2>3 DEF DeskTypeOK, StatusOK
<1>4. LedgerTypeOK
  <2>1. amount \in [Plan -> Amount \cup {None}] /\ current \subseteq {p \in Plan : amount[p] # None}
    <3>1. MaxAmount \in Amount /\ MaxAmount # None
      BY LedgerAssumption DEF Amount
    <3>2. CASE inUse
      BY <1>1, <3>1, <3>2 DEF LedgerInit
    <3>3. CASE ~inUse
      BY <1>1, <3>3 DEF LedgerInit
    <3> QED
      BY <3>2, <3>3
  <2>2. occupancy \in [Unit -> {"occupied", "vacant", "maintenance", None}]
    <3>1. CASE inUse
      BY <1>1, <3>1 DEF LedgerInit
    <3>2. CASE ~inUse
      BY <1>1, <3>2 DEF LedgerInit
    <3> QED
      BY <3>1, <3>2
  <2>3. /\ paid \in [Plan -> [Unit -> 0 .. MaxAmount]] /\ overpaid \in BOOLEAN
        /\ result \in [Call -> Int]
    <3>1. /\ paid = [p \in Plan |-> [u \in Unit |-> 0]] /\ overpaid = FALSE
          /\ result = [t \in Call |-> 0]
      BY <1>1 DEF LedgerInit
    <3>2. [u \in Unit |-> 0] \in [Unit -> 0 .. MaxAmount]
      BY LedgerAssumption
    <3>3. paid \in [Plan -> [Unit -> 0 .. MaxAmount]]
      BY <3>1, <3>2
    <3>4. overpaid \in BOOLEAN
      BY <3>1, Zenon
    <3>5. result \in [Call -> Int]
      BY <3>1
    <3> QED
      BY <3>3, <3>4, <3>5
  <2> QED
    BY <2>1, <2>2, <2>3 DEF LedgerTypeOK
<1>5. Covered
  <2> SUFFICES ASSUME NEW p \in current PROVE PaidFor(paid, p) <= amount[p]
    BY DEF Covered
  <2>1. p \in Plan /\ amount[p] \in Nat
    BY <1>4 DEF LedgerTypeOK, Amount
  <2>2. paid[p] = [u \in Unit |-> 0]
    BY <1>1, <2>1 DEF LedgerInit
  <2>3. {x \in Unit \X Amount : x[2] <= paid[p][x[1]]} = {}
    BY <2>2 DEF Amount
  <2>4. DOMAIN paid[p] = Unit
    BY <2>2
  <2>5. PaidFor(paid, p) = 0
    BY <2>3, <2>4, FS_EmptySet, Zenon DEF PaidFor, Total
  <2> QED
    BY <2>1, <2>5
<1>6. \A t \in Call : stage[t] = "idle"
  BY <1>1 DEF CallsInit
<1>7. DifferencesExplained /\ \A t \in Call : Claims(t) /\ Current(t)
  BY <1>6 DEF DifferencesExplained, PendingExplained, VacantAddsUp, Claims, Current, Claiming
<1> QED
  BY <1>2, <1>3, <1>4, <1>5, <1>7 DEF LedgerInv, ServicesTypeOK

\* Every step of the services keeps the ledger's invariant next to the desk's.
LEMMA LedgerSteps == LedgerInv /\ DeskInv /\ [ServicesNext]_servicesVars => LedgerInv'
<1> SUFFICES ASSUME LedgerInv, DeskInv, [ServicesNext]_servicesVars PROVE LedgerInv'
  OBVIOUS
<1>1. DeskTypeOK /\ CallsTypeOK
  BY DEF LedgerInv, ServicesTypeOK
<1>2. UNCHANGED deskVars => DeskTypeOK'
  BY <1>1 DEF DeskTypeOK, deskVars, deskRows
<1>3. ASSUME NEW t \in Call, CallStep(t) PROVE LedgerInv'
  <2>1. CASE DeskStep(t) /\ UNCHANGED ledgerVars
    BY <2>1, DeskLeavesLedger
  <2>2. CASE LedgerStep(t) /\ UNCHANGED deskVars
    BY <2>2, LedgerStepKeeps
  <2>3. CASE DashboardStep(t) /\ UNCHANGED deskVars
    BY <2>3, DashboardKeeps
  <2>4. ASSUME StartDashboard(t) \/ \E u \in User : StartManage(t, u),
               UNCHANGED <<deskVars, ledgerVars>>
        PROVE  LedgerInv'
    BY <1>2, <2>4, BesideSteps DEF StartManage, StartDashboard
  <2>5. CASE MayManage(t) /\ UNCHANGED <<deskVars, ledgerVars>>
    BY <1>2, <2>5, BesideSteps DEF MayManage, Claiming
  <2>6. CASE Break(t) /\ Forget(t) /\ UNCHANGED <<deskRows, shown, ledgerVars>>
    <3>1. UNCHANGED <<status, stamp, author, setter, reopened, shown>>
      BY <2>6 DEF deskRows
    <3>2. row' \in [Call -> Ticket \cup {None}] /\ new' \in [Call -> TicketStatus \cup {None}]
      BY <1>1, <2>6 DEF DeskTypeOK, Forget
    <3>3. DeskTypeOK'
      BY <1>1, <3>1, <3>2 DEF DeskTypeOK
    <3> QED
      BY <2>6, <3>3, BesideSteps
  <2> QED
    BY <1>3, <2>1, <2>2, <2>3, <2>4, <2>5, <2>6 DEF CallStep
<1>4. ASSUME NEW u \in User, Promote(u) \/ Demote(u), UNCHANGED <<deskVars, ledgerVars>>
      PROVE  LedgerInv'
  BY <1>4, RolesLeaveLedger
<1>5. CASE UNCHANGED servicesVars
  <2>1. UNCHANGED <<manager, everManager, stage, kind, user, away, stale>>
    BY <1>5 DEF servicesVars, callVars, roles
  <2>2. UNCHANGED <<deskVars, ledgerVars>>
    BY <1>5 DEF servicesVars
  <2>3. UNCHANGED <<amount, current, paid, occupancy, overpaid, result>>
    BY <2>2 DEF ledgerVars, ledgerRows
  <2>4. ServicesTypeOK'
    BY <1>1, <1>2, <2>1, <2>2, <2>3 DEF LedgerInv, ServicesTypeOK, CallsTypeOK, LedgerTypeOK
  <2>5. Covered'
    BY <2>3 DEF LedgerInv, Covered, PaidFor, Total
  <2>6. ASSUME NEW t \in Call PROVE Claims(t)' /\ Current(t)'
    BY <2>1, <2>3 DEF LedgerInv, Claims, Current, PaidIn, Total
  <2>7. DifferencesExplained'
    BY <2>1, <2>3 DEF LedgerInv, DifferencesExplained, PendingExplained, VacantAddsUp
  <2> QED
    BY <2>4, <2>5, <2>6, <2>7 DEF LedgerInv
<1> QED
  BY <1>3, <1>4, <1>5 DEF ServicesNext

\* Both invariants hold whatever the calls do.
LEMMA ServicesInvariance == ServicesSpec => [](LedgerInv /\ DeskInv)
<1>1. ServicesInit => LedgerInv /\ DeskInv
  BY LedgerBegins, DeskBegins
<1>2. LedgerInv /\ DeskInv /\ [ServicesNext]_servicesVars => (LedgerInv /\ DeskInv)'
  BY LedgerSteps, DeskSteps
<1> QED
  BY <1>1, <1>2, PTL DEF ServicesSpec

\* The columns of the desk and of the ledger, the roles and what the calls hold have their
\* types: a payment is at most MaxAmount, and only plans that exist are of the period.
THEOREM ServicesTypeCorrect == ServicesSpec => []ServicesTypeOK
<1>1. LedgerInv => ServicesTypeOK
  BY DEF LedgerInv
<1> QED
  BY <1>1, ServicesInvariance, PTL

\* What GetDuesReport gives as pending and GetDashboard as vacant, each the difference of
\* two statements, is negative only if more was paid for a plan than its amount, or another
\* call wrote between the statements: moving and deleting plans and units cannot do it.
THEOREM DifferencesHaveReasons == ServicesSpec => []DifferencesExplained
<1>1. LedgerInv => DifferencesExplained
  BY DEF LedgerInv
<1> QED
  BY <1>1, ServicesInvariance, PTL
=============================================================================
