----------------------------- MODULE Membership -----------------------------
(***************************************************************************)
(* Buildings, their members and invitations: the handlers Create,          *)
(* InviteUser, AcceptInvitation and RemoveMember of                        *)
(* internal/handlers/buildings.go, the managerOnly middleware of           *)
(* cmd/server/main.go, and the tables they share.  Every SQL statement is  *)
(* a transaction of its own, requests run concurrently, and a request may  *)
(* die between any two of its statements.                                  *)
(***************************************************************************)
EXTENDS People, Naturals, FiniteSets

CONSTANTS
  Building,
  Invitation,  \* invitation tokens; each is created once
  Request      \* HTTP requests; each is made once

Managing == {"building_manager", "super_admin"}
Role     == Managing \cup {"resident"}
Offer    == [building : Building, email : User, role : Role]

ASSUME MembershipAssumption ==
  None \notin User \cup Building \cup Invitation \cup Offer \cup Role

VARIABLES
  account,   \* the people with a row in users
  exists,    \* rows of buildings
  founder,   \* history: who created each building
  role,      \* building_members: each person's role in each building, or None
  offer,     \* building_invitations: what each invitation offers, or None
  expired,   \* invitations past expires_at
  accepted,  \* invitations whose accepted_at is set
  joined,    \* history: invitations that have added their invitee to the building
  at,        \* where each request is
  actor,     \* the authenticated user of a request
  terms,     \* building, person and role a request is about
  via        \* the invitation an acceptance is for

vars == <<account, exists, founder, role, offer, expired, accepted, joined, at, actor, terms, via>>

Steps == {"idle", "seat", "check", "insert", "remove", "lookup", "signup", "join", "mark",
          "done", "failed"}

Init ==
  /\ account = {}
  /\ exists = {}
  /\ founder = [b \in Building |-> None]
  /\ role = [b \in Building |-> [u \in User |-> None]]
  /\ offer = [i \in Invitation |-> None]
  /\ expired = {}
  /\ accepted = {}
  /\ joined = {}
  /\ at = [r \in Request |-> "idle"]
  /\ actor = [r \in Request |-> None]
  /\ terms = [r \in Request |-> None]
  /\ via = [r \in Request |-> None]

Goto(r, step) == at' = [at EXCEPT ![r] = step]

Terms(b, u, ro) == [building |-> b, email |-> u, role |-> ro]

Managers(b) == {u \in User : role[b][u] = "building_manager"}

\* Mutant: without idx_one_manager_per_building.
AddAnyMember(t) == TRUE

\* AddMember: an upsert on (building_id, user_id), which fails when it would put
\* a second building_manager into idx_one_manager_per_building.
MayAddMember(t) ==
  t.role = "building_manager" => Managers(t.building) \subseteq {t.email}

\* ... and otherwise gives the person that role.
AddMember(t) == role' = [role EXCEPT ![t.building][t.email] = t.role]

\* The managerOnly middleware: the role of the caller in this building.
ManagerOnly(b, u) == role[b][u] \in Managing

-----------------------------------------------------------------------------
\* Create inserts the building ...
CreateBuilding(r, u, b) ==
  /\ at[r] = "idle"
  /\ u \in account
  /\ b \notin exists
  /\ exists' = exists \cup {b}
  /\ founder' = [founder EXCEPT ![b] = u]
  /\ actor' = [actor EXCEPT ![r] = u]
  /\ terms' = [terms EXCEPT ![r] = Terms(b, u, "building_manager")]
  /\ Goto(r, "seat")
  /\ UNCHANGED <<account, role, offer, expired, accepted, joined, via>>

\* ... and then makes the creator its manager; the error is ignored (Fail).
SeatFounder(r) ==
  /\ at[r] = "seat"
  /\ IF MayAddMember(terms[r]) THEN AddMember(terms[r]) ELSE UNCHANGED role
  /\ Goto(r, "done")
  /\ UNCHANGED <<account, exists, founder, offer, expired, accepted, joined, actor, terms, via>>

-----------------------------------------------------------------------------
\* InviteUser behind managerOnly: only a manager's invitation checks HasManager.
Invite(r, u, t) ==
  /\ at[r] = "idle"
  /\ ManagerOnly(t.building, u)
  /\ actor' = [actor EXCEPT ![r] = u]
  /\ terms' = [terms EXCEPT ![r] = t]
  /\ Goto(r, IF t.role = "building_manager" THEN "check" ELSE "insert")
  /\ UNCHANGED <<account, exists, founder, role, offer, expired, accepted, joined, via>>

\* HasManager; its error is ignored and then counts as "no manager".
CheckManager(r) ==
  /\ at[r] = "check"
  /\ \/ Managers(terms[r].building) # {} /\ Goto(r, "failed")
     \/ Managers(terms[r].building) = {} /\ Goto(r, "insert")
     \/ Goto(r, "insert")
  /\ UNCHANGED <<account, exists, founder, role, offer, expired, accepted, joined, actor, terms, via>>

\* CreateInvitation with a fresh token.
InsertInvitation(r, i) ==
  /\ at[r] = "insert"
  /\ offer[i] = None
  /\ offer' = [offer EXCEPT ![i] = terms[r]]
  /\ Goto(r, "done")
  /\ UNCHANGED <<account, exists, founder, role, expired, accepted, joined, actor, terms, via>>

-----------------------------------------------------------------------------
\* AcceptInvitation: GetInvitationByToken, accepted?, expired?
Accept(r, i) ==
  /\ at[r] = "idle"
  /\ offer[i] # None
  /\ via' = [via EXCEPT ![r] = i]
  /\ terms' = [terms EXCEPT ![r] = offer[i]]
  /\ Goto(r, IF i \in accepted \cup expired THEN "failed" ELSE "lookup")
  /\ UNCHANGED <<account, exists, founder, role, offer, expired, accepted, joined, actor>>

\* Mutant: the invitee is taken to have an account.
AssumeUser(r) ==
  /\ at[r] = "lookup"
  /\ Goto(r, "join")
  /\ UNCHANGED <<account, exists, founder, role, offer, expired, accepted, joined, actor, terms, via>>

\* userRepo.GetByEmail
LookupUser(r) ==
  /\ at[r] = "lookup"
  /\ Goto(r, IF terms[r].email \in account THEN "join" ELSE "signup")
  /\ UNCHANGED <<account, exists, founder, role, offer, expired, accepted, joined, actor, terms, via>>

\* userRepo.Create: fails when the e-mail has been registered meanwhile.
SignUp(r) ==
  /\ at[r] = "signup"
  /\ IF terms[r].email \in account
     THEN Goto(r, "failed") /\ UNCHANGED account
     ELSE Goto(r, "join") /\ account' = account \cup {terms[r].email}
  /\ UNCHANGED <<exists, founder, role, offer, expired, accepted, joined, actor, terms, via>>

\* Mutant: the error of AddMember is ignored, as Create ignores it.
JoinIgnoringError(r) ==
  /\ at[r] = "join"
  /\ IF MayAddMember(terms[r])
     THEN AddMember(terms[r]) /\ joined' = joined \cup {via[r]}
     ELSE UNCHANGED <<role, joined>>
  /\ Goto(r, "mark")
  /\ UNCHANGED <<account, exists, founder, offer, expired, accepted, actor, terms, via>>

Join(r) ==
  /\ at[r] = "join"
  /\ IF MayAddMember(terms[r])
     THEN AddMember(terms[r]) /\ joined' = joined \cup {via[r]} /\ Goto(r, "mark")
     ELSE Goto(r, "failed") /\ UNCHANGED <<role, joined>>
  /\ UNCHANGED <<account, exists, founder, offer, expired, accepted, actor, terms, via>>

\* MarkInvitationAccepted, whatever accepted_at holds by now.
MarkAccepted(r) ==
  /\ at[r] = "mark"
  /\ accepted' = accepted \cup {via[r]}
  /\ Goto(r, "done")
  /\ UNCHANGED <<account, exists, founder, role, offer, expired, joined, actor, terms, via>>

-----------------------------------------------------------------------------
\* Mutant: one may remove oneself.
AskRemoveAnyone(r, u, b, v) ==
  /\ at[r] = "idle"
  /\ ManagerOnly(b, u)
  /\ actor' = [actor EXCEPT ![r] = u]
  /\ terms' = [terms EXCEPT ![r] = Terms(b, v, "resident")]
  /\ Goto(r, "remove")
  /\ UNCHANGED <<account, exists, founder, role, offer, expired, accepted, joined, via>>

\* RemoveMember behind managerOnly; "Prevent removing yourself".
AskRemove(r, u, b, v) ==
  /\ at[r] = "idle"
  /\ ManagerOnly(b, u)
  /\ v # u
  /\ actor' = [actor EXCEPT ![r] = u]
  /\ terms' = [terms EXCEPT ![r] = Terms(b, v, "resident")]
  /\ Goto(r, "remove")
  /\ UNCHANGED <<account, exists, founder, role, offer, expired, accepted, joined, via>>

RemoveMember(r) ==
  /\ at[r] = "remove"
  /\ role' = [role EXCEPT ![terms[r].building][terms[r].email] = None]
  /\ Goto(r, "done")
  /\ UNCHANGED <<account, exists, founder, offer, expired, accepted, joined, actor, terms, via>>

-----------------------------------------------------------------------------
\* AuthService.Register, which Sessions takes apart.
Register(u) ==
  /\ account' = account \cup {u}
  /\ UNCHANGED <<exists, founder, role, offer, expired, accepted, joined, at, actor, terms, via>>

\* Seven days pass.
Expire(i) ==
  /\ offer[i] # None
  /\ expired' = expired \cup {i}
  /\ UNCHANGED <<account, exists, founder, role, offer, accepted, joined, at, actor, terms, via>>

\* A statement fails, the client goes away or the server dies.
Fail(r) ==
  /\ at[r] \notin {"idle", "done", "failed"}
  /\ Goto(r, "failed")
  /\ UNCHANGED <<account, exists, founder, role, offer, expired, accepted, joined, actor, terms, via>>

RequestStep(r) ==
  \/ \E u \in User, b \in Building : CreateBuilding(r, u, b)
  \/ SeatFounder(r)
  \/ \E u \in User, t \in Offer : Invite(r, u, t)
  \/ CheckManager(r)
  \/ \E i \in Invitation : InsertInvitation(r, i) \/ Accept(r, i)
  \/ LookupUser(r) \/ SignUp(r) \/ Join(r) \/ MarkAccepted(r)
  \/ \E u, v \in User, b \in Building : AskRemove(r, u, b, v)
  \/ RemoveMember(r)
  \/ Fail(r)

Next ==
  \/ \E r \in Request : RequestStep(r)
  \/ \E u \in User : Register(u)
  \/ \E i \in Invitation : Expire(i)

Spec == Init /\ [][Next]_vars

-----------------------------------------------------------------------------
(* Properties *)

\* The variables have the types of the tables and of the Go locals.
TypeOK ==
  /\ account \subseteq User
  /\ exists \subseteq Building
  /\ founder \in [Building -> User \cup {None}]
  /\ role \in [Building -> [User -> Role \cup {None}]]
  /\ offer \in [Invitation -> Offer \cup {None}]
  /\ expired \subseteq Invitation
  /\ accepted \subseteq Invitation
  /\ joined \subseteq Invitation
  /\ at \in [Request -> Steps]
  /\ actor \in [Request -> User \cup {None}]
  /\ terms \in [Request -> Offer \cup {None}]
  /\ via \in [Request -> Invitation \cup {None}]

\* A building never has two managers, although InviteUser only looks for one
\* before it writes the invitation and an invitation may be accepted days later.
SingleManager == \A b \in Building : Cardinality(Managers(b)) <= 1

\* Every member has an account and a title to the very role held: the founder's,
\* or an invitation to this building, in this role, that this person accepted.
MembersHaveTitle ==
  \A b \in Building, u \in User : role[b][u] # None =>
    /\ u \in account
    /\ \/ u = founder[b] /\ role[b][u] = "building_manager"
       \/ \E i \in joined : offer[i] = Terms(b, u, role[b][u])

\* An invitation marked as accepted has done its work: the invitee has an account
\* and was added to the building. A failure on the way leaves it open to retry.
AcceptedMeansJoined ==
  \A i \in accepted : i \in joined /\ offer[i] # None /\ offer[i].email \in account

\* A manager loses that role only by accepting an invitation to the same
\* building, or to somebody else's RemoveMember: never to his own.
OfficeKept ==
  [][\A b \in Building, u \in User :
       role[b][u] = "building_manager" /\ role'[b][u] # "building_manager" =>
         \E r \in Request :
           \/ at[r] = "join" /\ terms[r].email = u /\ offer[via[r]].building = b
           \/ at[r] = "remove" /\ actor[r] # u]_vars
=============================================================================
