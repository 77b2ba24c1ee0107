-------------------------------- MODULE Desk --------------------------------
(***************************************************************************)
(* Maintenance requests, visitor passes and packages of one building:      *)
(* handlers/maintenance.go, visitor.go and package.go with their           *)
(* repositories.  A request can be decided while it is pending, which      *)
(* ApproveRequest and RejectRequest read in one statement and overwrite in *)
(* another; every other change of a status is a single unconditional       *)
(* UPDATE.                                                                 *)
(***************************************************************************)
EXTENDS Calls

CONSTANTS Ticket, Pass, Package \* maintenance requests, visitor passes, packages

Item == Ticket \cup Pass \cup Package

\* Three tables; and no row, no user and no status are none of them.
ASSUME DeskAssumption ==
  /\ Ticket \cap Pass = {} /\ Ticket \cap Package = {} /\ Pass \cap Package = {}
  /\ None \notin User \cup Ticket
  /\ None \notin {"pending_approval", "open", "in_progress", "resolved", "closed",
                  "pending", "checked_in", "checked_out", "cancelled",
                  "waiting", "notified", "picked_up", "gone"}

VARIABLES
  status,   \* the status column of each row; None before it, "gone" after it
  stamp,    \* resolved_at, checked_out_at, picked_up_at is set
  author,   \* created_by of a maintenance request
  setter,   \* history: the last user to give it a status
  reopened, \* history: requests reopened by a manager, or decided on stale grounds
  row, new, \* the request a decision is about and the status it will give
  shown     \* GetRequests: the rows of the answer

deskRows == <<status, stamp, author, setter, reopened>>
deskVars == <<deskRows, row, new, shown>>

TicketStatus == {"pending_approval", "open", "in_progress", "resolved", "closed"}
PassStatus   == {"pending", "checked_in", "checked_out", "cancelled"}
PackStatus   == {"waiting", "notified", "picked_up"}
Ended        == {"resolved", "closed", "checked_out", "picked_up"}

\* At the desk of a building in use residents have left requests.
DeskInit(inUse) ==
  /\ author \in [Ticket -> IF inUse THEN User ELSE {None}]
  /\ status = [i \in Item |-> IF i \in Ticket /\ author[i] # None THEN "pending_approval" ELSE None]
  /\ stamp = [i \in Item |-> FALSE]
  /\ setter = [k \in Ticket |-> None]
  /\ reopened = {}
  /\ row = [t \in Call |-> None]
  /\ new = [t \in Call |-> None]
  /\ shown = [t \in Call |-> {}]

Exists(i) == status[i] \notin {None, "gone"}

\* What an ended call was about is forgotten.
Forget(t) ==
  /\ row' = [row EXCEPT ![t] = None]
  /\ new' = [new EXCEPT ![t] = None]

\* The UPDATE of a status, which stamps an ending; COALESCE keeps an older stamp.
SetStatus(i, s) ==
  /\ status' = [status EXCEPT ![i] = IF Exists(i) THEN s ELSE @]
  /\ stamp' = [stamp EXCEPT ![i] = @ \/ (Exists(i) /\ s \in Ended)]

-----------------------------------------------------------------------------
(* CreateRequest and GetRequests look at the role to choose what to do *)

StartFile(t, u) == Begin(t, u, "file", "role") /\ UNCHANGED deskVars
StartList(t, u) == Begin(t, u, "list", "role") /\ UNCHANGED deskVars

\* An error in reading the role counts as "not a manager".
ReadRoleToChoose(t) ==
  /\ stage[t] = "role" /\ kind[t] \in {"file", "list"}
  /\ \E managing \in {FALSE, PassesManagerOnly(t)} :
       new' = [new EXCEPT ![t] = IF managing THEN "open" ELSE "pending_approval"]
  /\ Move(t, IF kind[t] = "file" THEN "insert" ELSE "count")
  /\ UNCHANGED <<deskRows, row, shown>>

\* Mutant: two columns of the INSERT are exchanged.
InsertSwapped(t, k) ==
  /\ stage[t] = "insert" /\ status[k] = None
  /\ status' = [status EXCEPT ![k] = user[t]]
  /\ author' = [author EXCEPT ![k] = new[t]]
  /\ setter' = setter
  /\ Wrote(t, {}) /\ Forget(t)
  /\ UNCHANGED <<stamp, reopened, shown>>

InsertTicket(t, k) ==
  /\ stage[t] = "insert" /\ status[k] = None
  /\ status' = [status EXCEPT ![k] = new[t]]
  /\ author' = [author EXCEPT ![k] = user[t]]
  /\ setter' = IF new[t] = "open" THEN [setter EXCEPT ![k] = user[t]] ELSE setter
  /\ Wrote(t, {}) /\ Forget(t)
  /\ UNCHANGED <<stamp, reopened, shown>>

\* Mutant: residents are shown every request.
ShowAll(t) == {k \in Ticket : Exists(k)}

\* GetByBuilding for managers, GetByBuildingForResident for the others.
Visible(t) ==
  {k \in Ticket : /\ Exists(k)
                  /\ new[t] = "open" \/ status[k] # "pending_approval" \/ author[k] = user[t]}

\* SELECT COUNT(*); its result goes into the answer only.
CountTickets(t) == stage[t] = "count" /\ Move(t, "rows") /\ UNCHANGED deskVars

ListTickets(t) ==
  /\ stage[t] = "rows"
  /\ shown' = [shown EXCEPT ![t] = Visible(t)]
  /\ Move(t, "done") /\ Forget(t)
  /\ UNCHANGED deskRows

-----------------------------------------------------------------------------
(* ApproveRequest and RejectRequest *)

StartDecide(t, u, k, s) ==
  /\ Begin(t, u, "decide", "role")
  /\ Exists(k)
  /\ row' = [row EXCEPT ![t] = k]
  /\ new' = [new EXCEPT ![t] = s]
  /\ UNCHANGED <<deskRows, shown>>

MayDecide(t) ==
  /\ stage[t] = "role" /\ kind[t] = "decide"
  /\ PassesManagerOnly(t)
  /\ Move(t, "check")
  /\ UNCHANGED deskVars

\* Mutant: the request is only looked up.
CheckFound(t) ==
  /\ stage[t] = "check"
  /\ Exists(row[t])
  /\ Move(t, "update")
  /\ UNCHANGED deskVars

\* GetByID, and the test of the status.
CheckPending(t) ==
  /\ stage[t] = "check"
  /\ status[row[t]] = "pending_approval"
  /\ Move(t, "update")
  /\ UNCHANGED deskVars

\* Those who read the status of the request before.
Deciders(k) == {t \in Call : kind[t] = "decide" /\ stage[t] = "update" /\ row[t] = k}

UpdateDecided(t) ==
  /\ stage[t] = "update"
  /\ SetStatus(row[t], new[t])
  /\ setter' = [setter EXCEPT ![row[t]] = user[t]]
  /\ reopened' = IF t \in stale THEN reopened \cup {row[t]} ELSE reopened
  /\ Wrote(t, Deciders(row[t])) /\ Forget(t)
  /\ UNCHANGED <<author, shown>>

-----------------------------------------------------------------------------
(* UpdateRequest and DeleteRequest, behind managerOnly *)

UpdateRequest(t, k, s) ==
  /\ stage[t] = "act"
  /\ SetStatus(k, s)
  /\ setter' = [setter EXCEPT ![k] = IF Exists(k) THEN user[t] ELSE @]
  /\ reopened' = IF stamp[k] /\ s \notin Ended THEN reopened \cup {k} ELSE reopened
  /\ Wrote(t, Deciders(k))
  /\ UNCHANGED <<author, row, new, shown>>

DeleteRequest(t, k) ==
  /\ stage[t] = "act" /\ Exists(k)
  /\ status' = [status EXCEPT ![k] = "gone"]
  /\ Wrote(t, Deciders(k))
  /\ UNCHANGED <<stamp, author, setter, reopened, row, new, shown>>

-----------------------------------------------------------------------------
(* Passes and packages: one statement a call, open to everybody who is logged in *)

Insert(t, i, s) ==
  /\ stage[t] = "idle" /\ status[i] = None
  /\ status' = [status EXCEPT ![i] = s]
  /\ Wrote(t, {})
  /\ UNCHANGED <<stamp, author, setter, reopened, row, new, shown>>

CreatePass(t, i)    == i \in Pass /\ Insert(t, i, "pending")
CreatePackage(t, i) == i \in Package /\ Insert(t, i, "waiting")

Update(t, i, s) ==
  /\ stage[t] = "idle" /\ Exists(i)
  /\ SetStatus(i, s)
  /\ Wrote(t, {})
  /\ UNCHANGED <<author, setter, reopened, row, new, shown>>

CheckIn(t, i)    == i \in Pass /\ Update(t, i, "checked_in")
CheckOut(t, i)   == i \in Pass /\ Update(t, i, "checked_out")
CancelPass(t, i) == i \in Pass /\ Update(t, i, "cancelled")
PickUp(t, i)     == i \in Package /\ Update(t, i, "picked_up")
Notify(t, i)     == i \in Package /\ Update(t, i, "notified")

-----------------------------------------------------------------------------
DeskStep(t) ==
  \/ \E u \in User :
       \/ StartFile(t, u) \/ StartList(t, u)
       \/ \E k \in Ticket, s \in {"open", "closed"} : StartDecide(t, u, k, s)
  \/ ReadRoleToChoose(t) \/ CountTickets(t) \/ ListTickets(t)
  \/ MayDecide(t) \/ CheckPending(t) \/ UpdateDecided(t)
  \/ \E k \in Ticket :
       \/ InsertTicket(t, k) \/ DeleteRequest(t, k)
       \/ \E s \in TicketStatus : UpdateRequest(t, k, s)
  \/ \E i \in Item :
       \/ CreatePass(t, i) \/ CheckIn(t, i) \/ CheckOut(t, i) \/ CancelPass(t, i)
       \/ CreatePackage(t, i) \/ PickUp(t, i) \/ Notify(t, i)

-----------------------------------------------------------------------------
(* Properties *)

DeskTypeOK ==
  /\ \A k \in Ticket : status[k] \in TicketStatus \cup {"gone", None}
  /\ \A i \in Pass : status[i] \in PassStatus \cup {None}
  /\ \A i \in Package : status[i] \in PackStatus \cup {None}
  /\ stamp \in [Item -> BOOLEAN]
  /\ author \in [Ticket -> User \cup {None}]
  /\ setter \in [Ticket -> User \cup {None}]
  /\ reopened \subseteq Ticket
  /\ row \in [Call -> Ticket \cup {None}]
  /\ new \in [Call -> TicketStatus \cup {None}]
  /\ shown \in [Call -> SUBSET Ticket]

\* A maintenance request leaves pending_approval, if it ever was pending, by
\* somebody who had a managing role in its building, though he may have lost it on
\* the way, or who has one in another building: on no path by somebody who manages
\* nothing. That the manager is the building's own nothing ensures.
OpenedByManager ==
  \A k \in Ticket : Exists(k) /\ status[k] # "pending_approval" =>
    setter[k] \in everManager \cup Elsewhere

\* The time of the ending tells the status: a request, pass or package that has
\* ended carries one, and a request that carries one has ended unless a manager
\* reopened it or two decisions overlapped, an approval after a rejection.
StampsTell ==
  /\ \A i \in Item : status[i] \in Ended => stamp[i]
  /\ \A k \in Ticket : Exists(k) /\ stamp[k] /\ status[k] \notin Ended => k \in reopened

\* A resident who never had a managing role is not shown the request of another
\* before somebody has opened it, whatever changes between the statements of
\* GetRequests.
NoPeeking ==
  \A t \in Call : user[t] \notin everManager =>
    \A k \in shown[t] : author[k] = user[t] \/ setter[k] # None
=============================================================================
