---------------------------- MODULE Reservations ----------------------------
(***************************************************************************)
(* Common areas of one building and their reservations:                    *)
(* handlers/reservation.go, repository/reservation_repo.go and the         *)
(* exclusion constraint no_overlap of migrations/000007.                   *)
(*                                                                         *)
(* Each SQL statement is a step of its request.  A reservation has the     *)
(* name of the request that created it.                                    *)
(***************************************************************************)
EXTENDS Integers

CONSTANTS
  User,
  Area,
  Request,
  Horizon, \* instants are numbered from 0 to this
  None

ASSUME ReservationsAssumption ==
  /\ Horizon \in Nat
  /\ None \notin Request /\ None \notin User /\ None \notin BOOLEAN
  /\ None \notin {"pending", "approved", "rejected", "cancelled"}

VARIABLES
  approval,    \* common_areas.requires_approval of the areas that exist
  status,      \* reservations.status
  area, start, end, \* the other columns of a reservation
  manager,     \* users with a managing role in a building, this or another
  everManager, \* history: users who have had one
  approver,    \* history: who approved a reservation last
  at,          \* how far each request is
  user,        \* who makes it
  target,      \* the reservation it is about
  new          \* the status it will give the reservation

rows  == <<status, approver>>
range == <<area, start, end>>
roles == <<manager, everManager>>
args  == <<user, target, new>>
vars  == <<approval, rows, range, roles, args, at>>

Time   == 0 .. Horizon
Status == {"pending", "approved", "rejected", "cancelled"}

Init ==
  /\ approval = [a \in Area |-> None]
  /\ status = [r \in Request |-> None]
  /\ area = [r \in Request |-> None]
  /\ start = [r \in Request |-> 0]
  /\ end = [r \in Request |-> 0]
  /\ manager = {}
  /\ everManager = {}
  /\ approver = [r \in Request |-> None]
  /\ at = [t \in Request |-> "idle"]
  /\ user = [t \in Request |-> None]
  /\ target = [t \in Request |-> None]
  /\ new = [t \in Request |-> None]

-----------------------------------------------------------------------------
(* The constraint *)

\* Mutant: ranges that include their end.
OverlapClosed(r, s) ==
  /\ area[r] = area[s]
  /\ start[r] <= end[s] /\ start[s] <= end[r]

\* area = area and tstzrange(start, end) && tstzrange(start, end): half-open, and
\* a range from an instant to itself is empty and overlaps nothing.
Overlap(r, s) ==
  /\ area[r] = area[s]
  /\ start[r] < end[r] /\ start[s] < end[s]
  /\ start[r] < end[s] /\ start[s] < end[r]

Active(r) == status[r] \in {"pending", "approved"}

\* Mutant: the constraint covers approved reservations only.
ConflictOnceApproved(r) == \E s \in Request \ {r} : status[s] = "approved" /\ Overlap(r, s)

\* The constraint refuses a row r that is to be active.
Conflict(r) == \E s \in Request \ {r} : Active(s) /\ Overlap(r, s)

Goto(t, step) == at' = [at EXCEPT ![t] = step]

\* The call is answered, and what it was asked is forgotten.
Answer(t, what) ==
  /\ Goto(t, what)
  /\ user' = [user EXCEPT ![t] = None]
  /\ target' = [target EXCEPT ![t] = None]
  /\ new' = [new EXCEPT ![t] = None]

\* A row that is not inserted leaves nothing behind.
NoRow(t) ==
  /\ area' = [area EXCEPT ![t] = None]
  /\ start' = [start EXCEPT ![t] = 0]
  /\ end' = [end EXCEPT ![t] = 0]

-----------------------------------------------------------------------------
(* Roles, decided elsewhere, and areas *)

Promote(u) ==
  /\ u \notin manager
  /\ manager' = manager \cup {u}
  /\ everManager' = everManager \cup {u}
  /\ UNCHANGED <<approval, rows, range, args, at>>

Demote(u) ==
  /\ u \in manager
  /\ manager' = manager \ {u}
  /\ UNCHANGED <<approval, rows, range, everManager, args, at>>

CreateArea(a, needs) ==
  /\ approval[a] = None
  /\ approval' = [approval EXCEPT ![a] = needs]
  /\ UNCHANGED <<rows, range, roles, args, at>>

-----------------------------------------------------------------------------
(* CreateReservation: the area is read, then the row is inserted *)

\* The columns are chosen here; the row is there once it has a status.
StartCreate(t, u) ==
  /\ at[t] = "idle"
  /\ \E a \in Area, b \in Time, e \in Time :
       /\ area' = [area EXCEPT ![t] = a]
       /\ start' = [start EXCEPT ![t] = b]
       /\ end' = [end EXCEPT ![t] = e]
  /\ user' = [user EXCEPT ![t] = u]
  /\ target' = [target EXCEPT ![t] = t]
  /\ Goto(t, "area")
  /\ UNCHANGED <<approval, rows, roles, new>>

ReadArea(t) ==
  /\ at[t] = "area"
  /\ approval[area[t]] # None
  /\ new' = [new EXCEPT ![t] = IF approval[area[t]] = TRUE THEN "pending" ELSE "approved"]
  /\ Goto(t, "insert")
  /\ UNCHANGED <<approval, rows, range, roles, user, target>>

\* A range that ends before it begins is an error of tstzrange.
InsertReservation(t) ==
  /\ at[t] = "insert"
  /\ start[t] <= end[t]
  /\ IF Conflict(t)
     THEN Answer(t, "taken") /\ NoRow(t) /\ UNCHANGED status
     ELSE Answer(t, "ok") /\ status' = [status EXCEPT ![t] = new[t]] /\ UNCHANGED range
  /\ UNCHANGED <<approval, approver, roles>>

-----------------------------------------------------------------------------
(* ApproveReservation and RejectReservation behind managerOnly; CancelReservation *)

\* Mutant: approving is open to every member.
DecideOpenly(t, u, s, r) ==
  /\ at[t] = "idle"
  /\ status[r] # None
  /\ user' = [user EXCEPT ![t] = u]
  /\ target' = [target EXCEPT ![t] = r]
  /\ new' = [new EXCEPT ![t] = s]
  /\ Goto(t, "update")
  /\ UNCHANGED <<approval, rows, range, roles>>

Decide(t, u, s, r) ==
  /\ at[t] = "idle"
  /\ status[r] # None
  /\ user' = [user EXCEPT ![t] = u]
  /\ target' = [target EXCEPT ![t] = r]
  /\ new' = [new EXCEPT ![t] = s]
  /\ Goto(t, IF s = "cancelled" THEN "update" ELSE "role")
  /\ UNCHANGED <<approval, rows, range, roles>>

\* The role in the building of the URL: one of those the caller manages, if any.
\* Nothing compares it with that of the reservation, which is found by its id.
ReadRole(t) ==
  /\ at[t] = "role"
  /\ user[t] \in manager
  /\ Goto(t, "update")
  /\ UNCHANGED <<approval, rows, range, roles, args>>

\* Whatever the status was.  The constraint looks at the new row, so a reservation
\* comes back from "rejected" or "cancelled" only if its time is still free.
UpdateStatus(t) ==
  /\ at[t] = "update"
  /\ IF new[t] = "approved" /\ Conflict(target[t])
     THEN Answer(t, "taken") /\ UNCHANGED rows
     ELSE /\ Answer(t, "ok")
          /\ status' = [status EXCEPT ![target[t]] = new[t]]
          /\ approver' = IF new[t] = "approved" THEN [approver EXCEPT ![target[t]] = user[t]]
                         ELSE approver
  /\ UNCHANGED <<approval, range, roles>>

-----------------------------------------------------------------------------
\* A statement fails, the area does not exist, the range is no range, or the
\* caller is no manager.
Fail(t) ==
  /\ at[t] \in {"area", "insert", "role", "update"}
  /\ Answer(t, "failed")
  /\ IF target[t] = t THEN NoRow(t) ELSE UNCHANGED range
  /\ UNCHANGED <<approval, rows, roles>>

Step(t) ==
  \/ \E u \in User :
       \/ StartCreate(t, u)
       \/ \E s \in {"approved", "rejected", "cancelled"}, r \in Request : Decide(t, u, s, r)
  \/ ReadArea(t) \/ InsertReservation(t) \/ ReadRole(t) \/ UpdateStatus(t) \/ Fail(t)

Next ==
  \/ \E t \in Request : Step(t)
  \/ \E u \in User : Promote(u) \/ Demote(u)
  \/ \E a \in Area, needs \in BOOLEAN : CreateArea(a, needs)

Spec == Init /\ [][Next]_vars

-----------------------------------------------------------------------------
(* Properties *)

\* The variables have the types of the columns and of the Go locals.
TypeOK ==
  /\ approval \in [Area -> BOOLEAN \cup {None}]
  /\ status \in [Request -> Status \cup {None}]
  /\ area \in [Request -> Area \cup {None}]
  /\ start \in [Request -> Time] /\ end \in [Request -> Time]
  /\ manager \subseteq everManager /\ everManager \subseteq User
  /\ approver \in [Request -> User \cup {None}]
  /\ at \in [Request -> {"idle", "area", "insert", "role", "update", "ok", "taken", "failed"}]
  /\ user \in [Request -> User \cup {None}]
  /\ target \in [Request -> Request \cup {None}]
  /\ new \in [Request -> Status \cup {None}]

\* The cells of a reservation: its area from its start until before its end.
Cells(r) == {area[r]} \X (start[r] .. end[r] - 1)

\* No area is promised to two reservations at one instant, whatever order
\* requests, approvals, rejections and cancellations come in and whichever
\* reservations come back; one may end where the next begins.
NoOverlap ==
  \A r, s \in Request :
    r # s /\ Active(r) /\ Active(s) => Cells(r) \cap Cells(s) = {}

\* In an area that requires approval nothing is approved except by somebody who
\* had a managing role, though he may have lost it before the update. That it was a
\* role in the building of the area nothing ensures.
ApprovedByManager ==
  \A r \in Request :
    status[r] = "approved" /\ approval[area[r]] = TRUE => approver[r] \in everManager

\* Requests and reservations do what Booking promises: nobody is told that the
\* time is taken when it is free, not even for a range that only touches another
\* or has no length, and what is held is held once.
Promise == INSTANCE Booking WITH
  Cell   <- Area \X Time,
  claim  <- [r \in Request |-> Cells(r)],
  held   <- {r \in Request : Active(r)},
  answer <- [t \in Request |-> IF at[t] \in {"ok", "taken", "failed"} THEN at[t] ELSE "none"]
ImplementsBooking == Promise!Spec
=============================================================================
