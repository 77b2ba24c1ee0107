------------------------- MODULE ReservationsProofs -------------------------
(***************************************************************************)
(* For any number of users, areas, requests and instants: no area is       *)
(* promised twice, an approval is a manager's, and reservations implement  *)
(* Booking.                                                                *)
(***************************************************************************)
EXTENDS Reservations, TLAPS

\* What a request that is under way has read and what it is about: its own row is
\* not there yet, and the row it decides on is.
Underway ==
  \A t \in Request :
    /\ at[t] \in {"idle", "area", "insert", "role", "update"} => status[t] = None
    /\ at[t] = "idle" => start[t] = 0 /\ end[t] = 0
    /\ at[t] \in {"area", "insert"} => target[t] = t
    /\ at[t] = "insert" => new[t] \in {"pending", "approved"}
    /\ at[t] \in {"role", "update"} =>
         /\ target[t] \in Request /\ status[target[t]] # None
         /\ new[t] \in {"approved", "rejected", "cancelled"}

\* The constraint holds of the rows as they are.
NoConflict == \A r, s \in Request : r # s /\ Active(r) /\ Active(s) => ~Overlap(r, s)

IInv == TypeOK /\ Underway /\ NoConflict

-----------------------------------------------------------------------------
\* Ranges overlap exactly if they share an instant of an area.
LEMMA OverlapIsShared ==
  ASSUME TypeOK, NEW r \in Request, NEW s \in Request
  PROVE  Overlap(r, s) <=> Cells(r) \cap Cells(s) # {}
<1> DEFINE later == IF start[r] < start[s] THEN start[s] ELSE start[r]
<1>1. start[r] \in Int /\ end[r] \in Int /\ start[s] \in Int /\ end[s] \in Int
  BY ReservationsAssumption DEF TypeOK, Time
<1>2. ASSUME Overlap(r, s) PROVE Cells(r) \cap Cells(s) # {}
  <2>1. later \in start[r] .. end[r] - 1 /\ later \in start[s] .. end[s] - 1
    BY <1>1, <1>2 DEF Overlap
  <2>2. <<area[r], later>> \in Cells(r) /\ <<area[r], later>> \in Cells(s)
    BY <1>2, <2>1 DEF Overlap, Cells
  <2> QED BY <2>2
<1>3. ASSUME Cells(r) \cap Cells(s) # {} PROVE Overlap(r, s)
  <2>1. PICK cell : cell \in Cells(r) /\ cell \in Cells(s)
    BY <1>3
  <2>2. cell[1] = area[r] /\ cell[1] = area[s]
    BY <2>1 DEF Cells
  <2>3. cell[2] \in start[r] .. end[r] - 1 /\ cell[2] \in start[s] .. end[s] - 1
    BY <2>1 DEF Cells
  <2> QED BY <1>1, <2>2, <2>3 DEF Overlap
<1> QED BY <1>2, <1>3

\* Overlapping is mutual.
LEMMA OverlapSymmetric == \A r, s \in Request : Overlap(r, s) => Overlap(s, r)
  BY DEF Overlap

-----------------------------------------------------------------------------
\* Every step keeps the types.
LEMMA TypesKept == TypeOK /\ [Next]_vars => TypeOK'
<1> SUFFICES ASSUME TypeOK, [Next]_vars PROVE TypeOK'
  OBVIOUS
<1> USE ReservationsAssumption DEF TypeOK, rows, range, roles, args, Goto, Answer, NoRow, Status, Time
<1>1. ASSUME NEW t \in Request, NEW u \in User, StartCreate(t, u) PROVE TypeOK'
  BY <1>1 DEF StartCreate
<1>2. ASSUME NEW t \in Request, NEW u \in User,
             NEW s \in {"approved", "rejected", "cancelled"}, NEW r \in Request,
             Decide(t, u, s, r)
      PROVE  TypeOK'
  BY <1>2 DEF Decide
<1>3. ASSUME NEW t \in Request, ReadArea(t) PROVE TypeOK'
  BY <1>3 DEF ReadArea
<1>4. ASSUME NEW t \in Request, InsertReservation(t) PROVE TypeOK'
  <2>1. CASE Conflict(t)
    BY <1>4, <2>1 DEF InsertReservation
  <2>2. CASE ~Conflict(t)
    BY <1>4, <2>2 DEF InsertReservation
  <2> QED BY <2>1, <2>2
<1>5. ASSUME NEW t \in Request, ReadRole(t) PROVE TypeOK'
  BY <1>5 DEF ReadRole
<1>6. ASSUME NEW t \in Request, UpdateStatus(t) PROVE TypeOK'
  BY <1>6 DEF UpdateStatus
<1>7. ASSUME NEW t \in Request, Fail(t) PROVE TypeOK'
  <2>1. CASE target[t] = t
    BY <1>7, <2>1 DEF Fail
  <2>2. CASE target[t] # t
    BY <1>7, <2>2 DEF Fail
  <2> QED BY <2>1, <2>2
<1>8. ASSUME NEW u \in User, Promote(u) \/ Demote(u) PROVE TypeOK'
  BY <1>8 DEF Promote, Demote
<1>9. ASSUME NEW a \in Area, NEW needs \in BOOLEAN, CreateArea(a, needs) PROVE TypeOK'
  BY <1>9 DEF CreateArea
<1>10. CASE UNCHANGED vars
  BY <1>10 DEF vars
<1> QED
  BY <1>1, <1>2, <1>3, <1>4, <1>5, <1>6, <1>7, <1>8, <1>9, <1>10 DEF Next, Step

-----------------------------------------------------------------------------
\* Every step keeps what requests under way rely on.
LEMMA UnderwayKept == IInv /\ [Next]_vars => Underway'
<1> SUFFICES ASSUME IInv, [Next]_vars PROVE Underway'
  OBVIOUS
<1> USE ReservationsAssumption
    DEF IInv, TypeOK, Underway, rows, range, roles, args, Goto, Answer, NoRow, Status, Time
<1>1. ASSUME NEW t \in Request, NEW u \in User, StartCreate(t, u) PROVE Underway'
  BY <1>1 DEF StartCreate
<1>2. ASSUME NEW t \in Request, NEW u \in User,
             NEW s \in {"approved", "rejected", "cancelled"}, NEW r \in Request,
             Decide(t, u, s, r)
      PROVE  Underway'
  BY <1>2 DEF Decide
<1>3. ASSUME NEW t \in Request, ReadArea(t) PROVE Underway'
  BY <1>3 DEF ReadArea
<1>4. ASSUME NEW t \in Request, InsertReservation(t) PROVE Underway'
  <2>1. CASE Conflict(t)
    BY <1>4, <2>1 DEF InsertReservation
  <2>2. CASE ~Conflict(t)
    BY <1>4, <2>2 DEF InsertReservation
  <2> QED BY <2>1, <2>2
<1>5. ASSUME NEW t \in Request, ReadRole(t) PROVE Underway'
  BY <1>5 DEF ReadRole
<1>6. ASSUME NEW t \in Request, UpdateStatus(t) PROVE Underway'
  BY <1>6 DEF UpdateStatus
<1>7. ASSUME NEW t \in Request, Fail(t) PROVE Underway'
  <2>1. CASE target[t] = t
    BY <1>7, <2>1 DEF Fail
  <2>2. CASE target[t] # t
    BY <1>7, <2>2 DEF Fail
  <2> QED BY <2>1, <2>2
<1>8. ASSUME NEW u \in User, Promote(u) \/ Demote(u) PROVE Underway'
  BY <1>8 DEF Promote, Demote
<1>9. ASSUME NEW a \in Area, NEW needs \in BOOLEAN, CreateArea(a, needs) PROVE Underway'
  BY <1>9 DEF CreateArea
<1>10. CASE UNCHANGED vars
  BY <1>10 DEF vars
<1> QED
  BY <1>1, <1>2, <1>3, <1>4, <1>5, <1>6, <1>7, <1>8, <1>9, <1>10 DEF Next, Step

\* A row whose range changes is not there, and a row that becomes active was
\* compared with all that are.
LEMMA NoConflictKept == IInv /\ [Next]_vars => NoConflict'
<1> SUFFICES ASSUME IInv, [Next]_vars PROVE NoConflict'
  OBVIOUS
<1> USE ReservationsAssumption DEF rows, range, roles, args
<1>1. ASSUME NEW p \in Request,
             \A r \in Request \ {p} :
               area'[r] = area[r] /\ start'[r] = start[r] /\ end'[r] = end[r]
               /\ status'[r] = status[r],
             status'[p] \notin {"pending", "approved"}
      PROVE  NoConflict'
  BY <1>1 DEF IInv, NoConflict, Active, Overlap
<1>2. ASSUME NEW p \in Request, UNCHANGED range, ~Conflict(p),
             \A r \in Request \ {p} : status'[r] = status[r]
      PROVE  NoConflict'
  <2> SUFFICES ASSUME NEW r \in Request, NEW s \in Request, r # s, Active(r)', Active(s)'
               PROVE  ~Overlap(r, s)
    BY <1>2 DEF NoConflict, Overlap
  <2>1. CASE r = p
    BY <1>2, <2>1 DEF Conflict, Active
  <2>2. CASE s = p
    BY <1>2, <2>2, OverlapSymmetric DEF Conflict, Active
  <2>3. CASE r # p /\ s # p
    BY <1>2, <2>3 DEF IInv, NoConflict, Active
  <2> QED BY <2>1, <2>2, <2>3
<1>3. ASSUME UNCHANGED <<status, range>> PROVE NoConflict'
  BY <1>3 DEF IInv, NoConflict, Active, Overlap
<1>4. ASSUME NEW t \in Request, NEW u \in User, StartCreate(t, u) PROVE NoConflict'
  <2>1. status'[t] = None
    BY <1>4 DEF StartCreate, IInv, Underway
  <2>2. \A r \in Request \ {t} :
          area'[r] = area[r] /\ start'[r] = start[r] /\ end'[r] = end[r]
          /\ status'[r] = status[r]
    BY <1>4 DEF StartCreate, IInv, TypeOK
  <2> QED BY <1>1, <2>1, <2>2
<1>5. ASSUME NEW t \in Request, InsertReservation(t) PROVE NoConflict'
  <2>1. CASE Conflict(t)
    <3>1. status'[t] = None
      BY <1>5, <2>1 DEF InsertReservation, IInv, Underway
    <3>2. \A r \in Request \ {t} :
            area'[r] = area[r] /\ start'[r] = start[r] /\ end'[r] = end[r]
            /\ status'[r] = status[r]
      BY <1>5, <2>1 DEF InsertReservation, NoRow, IInv, TypeOK
    <3> QED BY <1>1, <3>1, <3>2
  <2>2. CASE ~Conflict(t)
    <3>1. UNCHANGED range /\ \A r \in Request \ {t} : status'[r] = status[r]
      BY <1>5, <2>2 DEF InsertReservation, IInv, TypeOK
    <3> QED BY <1>2, <2>2, <3>1
  <2> QED BY <2>1, <2>2
<1>6. ASSUME NEW t \in Request, UpdateStatus(t) PROVE NoConflict'
  <2> DEFINE p == target[t]
  <2>1. p \in Request /\ new[t] \in {"approved", "rejected", "cancelled"}
    BY <1>6 DEF UpdateStatus, IInv, Underway
  <2>2. CASE new[t] = "approved" /\ Conflict(p)
    BY <1>3, <1>6, <2>2 DEF UpdateStatus
  <2>3. CASE ~(new[t] = "approved" /\ Conflict(p))
    <3>1. UNCHANGED range /\ \A r \in Request \ {p} : status'[r] = status[r]
      BY <1>6, <2>1, <2>3 DEF UpdateStatus, IInv, TypeOK
    <3>2. status'[p] = new[t]
      BY <1>6, <2>1, <2>3 DEF UpdateStatus, IInv, TypeOK
    <3>3. CASE new[t] = "approved"
      BY <1>2, <2>1, <2>3, <3>1, <3>3
    <3>4. CASE new[t] # "approved"
      BY <1>1, <2>1, <3>1, <3>2, <3>4 DEF range
    <3> QED BY <3>3, <3>4
  <2> QED BY <2>2, <2>3
<1>7. ASSUME NEW t \in Request, Fail(t) PROVE NoConflict'
  <2>1. CASE target[t] = t
    <3>1. status'[t] = None
      BY <1>7 DEF Fail, IInv, Underway
    <3>2. \A r \in Request \ {t} :
            area'[r] = area[r] /\ start'[r] = start[r] /\ end'[r] = end[r]
            /\ status'[r] = status[r]
      BY <1>7, <2>1 DEF Fail, NoRow, IInv, TypeOK
    <3> QED BY <1>1, <3>1, <3>2
  <2>2. CASE target[t] # t
    BY <1>3, <1>7, <2>2 DEF Fail
  <2> QED BY <2>1, <2>2
<1>8. ASSUME NEW t \in Request,
             ReadArea(t) \/ ReadRole(t)
             \/ \E u \in User, s \in {"approved", "rejected", "cancelled"}, r \in Request :
                  Decide(t, u, s, r)
      PROVE  NoConflict'
  BY <1>3, <1>8 DEF ReadArea, ReadRole, Decide
<1>9. ASSUME NEW u \in User, Promote(u) \/ Demote(u) PROVE NoConflict'
  BY <1>3, <1>9 DEF Promote, Demote
<1>10. ASSUME NEW a \in Area, NEW needs \in BOOLEAN, CreateArea(a, needs) PROVE NoConflict'
  BY <1>3, <1>10 DEF CreateArea
<1>11. CASE UNCHANGED vars
  BY <1>3, <1>11 DEF vars
<1> QED BY <1>4, <1>5, <1>6, <1>7, <1>8, <1>9, <1>10, <1>11 DEF Next, Step

\* The invariant holds in every reachable state.
LEMMA Invariance == Spec => []IInv
<1>1. Init => IInv
  BY ReservationsAssumption
  DEF Init, IInv, TypeOK, Underway, NoConflict, Active, Status, Time
<1>2. IInv /\ [Next]_vars => IInv'
  BY TypesKept, UnderwayKept, NoConflictKept DEF IInv
<1> QED BY <1>1, <1>2, PTL DEF Spec

\* The columns and the locals of the requests keep their types.
THEOREM TypeCorrect == Spec => []TypeOK
<1>1. IInv => TypeOK
  BY DEF IInv
<1> QED BY <1>1, Invariance, PTL

\* No common area is promised to two reservations at one instant, for any number of
\* requests, areas and instants.
THEOREM NothingHeldTwice == Spec => []NoOverlap
<1>1. IInv => NoOverlap
  <2> SUFFICES ASSUME IInv, NEW r \in Request, NEW s \in Request,
                      r # s, Active(r), Active(s)
               PROVE  Cells(r) \cap Cells(s) = {}
    BY DEF NoOverlap
  <2>1. ~Overlap(r, s)
    BY DEF IInv, NoConflict
  <2> QED BY <2>1, OverlapIsShared DEF IInv
<1> QED BY <1>1, Invariance, PTL

-----------------------------------------------------------------------------
(* Approval *)

\* Where a status comes from: from the area, or from somebody who was let through.
Sources ==
  \A t \in Request :
    /\ at[t] \in {"area", "insert"} => area[t] \in Area
    /\ status[t] # None => area[t] \in Area /\ approval[area[t]] # None
    /\ at[t] = "insert" =>
         /\ approval[area[t]] # None
         /\ new[t] = "approved" => approval[area[t]] # TRUE
    /\ at[t] = "update" /\ new[t] = "approved" => user[t] \in everManager

AInv == IInv /\ Sources /\ ApprovedByManager

\* A step that changes request p alone, and what it decides, only has to be right
\* about p and about the reservation q it writes.
LEMMA OneRequest ==
  ASSUME AInv, NEW p \in Request, NEW q \in Request,
         approval' = approval, everManager \subseteq everManager',
         \A r \in Request \ {p} :
           at'[r] = at[r] /\ area'[r] = area[r] /\ new'[r] = new[r] /\ user'[r] = user[r],
         \A r \in Request \ {q} : status'[r] = status[r] /\ approver'[r] = approver[r],
         area'[p] = area[p] \/ (status[p] = None /\ status'[p] = None),
         at'[p] \in {"area", "insert"} => area'[p] \in Area,
         at'[p] = "insert" =>
           /\ approval[area'[p]] # None
           /\ new'[p] = "approved" => approval[area'[p]] # TRUE,
         at'[p] = "update" /\ new'[p] = "approved" => user'[p] \in everManager',
         status'[q] # None => area'[q] \in Area /\ approval[area'[q]] # None,
         status'[q] = "approved" /\ approval[area'[q]] = TRUE => approver'[q] \in everManager'
  PROVE  Sources' /\ ApprovedByManager'
<1>1. ApprovedByManager'
  <2> SUFFICES ASSUME NEW r \in Request, status'[r] = "approved", approval[area'[r]] = TRUE
               PROVE  approver'[r] \in everManager'
    BY DEF ApprovedByManager
  <2>1. CASE r = q
    BY <2>1
  <2>2. CASE r # q
    <3>1. area'[r] = area[r]
      BY <2>2, ReservationsAssumption
    <3> QED BY <2>2, <3>1 DEF AInv, ApprovedByManager
  <2> QED BY <2>1, <2>2
<1>2. Sources'
  <2> SUFFICES ASSUME NEW r \in Request
               PROVE  /\ at'[r] \in {"area", "insert"} => area'[r] \in Area
                      /\ status'[r] # None => area'[r] \in Area /\ approval[area'[r]] # None
                      /\ at'[r] = "insert" =>
                           /\ approval[area'[r]] # None
                           /\ new'[r] = "approved" => approval[area'[r]] # TRUE
                      /\ at'[r] = "update" /\ new'[r] = "approved"
                           => user'[r] \in everManager'
    BY DEF Sources
  <2>1. CASE r # p /\ r # q
    BY <2>1 DEF AInv, Sources
  <2>2. CASE r # p /\ r = q
    BY <2>2 DEF AInv, Sources
  <2>3. CASE r = p /\ r = q
    BY <2>3
  <2>4. CASE r = p /\ r # q
    <3>1. status'[r] # None => area'[r] = area[r]
      BY <2>4
    <3> QED BY <2>4, <3>1 DEF AInv, Sources
  <2> QED BY <2>1, <2>2, <2>3, <2>4
<1> QED BY <1>1, <1>2

\* Areas keep their rule and roles stay in the history.
LEMMA SourcesKept == AInv /\ [Next]_vars => Sources' /\ ApprovedByManager'
<1> SUFFICES ASSUME AInv, [Next]_vars PROVE Sources' /\ ApprovedByManager'
  OBVIOUS
<1> USE ReservationsAssumption
    DEF AInv, IInv, TypeOK, Underway, rows, range, roles, args, Goto, Answer, NoRow, Status
<1>1. ASSUME NEW t \in Request, NEW u \in User, StartCreate(t, u)
      PROVE  Sources' /\ ApprovedByManager'
  <2>1. /\ approval' = approval /\ everManager' = everManager /\ status' = status
        /\ approver' = approver /\ status[t] = None
        /\ at'[t] = "area" /\ area'[t] \in Area
    BY <1>1 DEF StartCreate
  <2>2. \A r \in Request \ {t} :
          at'[r] = at[r] /\ area'[r] = area[r] /\ new'[r] = new[r] /\ user'[r] = user[r]
    BY <1>1 DEF StartCreate
  <2> QED BY <2>1, <2>2, OneRequest
<1>2. ASSUME NEW t \in Request, NEW u \in User,
             NEW s \in {"approved", "rejected", "cancelled"}, NEW r \in Request,
             Decide(t, u, s, r)
      PROVE  Sources' /\ ApprovedByManager'
  BY <1>2 DEF Decide, Sources, ApprovedByManager
<1>3. ASSUME NEW t \in Request, ReadArea(t) PROVE Sources' /\ ApprovedByManager'
  BY <1>3 DEF ReadArea, Sources, ApprovedByManager
<1>4. ASSUME NEW t \in Request, InsertReservation(t) PROVE Sources' /\ ApprovedByManager'
  <2>1. /\ approval' = approval /\ everManager' = everManager /\ approver' = approver
        /\ status[t] = None /\ at'[t] \in {"taken", "ok"}
    BY <1>4 DEF InsertReservation
  <2>2. \A r \in Request \ {t} :
          /\ at'[r] = at[r] /\ area'[r] = area[r] /\ new'[r] = new[r] /\ user'[r] = user[r]
          /\ status'[r] = status[r]
    BY <1>4 DEF InsertReservation
  <2>3. status'[t] = None \/ (status'[t] = new[t] /\ area'[t] = area[t])
    BY <1>4, <2>1 DEF InsertReservation
  <2>4. /\ area[t] \in Area /\ approval[area[t]] # None
        /\ new[t] = "approved" => approval[area[t]] # TRUE
    BY <1>4 DEF InsertReservation, Sources
  <2>5. area'[t] = area[t] \/ (status[t] = None /\ status'[t] = None)
    BY <2>1, <2>3
  <2>6. status'[t] # None => area'[t] \in Area /\ approval[area'[t]] # None
    BY <2>3, <2>4
  <2>7. ~(status'[t] = "approved" /\ approval[area'[t]] = TRUE)
    BY <2>3, <2>4
  <2> HIDE DEF AInv, IInv, TypeOK, Underway
  <2> QED BY <2>1, <2>2, <2>5, <2>6, <2>7, OneRequest
<1>5. ASSUME NEW t \in Request, ReadRole(t) PROVE Sources' /\ ApprovedByManager'
  BY <1>5 DEF ReadRole, Sources, ApprovedByManager
<1>6. ASSUME NEW t \in Request, UpdateStatus(t) PROVE Sources' /\ ApprovedByManager'
  <2> DEFINE q == target[t]
  <2>1. /\ approval' = approval /\ everManager' = everManager /\ area' = area
        /\ status[t] = None /\ q \in Request /\ status[q] # None
        /\ at'[t] \in {"taken", "ok"}
    BY <1>6 DEF UpdateStatus
  <2>2. /\ \A r \in Request \ {t} :
             at'[r] = at[r] /\ new'[r] = new[r] /\ user'[r] = user[r]
        /\ \A r \in Request \ {q} : status'[r] = status[r] /\ approver'[r] = approver[r]
    BY <1>6 DEF UpdateStatus
  <2>3. \/ status'[q] = status[q] /\ approver'[q] = approver[q]
        \/ status'[q] = new[t] /\ new[t] = "approved" /\ approver'[q] = user[t]
        \/ status'[q] = new[t] /\ new[t] # "approved"
    BY <1>6, <2>1 DEF UpdateStatus
  <2>4. area[q] \in Area /\ approval[area[q]] # None
    BY <2>1 DEF Sources
  <2>5. new[t] = "approved" => user[t] \in everManager
    BY <1>6 DEF UpdateStatus, Sources
  <2>6. status'[q] = "approved" /\ approval[area'[q]] = TRUE => approver'[q] \in everManager'
    BY <2>1, <2>3, <2>5 DEF ApprovedByManager
  <2>7. /\ status'[q] # None => area'[q] \in Area /\ approval[area'[q]] # None
        /\ area'[t] = area[t]
    BY <2>1, <2>4
  <2> HIDE DEF AInv, IInv, TypeOK, Underway, q
  <2> QED BY <2>1, <2>2, <2>6, <2>7, OneRequest
<1>7. ASSUME NEW t \in Request, Fail(t) PROVE Sources' /\ ApprovedByManager'
  <2>1. /\ approval' = approval /\ everManager' = everManager /\ status' = status
        /\ approver' = approver /\ status[t] = None /\ at'[t] = "failed"
    BY <1>7 DEF Fail
  <2>2. \A r \in Request \ {t} :
          at'[r] = at[r] /\ area'[r] = area[r] /\ new'[r] = new[r] /\ user'[r] = user[r]
    BY <1>7 DEF Fail
  <2> QED BY <2>1, <2>2, OneRequest
<1>8. ASSUME NEW u \in User, Promote(u) \/ Demote(u) PROVE Sources' /\ ApprovedByManager'
  BY <1>8 DEF Promote, Demote, Sources, ApprovedByManager
<1>9. ASSUME NEW a \in Area, NEW needs \in BOOLEAN, CreateArea(a, needs)
      PROVE  Sources' /\ ApprovedByManager'
  <2>1. \A b \in Area : approval[b] # None => approval'[b] = approval[b]
    BY <1>9 DEF CreateArea
  <2> QED BY <1>9, <2>1 DEF CreateArea, Sources, ApprovedByManager
<1>10. CASE UNCHANGED vars
  BY <1>10 DEF vars, Sources, ApprovedByManager
<1> QED
  BY <1>1, <1>2, <1>3, <1>4, <1>5, <1>6, <1>7, <1>8, <1>9, <1>10 DEF Next, Step

\* In an area that requires approval every approved reservation was approved by
\* somebody whom managerOnly found to have a managing role in some building: the one
\* of the URL, which need not be the area's.
THEOREM ApprovalIsManagers == Spec => []ApprovedByManager
<1>1. Init => Sources /\ ApprovedByManager
  BY ReservationsAssumption DEF Init, Sources, ApprovedByManager
<1>2. IInv /\ IInv' /\ Sources /\ ApprovedByManager /\ [Next]_vars
        => Sources' /\ ApprovedByManager'
  BY SourcesKept DEF AInv
<1> QED BY <1>1, <1>2, Invariance, PTL DEF Spec

-----------------------------------------------------------------------------
(* Refinement *)

\* A conflict is what Booking calls taken.
LEMMA ConflictIsTaken ==
  ASSUME TypeOK, NEW r \in Request PROVE Conflict(r) <=> Promise!Taken(r)
  BY OverlapIsShared DEF Conflict, Promise!Taken

\* A request without a range claims nothing.
LEMMA NoCells ==
  ASSUME NEW r \in Request, start[r] = 0, end[r] = 0 PROVE Cells(r) = {}
<1>1. start[r] .. end[r] - 1 = {}
  OBVIOUS
<1> QED BY <1>1 DEF Cells

\* Every step is a step of Booking or leaves its variables alone.
LEMMA StepImplements == IInv /\ IInv' /\ [Next]_vars => [Promise!Next]_(Promise!vars)
<1> SUFFICES ASSUME IInv, IInv', [Next]_vars PROVE [Promise!Next]_(Promise!vars)
  OBVIOUS
<1> USE DEF rows, range, roles, args
<1> DEFINE claim  == [r \in Request |-> Cells(r)]
           held   == {r \in Request : Active(r)}
           answer == [t \in Request |->
                        IF at[t] \in {"ok", "taken", "failed"} THEN at[t] ELSE "none"]
<1>1. ASSUME UNCHANGED range PROVE claim' = claim
  BY <1>1 DEF Cells
<1>2. ASSUME UNCHANGED status PROVE held' = held
  BY <1>2 DEF Active
<1>3. ASSUME NEW t \in Request, NEW step \in {"idle", "area", "insert", "role", "update"},
             at[t] \in {"idle", "area", "insert", "role", "update"}, Goto(t, step)
      PROVE  answer' = answer
  BY <1>3 DEF Goto, IInv, TypeOK
<1>4. ASSUME NEW t \in Request, NEW what \in {"ok", "taken", "failed"},
             at[t] \in {"idle", "area", "insert", "role", "update"}, Answer(t, what)
      PROVE  Promise!Tell(t, what)
  BY <1>4 DEF Goto, Answer, Promise!Tell, IInv, TypeOK
<1>5. ASSUME NEW t \in Request, NoRow(t), status[t] = None PROVE Promise!Drop(t)
  <2>1. Cells(t)' = {}
    <3>1. start'[t] = 0 /\ end'[t] = 0
      BY <1>5 DEF NoRow, IInv, TypeOK
    <3>2. start'[t] .. end'[t] - 1 = {}
      BY <3>1
    <3> QED BY <3>2 DEF Cells
  <2>2. \A r \in Request \ {t} : Cells(r)' = Cells(r)
    BY <1>5 DEF NoRow, Cells, IInv, TypeOK
  <2>3. t \notin held
    BY <1>5, ReservationsAssumption DEF Active
  <2> QED BY <2>1, <2>2, <2>3 DEF Promise!Drop
<1>6. ASSUME NEW t \in Request, NEW u \in User, StartCreate(t, u)
      PROVE  Promise!Ask(t)
  <2>1. claim[t] = {}
    BY <1>6, NoCells DEF StartCreate, IInv, Underway
  <2>2. t \notin held
    BY <1>6, ReservationsAssumption DEF StartCreate, IInv, Underway, Active
  <2>3. \A r \in Request \ {t} : Cells(r)' = Cells(r)
    BY <1>6 DEF StartCreate, Cells, IInv, TypeOK
  <2>4. Cells(t)' \in SUBSET (Area \X Time)
    <3>1. area'[t] \in Area /\ start'[t] \in Time /\ end'[t] \in Time
      BY <1>6 DEF StartCreate, IInv, TypeOK
    <3>2. start'[t] .. end'[t] - 1 \subseteq Time
      BY <3>1, ReservationsAssumption DEF Time
    <3> QED BY <3>1, <3>2 DEF Cells
  <2>5. claim' = [claim EXCEPT ![t] = Cells(t)']
    BY <2>3
  <2>6. held' = held /\ answer' = answer
    BY <1>2, <1>3, <1>6 DEF StartCreate
  <2> QED BY <2>1, <2>2, <2>4, <2>5, <2>6 DEF Promise!Ask
<1>7. ASSUME NEW t \in Request, InsertReservation(t)
      PROVE  Promise!Refuse(t, t) \/ Promise!Take(t, t)
  <2>0. status[t] = None /\ new[t] \in {"pending", "approved"}
    BY <1>7 DEF InsertReservation, IInv, Underway
  <2>1. CASE Conflict(t)
    <3>1. Promise!Taken(t)
      BY <2>1, ConflictIsTaken DEF IInv
    <3>2. Promise!Tell(t, "taken") /\ Promise!Drop(t) /\ held' = held
      BY <1>2, <1>4, <1>5, <1>7, <2>0, <2>1 DEF InsertReservation
    <3> QED BY <3>1, <3>2 DEF Promise!Refuse
  <2>2. CASE ~Conflict(t)
    <3>1. ~Promise!Taken(t)
      BY <2>2, ConflictIsTaken DEF IInv
    <3>2. Promise!Tell(t, "ok") /\ claim' = claim
      BY <1>1, <1>4, <1>7, <2>2 DEF InsertReservation
    <3>3. held' = held \cup {t}
      BY <1>7, <2>0, <2>2 DEF InsertReservation, Active, IInv, TypeOK
    <3> QED BY <3>1, <3>2, <3>3 DEF Promise!Take
  <2> QED BY <2>1, <2>2
<1>8. ASSUME NEW t \in Request, UpdateStatus(t)
      PROVE  \E r \in Request :
               Promise!Refuse(t, r) \/ Promise!Take(t, r) \/ Promise!Release(t, r)
  <2> DEFINE p == target[t]
  <2>1. p \in Request /\ new[t] \in {"approved", "rejected", "cancelled"}
    BY <1>8 DEF UpdateStatus, IInv, Underway
  <2>2. claim' = claim
    BY <1>1, <1>8 DEF UpdateStatus
  <2>3. CASE new[t] = "approved" /\ Conflict(p)
    <3>1. Promise!Taken(p)
      BY <2>1, <2>3, ConflictIsTaken DEF IInv
    <3>2. Promise!Tell(t, "taken") /\ held' = held
      BY <1>2, <1>4, <1>8, <2>3 DEF UpdateStatus
    <3> QED BY <2>1, <2>2, <3>1, <3>2 DEF Promise!Refuse
  <2>4. CASE ~(new[t] = "approved" /\ Conflict(p))
    <3>1. Promise!Tell(t, "ok") /\ status' = [status EXCEPT ![p] = new[t]]
      BY <1>4, <1>8, <2>4 DEF UpdateStatus
    <3>2. CASE new[t] = "approved"
      <4>1. ~Promise!Taken(p)
        BY <2>1, <2>4, <3>2, ConflictIsTaken DEF IInv
      <4>2. held' = held \cup {p}
        BY <2>1, <3>1, <3>2 DEF Active, IInv, TypeOK
      <4> QED BY <2>1, <2>2, <3>1, <4>1, <4>2 DEF Promise!Take
    <3>3. CASE new[t] # "approved"
      <4>1. held' = held \ {p}
        BY <2>1, <3>1, <3>3 DEF Active, IInv, TypeOK
      <4> QED BY <2>1, <2>2, <3>1, <4>1 DEF Promise!Release
    <3> QED BY <3>2, <3>3
  <2> QED BY <2>3, <2>4
<1>9. ASSUME NEW t \in Request, Fail(t) PROVE Promise!Fail(t)
  <2>1. Promise!Tell(t, "failed") /\ held' = held
    BY <1>2, <1>4, <1>9 DEF Fail
  <2>2. CASE target[t] = t
    <3>1. NoRow(t) /\ status[t] = None
      BY <1>9, <2>2 DEF Fail, IInv, Underway
    <3> QED BY <1>5, <2>1, <3>1 DEF Promise!Fail
  <2>3. CASE target[t] # t
    BY <1>1, <1>9, <2>1, <2>3 DEF Fail, Promise!Fail
  <2> QED BY <2>2, <2>3
<1>10. ASSUME NEW t \in Request,
              ReadArea(t) \/ ReadRole(t)
              \/ \E u \in User, s \in {"approved", "rejected", "cancelled"}, r \in Request :
                   Decide(t, u, s, r)
       PROVE  UNCHANGED Promise!vars
  <2>1. claim' = claim /\ held' = held
    BY <1>1, <1>2, <1>10 DEF ReadArea, ReadRole, Decide
  <2>2. answer' = answer
    BY <1>3, <1>10 DEF ReadArea, ReadRole, Decide
  <2> QED BY <2>1, <2>2 DEF Promise!vars
<1>11. ASSUME UNCHANGED <<status, range, at>> PROVE UNCHANGED Promise!vars
  BY <1>1, <1>2, <1>11 DEF Promise!vars
<1>12. ASSUME NEW u \in User, Promote(u) \/ Demote(u) PROVE UNCHANGED Promise!vars
  BY <1>11, <1>12 DEF Promote, Demote
<1>13. ASSUME NEW a \in Area, NEW needs \in BOOLEAN, CreateArea(a, needs)
       PROVE  UNCHANGED Promise!vars
  BY <1>11, <1>13 DEF CreateArea
<1>14. CASE UNCHANGED vars
  BY <1>11, <1>14 DEF vars
<1>15. ASSUME NEW t \in Request, Step(t) PROVE [Promise!Next]_(Promise!vars)
  BY <1>6, <1>7, <1>8, <1>9, <1>10, <1>15 DEF Step, Promise!Next
<1> QED BY <1>12, <1>13, <1>14, <1>15 DEF Next

\* Creating, approving, rejecting and cancelling reservations do what Booking
\* promises, for any number of requests, areas and instants.
THEOREM ReservationsImplementBooking == Spec => ImplementsBooking
<1>1. Init => Promise!Init
  <2> SUFFICES ASSUME Init PROVE Promise!Init
    OBVIOUS
  <2>1. \A r \in Request : Cells(r) = {}
    BY NoCells DEF Init
  <2>2. \A r \in Request : ~Active(r) /\ at[r] = "idle"
    BY ReservationsAssumption DEF Init, Active
  <2> QED BY <2>1, <2>2 DEF Promise!Init
<1> QED BY <1>1, StepImplements, Invariance, PTL DEF Spec, ImplementsBooking, Promise!Spec
=============================================================================
