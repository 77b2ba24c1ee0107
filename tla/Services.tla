------------------------------ MODULE Services ------------------------------
(***************************************************************************)
(* The services of one building together: Desk and Ledger share the calls, *)
(* the roles that managerOnly reads, and GetDashboard, which goes through  *)
(* the tables of both.                                                     *)
(***************************************************************************)
EXTENDS Desk, Ledger

servicesVars == <<callVars, deskVars, ledgerVars>>

\* A new building, or one in use.
ServicesInit == CallsInit /\ \E inUse \in BOOLEAN : DeskInit(inUse) /\ LedgerInit(inUse)

-----------------------------------------------------------------------------
\* A call of a manager that has one statement; what it says is chosen there.
StartManage(t, u) == Begin(t, u, "manage", "role")
MayManage(t) == stage[t] = "role" /\ kind[t] = "manage" /\ PassesManagerOnly(t) /\ Move(t, "act")

-----------------------------------------------------------------------------
(* GetDashboard: whoever asks, a statement for each number; those of the residents *)
(* and of the pending dues read what nothing writes *)

StartDashboard(t) == Begin(t, None, "dashboard", "units")

CountUnits(t) ==
  /\ stage[t] = "units"
  /\ result' = [result EXCEPT ![t] = Cardinality({u \in Unit : occupancy[u] # None})]
  /\ Move(t, "occupied")

CountOccupied(t) ==
  /\ stage[t] = "occupied"
  /\ result' = [result EXCEPT ![t] = @ - Cardinality({u \in Unit : occupancy[u] = "occupied"})]
  /\ Move(t, "requests")

CountOpen(t) == stage[t] = "requests" /\ Move(t, "done")

DashboardStep(t) ==
  \/ (CountUnits(t) \/ CountOccupied(t)) /\ UNCHANGED ledgerRows
  \/ CountOpen(t) /\ UNCHANGED ledgerVars

-----------------------------------------------------------------------------
CallStep(t) ==
  \/ DeskStep(t) /\ UNCHANGED ledgerVars
  \/ LedgerStep(t) /\ UNCHANGED deskVars
  \/ DashboardStep(t) /\ UNCHANGED deskVars
  \/ /\ StartDashboard(t) \/ \E u \in User : StartManage(t, u)
     /\ UNCHANGED <<deskVars, ledgerVars>>
  \/ MayManage(t) /\ UNCHANGED <<deskVars, ledgerVars>>
  \/ Break(t) /\ Forget(t) /\ UNCHANGED <<deskRows, shown, ledgerVars>>

ServicesNext ==
  \/ \E t \in Call : CallStep(t)
  \/ (\E u \in User : Promote(u) \/ Demote(u)) /\ UNCHANGED <<deskVars, ledgerVars>>

ServicesSpec == ServicesInit /\ [][ServicesNext]_servicesVars

-----------------------------------------------------------------------------
\* The variables have the types of the columns and of the Go locals.
ServicesTypeOK == CallsTypeOK /\ DeskTypeOK /\ LedgerTypeOK

\* Part of DifferencesExplained: VacantUnits of a dashboard, the difference of two
\* counts, is negative only if a unit was written between them: never by units under
\* maintenance, nor by owners whose units are not marked as occupied.
VacantAddsUp ==
  \A t \in Call : kind[t] = "dashboard" /\ stage[t] = "done" /\ result[t] < 0 => t \in stale

\* No difference a reader computes is negative for a reason other than these.
DifferencesExplained == PendingExplained /\ VacantAddsUp
=============================================================================
