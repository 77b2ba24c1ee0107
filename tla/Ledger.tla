------------------------------- MODULE Ledger -------------------------------
(***************************************************************************)
(* Units, dues plans and payments of one building: handlers/dues.go, the   *)
(* units of handlers/buildings.go and repository/financial_repo.go.  The   *)
(* report of one period is computed from two statements.                   *)
(***************************************************************************)
EXTENDS Calls, Integers, FiniteSets

CONSTANTS Plan, Unit, MaxAmount

ASSUME LedgerAssumption ==
  /\ IsFiniteSet(Plan) /\ IsFiniteSet(Unit)
  /\ MaxAmount \in Nat \ {0} /\ None \notin 0 .. MaxAmount
  /\ None \notin {"occupied", "vacant", "maintenance"}

VARIABLES
  amount,    \* dues_plans.amount of the plans that exist
  current,   \* the plans of the period the reports are about
  paid,      \* due_payments.paid_amount of each plan and unit, 0 without a row
  occupancy, \* units.status
  overpaid,  \* history: a plan of the period was paid more than its amount
  result     \* TotalPending of a report, VacantUnits of a dashboard

ledgerRows == <<amount, current, paid, occupancy, overpaid>>
ledgerVars == <<ledgerRows, result>>

Amount == 1 .. MaxAmount

\* The ledger of a building in use has plans for the period, and units.
LedgerInit(inUse) ==
  /\ amount = [p \in Plan |-> IF inUse THEN MaxAmount ELSE None]
  /\ current = {p \in Plan : inUse}
  /\ paid = [p \in Plan |-> [u \in Unit |-> 0]]
  /\ occupancy = [u \in Unit |-> IF inUse THEN "vacant" ELSE None]
  /\ overpaid = FALSE
  /\ result = [t \in Call |-> 0]

\* SUM of a column of amounts, each of them counted one by one.
Total(sums) == Cardinality({x \in (DOMAIN sums) \X Amount : x[2] <= sums[x[1]]})

\* What the units have paid for a plan in all, and for the plans of a period.
PaidFor(pay, p) == Total(pay[p])
PaidIn(pay, period) == Total([x \in period \X Unit |-> pay[x[1]][x[2]]])

\* Those who have run their first statement and not their second.
Readers(step) == {t \in Call : stage[t] = step}

\* A call that ends with plans and payments as given.
Store(t, plans, period, pay) ==
  /\ amount' = plans
  /\ current' = period
  /\ paid' = pay
  /\ overpaid' = (overpaid \/ \E p \in period : PaidFor(pay, p) > plans[p])
  /\ Wrote(t, Readers("due"))
  /\ UNCHANGED <<occupancy, result>>

-----------------------------------------------------------------------------
(* Plans and units, behind managerOnly *)

\* Here and in CreateUnit the new row is in the building of the URL.
CreateDues(t, p, x) ==
  /\ stage[t] = "act" /\ t \notin away /\ amount[p] = None
  /\ \E period \in {current, current \cup {p}} : Store(t, [amount EXCEPT ![p] = x], period, paid)

\* Another amount, another period; the payments stay.
UpdateDues(t, p, x) ==
  /\ stage[t] = "act" /\ amount[p] # None
  /\ \E period \in {current \ {p}, current \cup {p}} :
       Store(t, [amount EXCEPT ![p] = x], period, paid)

\* The payments go with the plan: ON DELETE CASCADE.
DeleteDues(t, p) ==
  /\ stage[t] = "act" /\ amount[p] # None
  /\ Store(t, [amount EXCEPT ![p] = None], current \ {p}, [paid EXCEPT ![p] = [u \in Unit |-> 0]])

\* CreateUnit makes a unit with an owner occupied, others vacant.
CreateUnit(t, u, s) ==
  /\ stage[t] = "act" /\ t \notin away /\ occupancy[u] = None
  /\ s \in {"occupied", "vacant"}
  /\ occupancy' = [occupancy EXCEPT ![u] = s]
  /\ Wrote(t, Readers("occupied"))
  /\ UNCHANGED <<amount, current, paid, overpaid, result>>

UpdateUnit(t, u, s) ==
  /\ stage[t] = "act" /\ occupancy[u] # None
  /\ occupancy' = [occupancy EXCEPT ![u] = s]
  /\ Wrote(t, Readers("occupied"))
  /\ UNCHANGED <<amount, current, paid, overpaid, result>>

\* Payments go with the unit too.
DeleteUnit(t, u) ==
  /\ stage[t] = "act" /\ occupancy[u] # None
  /\ occupancy' = [occupancy EXCEPT ![u] = None]
  /\ paid' = [p \in Plan |-> [paid[p] EXCEPT ![u] = 0]]
  /\ Wrote(t, Readers("due") \cup Readers("occupied"))
  /\ UNCHANGED <<amount, current, overpaid, result>>

-----------------------------------------------------------------------------
\* PayDues, open to everybody: an upsert on (dues_plan_id, unit_id) in status
\* "paid" that looks at no amount; the foreign keys want the plan and the unit.
PayDues(t, p, u, x) ==
  /\ stage[t] = "idle"
  /\ amount[p] # None /\ occupancy[u] # None
  /\ Store(t, amount, current, [paid EXCEPT ![p][u] = x])

-----------------------------------------------------------------------------
(* GetDuesReport: the payments, then the amounts, whoever asks *)

StartReport(t) == Begin(t, None, "report", "payments") /\ UNCHANGED ledgerVars

\* Mutant: the payments of every period are added up.
ReadAllPayments(t) ==
  /\ stage[t] = "payments"
  /\ result' = [result EXCEPT ![t] = -PaidIn(paid, Plan)]
  /\ Move(t, "due")
  /\ UNCHANGED ledgerRows

ReadPayments(t) ==
  /\ stage[t] = "payments"
  /\ result' = [result EXCEPT ![t] = -PaidIn(paid, current)]
  /\ Move(t, "due")
  /\ UNCHANGED ledgerRows

\* SUM(amount) counts a plan once, however many units are to pay it.
ReadDue(t) ==
  /\ stage[t] = "due"
  /\ result' = [result EXCEPT ![t] = @ + Total([p \in current |-> amount[p]])]
  /\ Move(t, "done")
  /\ UNCHANGED ledgerRows

LedgerStep(t) ==
  \/ StartReport(t) \/ ReadPayments(t) \/ ReadDue(t)
  \/ \E p \in Plan :
       \/ DeleteDues(t, p)
       \/ \E x \in Amount : CreateDues(t, p, x) \/ UpdateDues(t, p, x)
       \/ \E u \in Unit, x \in Amount : PayDues(t, p, u, x)
  \/ \E u \in Unit :
       \/ DeleteUnit(t, u)
       \/ \E s \in {"occupied", "vacant", "maintenance"} : CreateUnit(t, u, s) \/ UpdateUnit(t, u, s)

-----------------------------------------------------------------------------
LedgerTypeOK ==
  /\ amount \in [Plan -> Amount \cup {None}]
  /\ current \subseteq {p \in Plan : amount[p] # None}
  /\ paid \in [Plan -> [Unit -> 0 .. MaxAmount]]
  /\ occupancy \in [Unit -> {"occupied", "vacant", "maintenance", None}]
  /\ overpaid \in BOOLEAN
  /\ result \in [Call -> Int]

\* Part of DifferencesExplained: TotalPending of a report is negative only if a plan
\* of the period was paid more than its amount, as when two units pay the one amount
\* in full, or if a payment or plan was written between the two statements: not by
\* paying twice, nor by moving or deleting plans that have payments.
PendingExplained ==
  \A t \in Call : kind[t] = "report" /\ stage[t] = "done" /\ result[t] < 0
                    => overpaid \/ t \in stale
=============================================================================
