------------------------------ MODULE Booking -------------------------------
(***************************************************************************)
(* What the reservations of common areas promise: nothing is held twice,   *)
(* and whoever is told that the time is taken is told so because it is.    *)
(***************************************************************************)
CONSTANTS
  Request, \* calls of the API; a reservation has the name of the call that made it
  Cell     \* an area at an instant

VARIABLES
  claim,   \* the cells each reservation is for
  held,    \* the reservations that hold theirs
  answer   \* what each call was told

vars == <<claim, held, answer>>

Init ==
  /\ claim = [r \in Request |-> {}]
  /\ held = {}
  /\ answer = [t \in Request |-> "none"]

Tell(t, what) == answer[t] = "none" /\ answer' = [answer EXCEPT ![t] = what]

\* Others hold some of what r is for.
Taken(r) == \E s \in held \ {r} : claim[r] \cap claim[s] # {}

\* Somebody asks for cells; that alone gives him nothing.
Ask(r) ==
  /\ claim[r] = {} /\ r \notin held
  /\ \E cells \in SUBSET Cell : claim' = [claim EXCEPT ![r] = cells]
  /\ UNCHANGED <<held, answer>>

\* A call lets r have its cells, for the first time or again.
Take(t, r) ==
  /\ ~Taken(r)
  /\ Tell(t, "ok")
  /\ held' = held \cup {r}
  /\ UNCHANGED claim

\* A call that asked for something on its own behalf may drop that again.
Drop(t) == t \notin held /\ claim' = [claim EXCEPT ![t] = {}]

Refuse(t, r) ==
  /\ Taken(r)
  /\ Tell(t, "taken")
  /\ UNCHANGED claim \/ Drop(t)
  /\ UNCHANGED held

Release(t, r) == Tell(t, "ok") /\ held' = held \ {r} /\ UNCHANGED claim

Fail(t) ==
  /\ Tell(t, "failed")
  /\ UNCHANGED claim \/ Drop(t)
  /\ UNCHANGED held

Next ==
  \/ \E t \in Request : Fail(t) \/ \E r \in Request : Take(t, r) \/ Refuse(t, r) \/ Release(t, r)
  \/ \E r \in Request : Ask(r)

Spec == Init /\ [][Next]_vars
=============================================================================
