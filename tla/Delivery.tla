------------------------------ MODULE Delivery ------------------------------
(***************************************************************************)
(* What the hub promises to a connected peer, with no channel, map, lock,  *)
(* wrapper or goroutine in sight: best-effort delivery.  A payload reaches *)
(* a connection for its own sake at most once, only while the connection   *)
(* is up, and only when it was sent to the connection's user or broadcast  *)
(* to one of the buildings on the connection's list without excluding that *)
(* user.  What was meant in this way for a connection that has ended may   *)
(* go astray to any connection that is up.  Any payload may be lost and    *)
(* payloads may overtake each other.                                       *)
(***************************************************************************)
EXTENDS Naturals, Sequences, SequencesExt

CONSTANTS Conn, User, Building, UserOf, Memberships, Message, Announcement, None

VARIABLES
  up,    \* the connections that are up
  list,  \* the buildings each connection listens to
  sent,  \* the user each message was sent to
  cast,  \* the broadcasts submitted
  got,   \* what each peer has received of what was meant for it, in order
  stray  \* what peers have received that was meant for an ended connection

vars == <<up, list, sent, cast, got, stray>>

Eligible(k, p) ==
  \/ p \in Message /\ sent[p] = UserOf[k]
  \/ \E r \in cast : /\ r.item = p
                     /\ r.building \in ToSet(list[k])
                     /\ r.exclude # UserOf[k]

Init ==
  /\ up = {}
  /\ list = [k \in Conn |-> <<>>]
  /\ sent = [m \in Message |-> None]
  /\ cast = {}
  /\ got = [k \in Conn |-> <<>>]
  /\ stray = {}

\* A connection comes up with its list; once, if it has anything to listen to.
Connect(k) ==
  /\ list[k] = <<>>
  /\ \E s \in Memberships : list' = [list EXCEPT ![k] = s]
  /\ up' = up \cup {k}
  /\ UNCHANGED <<sent, cast, got, stray>>

Disconnect(k) ==
  /\ up' = up \ {k}
  /\ UNCHANGED <<list, sent, cast, got, stray>>

Send(m) ==
  /\ sent[m] = None
  /\ \E u \in User : sent' = [sent EXCEPT ![m] = u]
  /\ UNCHANGED <<up, list, cast, got, stray>>

Broadcast(a) ==
  /\ a \notin {r.item : r \in cast}
  /\ \E b \in Building, x \in User \cup {None} :
       cast' = cast \cup {[item |-> a, building |-> b, exclude |-> x]}
  /\ UNCHANGED <<up, list, sent, got, stray>>

Deliver(k) ==
  /\ k \in up
  /\ \E p \in Message \cup Announcement :
       /\ Eligible(k, p)
       /\ p \notin ToSet(got[k])
       /\ got' = [got EXCEPT ![k] = Append(@, p)]
  /\ UNCHANGED <<up, list, sent, cast, stray>>

\* k receives what was meant for j.
GoAstray(k, j) ==
  /\ k \in up /\ j \notin up /\ list[j] # <<>>
  /\ \E p \in Message \cup Announcement :
       Eligible(j, p) /\ stray' = stray \cup {<<k, j, p>>}
  /\ UNCHANGED <<up, list, sent, cast, got>>

Next ==
  \/ \E k \in Conn : Connect(k) \/ Disconnect(k) \/ Deliver(k)
  \/ \E k, j \in Conn : GoAstray(k, j)
  \/ \E m \in Message : Send(m)
  \/ \E a \in Announcement : Broadcast(a)

Spec == Init /\ [][Next]_vars
=============================================================================
