----------------------------- MODULE HubProofs -----------------------------
(***************************************************************************)
(* Proofs about Hub for any numbers of connections, users, buildings and   *)
(* messages and any channel capacities.                                    *)
(*                                                                         *)
(* NoChannelPanic is not inductive. What makes it true is that a client    *)
(* enters the hub at most once (Born), that only Run closes channels, and  *)
(* that every list somebody is iterating over is a part of h.clients while *)
(* the iteration lasts, because removal needs the write lock (Iterating).  *)
(*                                                                         *)
(* The second half shows that the hub implements Delivery. The invariant   *)
(* follows each payload on its way: not yet sent, waiting in h.broadcast,  *)
(* on the list of a sender or of Run, in one channel, in one hand, with    *)
(* the peer (Carried and the parts after it), and it follows the wrappers: *)
(* a Handle goroutine has one to itself until it returns (Wired), and only *)
(* then can a write of its clients reach another connection (Astray).      *)
(***************************************************************************)
EXTENDS Hub, TLAPS

\* Handle has handed client c to the hub.
Born(c) ==
  \E i \in 1 .. Len(bids[ConnOf(c)]) :
    /\ RoomOf(c) = bids[ConnOf(c)][i]
    /\ \/ i < turn[ConnOf(c)]
       \/ i = turn[ConnOf(c)] /\ handler[ConnOf(c)] \notin {"idle", "register"}

\* The Handle loop: its index is inside buildingIDs, unless there is nothing but to
\* close the connection, and the entries are distinct.
LoopOK ==
  \A k \in Conn :
    /\ handler[k] \notin {"idle", "returned"} =>
         turn[k] \in 1 .. Len(bids[k]) \/ (handler[k] = "close" /\ bids[k] = <<>>)
    /\ handler[k] = "idle" => turn[k] = 1
    /\ \A i, j \in 1 .. Len(bids[k]) : bids[k][i] = bids[k][j] => i = j

\* Every client anywhere in the hub was handed over by its Handle goroutine.
AllBorn ==
  /\ \A c \in clients : Born(c)
  /\ \A c \in Client : closes[c] > 0 => Born(c)
  /\ runAt \in {"register", "unregister"} => runClient \in Client /\ Born(runClient)

\* What is being iterated over is registered.
Iterating ==
  /\ \A m \in Message : todo[m] \subseteq (IF sender[m] = "sending" THEN clients ELSE {})
  /\ runTodo \subseteq (IF runAt \in {"broadcast", "evict"} THEN clients ELSE {})
  /\ runAt = "evict" => runClient \in runTodo
  /\ runAt \in {"broadcast", "evict"} => runCast \in Cast

\* A WritePump that is about to write or writing has a message in hand.
Holding == \A c \in Client : pump[c] \in {"call", "write"} => hand[c] \in Payload

\* Between the upgrade and its end a Handle goroutine has a wrapper to itself, with
\* its connection in it; wrappers, and what WritePumps took from them, hold
\* connections that were opened, and a write is under way on one of them.
Wired ==
  /\ \A k \in Conn : handler[k] \notin {"idle", "returned"} => inner[wrap[k]] = k
  /\ \A w \in Conn : inner[w] # None => handler[inner[w]] # "idle"
  /\ \A c \in Client : bound[c] # None => handler[bound[c]] # "idle"
  /\ \A c \in Client : pump[c] = "write" => aim[c] \in Conn

\* A registered client, and one about to be registered, has an open channel.
OpenChannels ==
  /\ \A c \in Client : closes[c] <= 1
  /\ \A c \in clients : closes[c] = 0
  /\ runAt = "register" => closes[runClient] = 0

IInv == TypeOK /\ LoopOK /\ AllBorn /\ IndexesAgree /\ Iterating /\ Holding /\ Wired /\ OpenChannels

\* A connection and a building make a client with these two parts ...
LEMMA ClientFacts ==
  ASSUME NEW k \in Conn, NEW b \in Building
  PROVE  <<k, b>> \in Client /\ ConnOf(<<k, b>>) = k /\ RoomOf(<<k, b>>) = b
BY DEF Client, ConnOf, RoomOf

\* ... and every client is made of its parts.
LEMMA ClientParts ==
  ASSUME NEW c \in Client
  PROVE  ConnOf(c) \in Conn /\ RoomOf(c) \in Building /\ c = <<ConnOf(c), RoomOf(c)>>
BY DEF Client, ConnOf, RoomOf

\* While the Handle loop is inside a turn, its current client is well defined.
LEMMA CurrentFacts ==
  ASSUME TypeOK, LoopOK, NEW k \in Conn, handler[k] \notin {"idle", "close", "returned"}
  PROVE  /\ Current(k) \in Client
         /\ ConnOf(Current(k)) = k
         /\ RoomOf(Current(k)) = bids[k][turn[k]]
<1>1. turn[k] \in 1 .. Len(bids[k])
  BY DEF LoopOK
<1>2. bids[k] \in Seq(Building)
  BY DEF TypeOK
<1>3. bids[k][turn[k]] \in Building
  BY <1>1, <1>2
<1> QED BY <1>3, ClientFacts DEF Current

\* The variables of the model always have the types of the Go declarations.
LEMMA InitType == Init => TypeOK
BY HubAssumption DEF Init, TypeOK

\* The end of a turn of the Handle loop keeps the types of its index and state.
LEMMA NextTurnType ==
  ASSUME TypeOK, NEW k \in Conn, NextTurn(k)
  PROVE  /\ turn' \in [Conn -> Nat \ {0}]
         /\ handler' \in [Conn -> {"idle", "register", "start", "read", "unregister", "close", "returned"}]
         /\ inner' \in [Conn -> Conn \cup {None}]
<1>1. CASE turn[k] < Len(bids[k])
  <2>1. turn' = [turn EXCEPT ![k] = @ + 1] /\ handler' = [handler EXCEPT ![k] = "register"] /\ inner' = inner
    BY <1>1 DEF NextTurn
  <2> QED BY <2>1 DEF TypeOK
<1>2. CASE ~(turn[k] < Len(bids[k]))
  <2>1. turn' = turn /\ handler' = [handler EXCEPT ![k] = "returned"] /\ inner' = [inner EXCEPT ![wrap[k]] = None]
    BY <1>2 DEF NextTurn
  <2> QED BY <2>1 DEF TypeOK
<1> QED BY <1>1, <1>2

\* No step, be it of Run, a sender, a handler or a pump, breaks a Go type.
LEMMA TypeStep ==
  ASSUME IInv, [Next]_vars
  PROVE  TypeOK'
<1> USE DEF IInv, hubVars, runVars, connVars, wireVars, pumpVars, gotVars, sendVars, castVars
<1>1. ASSUME NEW k \in Conn, RecvRegister(k) PROVE TypeOK'
  <2>1. Current(k) \in Client
    BY <1>1, CurrentFacts DEF RecvRegister
  <2> QED BY <1>1, <2>1 DEF RecvRegister, TypeOK
<1>2. ASSUME NEW k \in Conn, RecvUnregister(k) PROVE TypeOK'
  <2>1. Current(k) \in Client
    BY <1>2, CurrentFacts DEF RecvUnregister
  <2> QED BY <1>2, <2>1 DEF RecvUnregister, TypeOK
<1>3. CASE AddClient
  BY <1>3, ClientParts DEF AddClient, TypeOK, AllBorn
<1>4. CASE RemoveClient
  <2>1. CASE runClient \in clients
    <3>1. closes' \in [Client -> Nat]
      <4>1. closes' = [closes EXCEPT ![runClient] = @ + 1]
        BY <1>4, <2>1 DEF RemoveClient, Drop
      <4>2. closes[runClient] + 1 \in Nat
        BY <2>1 DEF TypeOK
      <4> QED BY <4>1, <4>2 DEF TypeOK
    <3>2. buildings' \in [Building -> SUBSET Client]
      <4>1. buildings' = [buildings EXCEPT ![RoomOf(runClient)] = @ \ {runClient}]
        BY <1>4, <2>1 DEF RemoveClient, Drop
      <4> QED BY <4>1 DEF TypeOK
    <3> QED BY <1>4, <2>1, <3>1, <3>2 DEF RemoveClient, Drop, TypeOK
  <2>2. CASE runClient \notin clients
    BY <1>4, <2>2 DEF RemoveClient, TypeOK
  <2> QED BY <2>1, <2>2
<1>5. CASE RecvBroadcast
  <2>1. Head(broadcast) \in Cast /\ Tail(broadcast) \in Seq(Cast)
    BY <1>5 DEF RecvBroadcast, TypeOK
  <2>2. buildings[Head(broadcast).building] \subseteq Client
    BY <2>1 DEF TypeOK, Cast
  <2> QED BY <1>5, <2>1, <2>2 DEF RecvBroadcast, TypeOK
<1>6. ASSUME NEW c \in Client, CastTo(c) PROVE TypeOK'
  <2>1. runCast.item \in Payload
    BY <1>6 DEF CastTo, Iterating, Cast, Payload
  <2>2. CASE Len(queue[c]) < SendCap
    <3>1. queue' \in [Client -> Seq(Payload)]
      <4>1. queue' = [queue EXCEPT ![c] = Append(@, runCast.item)]
        BY <1>6, <2>2 DEF CastTo
      <4>2. Append(queue[c], runCast.item) \in Seq(Payload)
        BY <2>1 DEF TypeOK
      <4> QED BY <4>1, <4>2 DEF TypeOK
    <3> QED BY <1>6, <2>2, <3>1 DEF CastTo, TypeOK
  <2>3. CASE ~(Len(queue[c]) < SendCap)
    BY <1>6, <2>3 DEF CastTo, TypeOK
  <2> QED BY <2>2, <2>3
<1>7. CASE Evict
  <2>1. runClient \in Client /\ RoomOf(runClient) \in Building
    BY <1>7, ClientParts DEF Evict, TypeOK, Iterating
  <2>2. /\ clients' = clients \ {runClient}
        /\ buildings' = [buildings EXCEPT ![RoomOf(runClient)] = @ \ {runClient}]
        /\ closes' = [closes EXCEPT ![runClient] = @ + 1]
    BY <1>7 DEF Evict, Drop
  <2>3. clients' \subseteq Client /\ buildings' \in [Building -> SUBSET Client] /\ closes' \in [Client -> Nat]
    BY <2>1, <2>2 DEF TypeOK
  <2> QED BY <1>7, <2>3 DEF Evict, TypeOK
<1>8. CASE CastDone
  BY <1>8 DEF CastDone, TypeOK
<1>9. ASSUME NEW m \in Message, NEW u \in User, StartSend(m, u) PROVE TypeOK'
  BY <1>9 DEF StartSend, TypeOK
<1>10. ASSUME NEW m \in Message, NEW c \in Client, SendOne(m, c) PROVE TypeOK'
  BY <1>10 DEF SendOne, TrySend, TypeOK, Payload
<1>11. ASSUME NEW m \in Message, EndSend(m) PROVE TypeOK'
  BY <1>11 DEF EndSend, TypeOK
<1>12. ASSUME NEW a \in Announcement, NEW b \in Building, NEW x \in User \cup {None},
              BroadcastToBuilding(a, b, x)
       PROVE TypeOK'
  BY <1>12 DEF BroadcastToBuilding, TypeOK, Cast
<1>13. ASSUME NEW k \in Conn, NEW s \in Memberships, NEW w \in Conn, Open(k, s, w) PROVE TypeOK'
  BY <1>13, HubAssumption DEF Open, TypeOK
<1>14. ASSUME NEW k \in Conn, StartPumps(k) PROVE TypeOK'
  <2>1. /\ turn' \in [Conn -> Nat \ {0}]
        /\ handler' \in [Conn -> {"idle", "register", "start", "read", "unregister", "close", "returned"}]
        /\ inner' \in [Conn -> Conn \cup {None}]
    BY <1>14, NextTurnType DEF StartPumps, TypeOK
  <2>2. pump' \in [Client -> {"none", "go", "range", "call", "write", "ended", "panicked"}]
    BY <1>14 DEF StartPumps, TypeOK
  <2> QED BY <1>14, <2>1, <2>2 DEF StartPumps, TypeOK
<1>15. ASSUME NEW k \in Conn, ReadError(k) PROVE TypeOK'
  BY <1>15 DEF ReadError, TypeOK
<1>16. ASSUME NEW k \in Conn, CloseConn(k) PROVE TypeOK'
  <2>1. /\ turn' \in [Conn -> Nat \ {0}]
        /\ handler' \in [Conn -> {"idle", "register", "start", "read", "unregister", "close", "returned"}]
        /\ inner' \in [Conn -> Conn \cup {None}]
    BY <1>16, NextTurnType DEF CloseConn, TypeOK
  <2> QED BY <1>16, <2>1 DEF CloseConn, TypeOK
<1>17. ASSUME NEW k \in Conn, PeerLost(k) PROVE TypeOK'
  BY <1>17 DEF PeerLost, TypeOK
<1>18. ASSUME NEW c \in Client, Take(c) PROVE TypeOK'
  BY <1>18 DEF Take, TypeOK
<1>19. ASSUME NEW c \in Client, WriteOK(c) PROVE TypeOK'
  <2>1. hand[c] \in Payload /\ aim[c] \in Conn /\ ConnOf(c) \in Conn
    BY <1>19, ClientParts DEF WriteOK, Holding, Wired
  <2>2. got' \in [Conn -> Seq(Payload)]
    BY <1>19, <2>1 DEF WriteOK, TypeOK
  <2>3. stray' \subseteq Conn \X Conn \X Payload
    BY <1>19, <2>1 DEF WriteOK, TypeOK
  <2> QED BY <1>19, <2>2, <2>3 DEF WriteOK, TypeOK
<1>20. ASSUME NEW c \in Client, EndPump(c) PROVE TypeOK'
  BY <1>20 DEF EndPump, TypeOK
<1>21. ASSUME NEW c \in Client, BeginPump(c) \/ CallWrite(c) \/ Collide(c) PROVE TypeOK'
  <2>1. Inner(c) \in Conn \cup {None}
    <3>1. wrap[ConnOf(c)] \in Conn
      BY ClientParts DEF TypeOK
    <3> QED BY <3>1 DEF Inner, TypeOK
  <2>2. CASE BeginPump(c)
    BY <2>1, <2>2 DEF BeginPump, TypeOK
  <2>3. CASE CallWrite(c)
    BY <2>1, <2>3 DEF CallWrite, TypeOK
  <2>4. CASE Collide(c)
    BY <2>4 DEF Collide, TypeOK
  <2> QED BY <1>21, <2>2, <2>3, <2>4
<1>22. CASE UNCHANGED vars
  BY <1>22 DEF vars, TypeOK
<1> QED
  BY <1>1, <1>2, <1>3, <1>4, <1>5, <1>6, <1>7, <1>8, <1>9, <1>10, <1>11, <1>12, <1>13,
     <1>14, <1>15, <1>16, <1>17, <1>18, <1>19, <1>20, <1>21, <1>22
     DEF Next, RunStep, SenderStep, HandlerStep, PumpStep

-----------------------------------------------------------------------------
(* The Handle loop *)

\* The steps that move a Handle goroutine.
HandleMove ==
  \E k \in Conn : \/ RecvRegister(k) \/ RecvUnregister(k)
                  \/ StartPumps(k) \/ ReadError(k) \/ CloseConn(k)
                  \/ \E s \in Memberships, w \in Conn : Open(k, s, w)

\* Steps of Run outside a hand-over, of senders, pumps and peers leave the Handle
\* loops alone; all others are one of the steps above.
LEMMA HandleFrame ==
  ASSUME [Next]_vars
  PROVE  HandleMove \/ UNCHANGED connVars
BY DEF Next, RunStep, SenderStep, HandlerStep, PumpStep, HandleMove, vars, connVars, wireVars, AddClient,
       RemoveClient, RecvBroadcast, CastTo, Evict, CastDone, StartSend, SendOne, EndSend,
       BroadcastToBuilding, PeerLost, BeginPump, Take, CallWrite, Collide, WriteOK, EndPump

\* What a move does: the goroutine of one connection goes on, inside its list.
Moves(k) ==
  /\ \A j \in Conn \ {k} : /\ handler'[j] = handler[j]
                           /\ turn'[j] = turn[j]
                           /\ bids'[j] = bids[j]
  /\ \/ /\ handler[k] = "idle"
        /\ bids'[k] \in Memberships
        /\ turn'[k] = turn[k]
        /\ handler'[k] = IF bids'[k] = <<>> THEN "close" ELSE "register"
     \/ /\ handler[k] \notin {"idle", "returned"}
        /\ bids'[k] = bids[k]
        /\ turn'[k] = turn[k]
        /\ handler'[k] \notin {"idle", "register"}
        /\ handler[k] = "close" => handler'[k] = "returned"
     \/ /\ handler[k] \notin {"idle", "register", "returned"}
        /\ bids'[k] = bids[k]
        /\ turn'[k] = turn[k] + 1
        /\ handler'[k] = "register"
        /\ turn[k] < Len(bids[k])

\* Every such step moves the goroutine of one connection in one of these ways.
LEMMA HandleMoves ==
  ASSUME IInv, HandleMove
  PROVE  \E k \in Conn : Moves(k)
<1> USE DEF IInv, TypeOK
<1>1. ASSUME NEW k \in Conn, NextTurn(k), handler[k] \notin {"idle", "register", "returned"}, bids' = bids
      PROVE  /\ \A j \in Conn \ {k} : handler'[j] = handler[j] /\ turn'[j] = turn[j]
             /\ \/ turn'[k] = turn[k] /\ handler'[k] = "returned"
                \/ turn'[k] = turn[k] + 1 /\ handler'[k] = "register" /\ turn[k] < Len(bids[k])
  <2>1. CASE turn[k] < Len(bids[k])
    BY <1>1, <2>1 DEF NextTurn
  <2>2. CASE ~(turn[k] < Len(bids[k]))
    BY <1>1, <2>2 DEF NextTurn
  <2> QED BY <2>1, <2>2
<1>2. ASSUME NEW k \in Conn, RecvRegister(k) \/ RecvUnregister(k) \/ ReadError(k)
      PROVE  /\ handler[k] \notin {"idle", "close", "returned"}
             /\ bids' = bids /\ turn' = turn
             /\ handler'[k] \notin {"idle", "register"}
             /\ \A j \in Conn \ {k} : handler'[j] = handler[j]
  BY <1>2 DEF RecvRegister, RecvUnregister, ReadError
<1>3. ASSUME NEW k \in Conn, StartPumps(k) \/ CloseConn(k)
      PROVE  /\ handler[k] \notin {"idle", "register", "returned"}
             /\ bids' = bids
             /\ \A j \in Conn \ {k} : handler'[j] = handler[j] /\ turn'[j] = turn[j]
             /\ \/ /\ turn'[k] = turn[k] /\ handler'[k] \notin {"idle", "register"}
                   /\ handler[k] = "close" => handler'[k] = "returned"
                \/ turn'[k] = turn[k] + 1 /\ handler'[k] = "register" /\ turn[k] < Len(bids[k])
  <2>1. /\ handler[k] \notin {"idle", "register", "returned"} /\ bids' = bids
        /\ \/ NextTurn(k)
           \/ handler[k] # "close" /\ handler' = [handler EXCEPT ![k] = "read"] /\ turn' = turn
    BY <1>3 DEF StartPumps, CloseConn
  <2> QED BY <2>1, <1>1
<1>4. ASSUME NEW k \in Conn, NEW s \in Memberships, NEW w \in Conn, Open(k, s, w)
      PROVE  /\ handler[k] = "idle"
             /\ bids'[k] = s
             /\ turn' = turn
             /\ handler'[k] = IF s = <<>> THEN "close" ELSE "register"
             /\ \A j \in Conn \ {k} : handler'[j] = handler[j] /\ bids'[j] = bids[j]
  BY <1>4 DEF Open
<1>5. PICK k \in Conn : \/ RecvRegister(k) \/ RecvUnregister(k)
                         \/ StartPumps(k) \/ ReadError(k) \/ CloseConn(k)
                         \/ \E s \in Memberships, w \in Conn : Open(k, s, w)
  BY DEF HandleMove
<1> SUFFICES Moves(k)
  OBVIOUS
<1> USE DEF Moves
<1>6. CASE RecvRegister(k) \/ RecvUnregister(k) \/ ReadError(k)
  BY <1>6, <1>2
<1>7. CASE StartPumps(k) \/ CloseConn(k)
  BY <1>7, <1>3
<1>8. CASE \E s \in Memberships, w \in Conn : Open(k, s, w)
  BY <1>8, <1>4
<1> QED BY <1>5, <1>6, <1>7, <1>8

\* The Handle loop never runs past the end of buildingIDs.
LEMMA LoopStep ==
  ASSUME IInv, [Next]_vars
  PROVE  LoopOK'
<1> USE DEF IInv, LoopOK
<1>1. CASE UNCHANGED connVars
  BY <1>1 DEF connVars, wireVars
<1>2. CASE HandleMove
  <2>1. PICK k \in Conn : Moves(k)
    BY <1>2, HandleMoves
  <2>2. bids[k] \in Seq(Building) /\ turn[k] \in Nat \ {0} /\ Len(bids[k]) \in Nat
    BY DEF TypeOK
  <2>3. \A s \in Memberships : /\ s # <<>> => Len(s) \in Nat \ {0}
                               /\ \A i, j \in 1 .. Len(s) : s[i] = s[j] => i = j
    BY HubAssumption
  <2>4. ASSUME NEW j \in Conn \ {k}
        PROVE  handler'[j] = handler[j] /\ turn'[j] = turn[j] /\ bids'[j] = bids[j]
    BY <2>1 DEF Moves
  <2>5. /\ handler'[k] \notin {"idle", "returned"} =>
             turn'[k] \in 1 .. Len(bids'[k]) \/ (handler'[k] = "close" /\ bids'[k] = <<>>)
        /\ handler'[k] = "idle" => turn'[k] = 1
        /\ \A i, j \in 1 .. Len(bids'[k]) : bids'[k][i] = bids'[k][j] => i = j
    BY <2>1, <2>2, <2>3 DEF Moves
  <2> QED BY <2>4, <2>5
<1> QED BY <1>1, <1>2, HandleFrame

\* A client once handed over stays handed over.
LEMMA BornStays ==
  ASSUME IInv, [Next]_vars, NEW c \in Client, Born(c)
  PROVE  Born(c)'
<1> USE DEF IInv, Born
<1>1. CASE UNCHANGED connVars
  BY <1>1 DEF connVars, wireVars
<1>2. CASE HandleMove
  <2> DEFINE k == ConnOf(c)
  <2>1. k \in Conn /\ turn[k] \in Nat \ {0}
    BY ClientParts DEF TypeOK
  <2>2. handler[k] # "idle"
    BY <2>1 DEF LoopOK
  <2>3. PICK j \in Conn : Moves(j)
    BY <1>2, HandleMoves
  <2>4. CASE j = k
    BY <2>1, <2>2, <2>3, <2>4 DEF Moves
  <2>5. CASE j # k
    BY <2>1, <2>3, <2>5 DEF Moves
  <2> QED BY <2>4, <2>5
<1> QED BY <1>1, <1>2, HandleFrame

-----------------------------------------------------------------------------
(* The hub *)

\* No client is removed from h.clients while somebody has still to visit it.
LEMMA IteratingStep ==
  ASSUME IInv, [Next]_vars
  PROVE  Iterating'
<1> USE DEF IInv, Iterating, hubVars, runVars, connVars, wireVars, pumpVars, gotVars, sendVars, castVars
<1>1. ASSUME CanLock, UNCHANGED <<sender, todo>>
      PROVE  \A m \in Message : todo'[m] = {}
  BY <1>1 DEF CanLock
<1>2. CASE AddClient
  BY <1>2 DEF AddClient
<1>3. CASE RemoveClient
  BY <1>1, <1>3 DEF RemoveClient
<1>4. CASE Evict
  <2>1. \A m \in Message : todo'[m] = {}
    BY <1>1, <1>4 DEF Evict
  <2> QED BY <1>4, <2>1 DEF Evict, Drop
<1>5. CASE RecvBroadcast
  <2>1. Head(broadcast) \in Cast
    BY <1>5 DEF RecvBroadcast, TypeOK
  <2>2. Head(broadcast).building \in Building
    BY <2>1 DEF Cast
  <2>3. buildings[Head(broadcast).building] \subseteq clients
    BY <2>2 DEF IndexesAgree, TypeOK
  <2> QED BY <1>5, <2>1, <2>3 DEF RecvBroadcast
<1>6. ASSUME NEW k \in Conn, RecvRegister(k) \/ RecvUnregister(k)
      PROVE  Iterating'
  BY <1>6 DEF RecvRegister, RecvUnregister
<1>7. ASSUME NEW c \in Client, CastTo(c)
      PROVE  Iterating'
  BY <1>7 DEF CastTo
<1>8. CASE CastDone
  BY <1>8 DEF CastDone
<1>9. ASSUME NEW m \in Message, NEW u \in User, StartSend(m, u)
      PROVE  Iterating'
  BY <1>9 DEF StartSend, TypeOK
<1>10. ASSUME NEW m \in Message, (\E c \in Client : SendOne(m, c)) \/ EndSend(m)
       PROVE  Iterating'
  <2>1. UNCHANGED <<clients, runAt, runClient, runCast, runTodo>>
    BY <1>10 DEF SendOne, EndSend
  <2>2. ASSUME NEW c \in Client, SendOne(m, c)
        PROVE  \A n \in Message : sender'[n] = sender[n] /\ todo'[n] \subseteq todo[n]
    BY <2>2 DEF SendOne, TypeOK
  <2>3. ASSUME EndSend(m)
        PROVE  \A n \in Message : todo'[n] = todo[n] /\ (sender'[n] = sender[n] \/ todo[n] = {})
    BY <2>3 DEF EndSend, TypeOK
  <2> QED BY <1>10, <2>1, <2>2, <2>3
<1>11. CASE UNCHANGED <<clients, runAt, runClient, runCast, runTodo, sender, todo>>
  BY <1>11
<1> QED
  BY <1>2, <1>3, <1>4, <1>5, <1>6, <1>7, <1>8, <1>9, <1>10, <1>11
     DEF Next, RunStep, SenderStep, HandlerStep, PumpStep, vars, BroadcastToBuilding, Open,
         StartPumps, ReadError, CloseConn, PeerLost, BeginPump, Take, CallWrite, Collide, WriteOK, EndPump

\* Registration, unregistration and eviction change both maps of the hub alike.
LEMMA IndexStep ==
  ASSUME IInv, [Next]_vars
  PROVE  IndexesAgree'
<1> USE DEF IInv, IndexesAgree, hubVars
<1>1. CASE AddClient
  <2>1. runClient \in Client /\ RoomOf(runClient) \in Building
    BY <1>1, ClientParts DEF AddClient, AllBorn
  <2> QED BY <1>1, <2>1 DEF AddClient, TypeOK
<1>2. ASSUME NEW c \in Client, Drop(c)
      PROVE  IndexesAgree'
  <2>1. RoomOf(c) \in Building
    BY ClientParts
  <2> QED BY <1>2, <2>1 DEF Drop, TypeOK
<1>3. CASE RemoveClient
  <2>1. runClient \in Client
    BY <1>3 DEF RemoveClient, AllBorn
  <2> QED BY <1>2, <1>3, <2>1 DEF RemoveClient
<1>4. CASE Evict
  <2>1. runClient \in Client
    BY <1>4 DEF Evict, Iterating, TypeOK
  <2> QED BY <1>2, <1>4, <2>1 DEF Evict
<1>5. CASE UNCHANGED hubVars
  BY <1>5
<1> QED
  BY <1>1, <1>3, <1>4, <1>5
     DEF Next, RunStep, SenderStep, HandlerStep, PumpStep, vars, RecvRegister, RecvUnregister,
         RecvBroadcast, CastTo, CastDone, StartSend, SendOne, EndSend, BroadcastToBuilding,
         Open, StartPumps, ReadError, CloseConn, PeerLost, BeginPump, Take, CallWrite, Collide, WriteOK, EndPump

\* A WritePump goes to write only with a message it has taken.
LEMMA HoldingStep ==
  ASSUME IInv, [Next]_vars
  PROVE  Holding'
<1> USE DEF IInv, Holding, pumpVars, gotVars
<1>1. ASSUME NEW c \in Client, Take(c) PROVE Holding'
  <2>1. Head(queue[c]) \in Payload
    BY <1>1 DEF Take, TypeOK
  <2> QED BY <1>1, <2>1 DEF Take, TypeOK
<1>2. ASSUME NEW c \in Client, WriteOK(c) \/ EndPump(c) \/ BeginPump(c) PROVE Holding'
  BY <1>2 DEF WriteOK, EndPump, BeginPump, TypeOK
<1>3. ASSUME NEW k \in Conn, StartPumps(k) PROVE Holding'
  BY <1>3 DEF StartPumps, TypeOK
<1>4. ASSUME NEW c \in Client, CallWrite(c) \/ Collide(c) PROVE Holding'
  BY <1>4 DEF CallWrite, Collide, TypeOK
<1>5. CASE UNCHANGED <<pump, hand>>
  BY <1>5
<1> QED
  BY <1>1, <1>2, <1>3, <1>4, <1>5
     DEF Next, RunStep, SenderStep, HandlerStep, PumpStep, vars, RecvRegister, RecvUnregister, AddClient,
         RemoveClient, Evict, RecvBroadcast, CastTo, CastDone, StartSend, SendOne, EndSend,
         BroadcastToBuilding, Open, ReadError, CloseConn, PeerLost

\* Wrappers and the goroutines that hold them: no step gives one wrapper to two
\* connections at a time or clears one that a handler still uses.
LEMMA WiredStep ==
  ASSUME IInv, [Next]_vars
  PROVE  Wired'
<1> USE DEF Wired, pumpVars, gotVars, connVars, wireVars
<1>0. /\ None \notin Conn
      /\ wrap \in [Conn -> Conn] /\ inner \in [Conn -> Conn \cup {None}]
      /\ DOMAIN handler = Conn /\ DOMAIN pump = Client
      /\ bound \in [Client -> Conn \cup {None}] /\ aim \in [Client -> Conn \cup {None}]
      /\ Wired
  BY HubAssumption DEF IInv, TypeOK
<1>1. ASSUME NEW k \in Conn, NEW s \in Memberships, NEW w \in Conn, Open(k, s, w) PROVE Wired'
  <2>1. /\ handler[k] = "idle" /\ inner[w] = None
        /\ wrap' = [wrap EXCEPT ![k] = w] /\ inner' = [inner EXCEPT ![w] = k]
        /\ handler'[k] # "idle" /\ \A j \in Conn \ {k} : handler'[j] = handler[j]
        /\ UNCHANGED <<pump, bound, aim>>
    BY <1>0, <1>1 DEF Open
  <2>2. \A j \in Conn : handler'[j] \notin {"idle", "returned"} => inner'[wrap'[j]] = j
    BY <1>0, <2>1
  <2> QED BY <1>0, <2>1, <2>2
<1>2. ASSUME NEW k \in Conn, NextTurn(k), handler[k] \notin {"idle", "returned"},
             UNCHANGED <<wrap, bound, aim>>,
             \A c \in Client : pump'[c] = "write" => pump[c] = "write"
      PROVE  Wired'
  <2>1. CASE turn[k] < Len(bids[k])
    <3>1. inner' = inner /\ handler' = [handler EXCEPT ![k] = "register"]
      BY <1>2, <2>1 DEF NextTurn
    <3> QED BY <1>0, <1>2, <3>1
  <2>2. CASE ~(turn[k] < Len(bids[k]))
    <3>1. inner' = [inner EXCEPT ![wrap[k]] = None] /\ handler' = [handler EXCEPT ![k] = "returned"]
      BY <1>0, <1>2, <2>2 DEF NextTurn
    <3>2. \A j \in Conn \ {k} : handler[j] \notin {"idle", "returned"} => wrap[j] # wrap[k]
      BY <1>0, <1>2
    <3> QED BY <1>0, <1>2, <3>1, <3>2
  <2> QED BY <2>1, <2>2
<1>3. ASSUME NEW k \in Conn, StartPumps(k) PROVE Wired'
  <2>1. \A c \in Client : pump'[c] = "write" => pump[c] = "write"
    BY <1>0, <1>3 DEF StartPumps
  <2>2. CASE turn[k] = 1
    BY <1>0, <1>3, <2>1, <2>2 DEF StartPumps
  <2>3. CASE turn[k] # 1
    BY <1>0, <1>2, <1>3, <2>1, <2>3 DEF StartPumps
  <2> QED BY <2>2, <2>3
<1>4. ASSUME NEW k \in Conn, CloseConn(k) PROVE Wired'
  BY <1>0, <1>2, <1>4 DEF CloseConn
<1>5. ASSUME NEW k \in Conn, RecvRegister(k) \/ RecvUnregister(k) \/ ReadError(k) PROVE Wired'
  BY <1>0, <1>5 DEF RecvRegister, RecvUnregister, ReadError
<1>6. ASSUME NEW c \in Client, BeginPump(c) PROVE Wired'
  <2>1. Inner(c) = inner[wrap[ConnOf(c)]] /\ wrap[ConnOf(c)] \in Conn
    BY <1>0, ClientParts DEF Inner
  <2> QED BY <1>0, <1>6, <2>1 DEF BeginPump
<1>7. ASSUME NEW c \in Client, CallWrite(c) PROVE Wired'
  <2>1. Inner(c) \in Conn \cup {None}
    BY <1>0, ClientParts DEF Inner
  <2> QED BY <1>0, <1>7, <2>1 DEF CallWrite
<1>8. ASSUME NEW c \in Client, Take(c) \/ WriteOK(c) \/ Collide(c) \/ EndPump(c) PROVE Wired'
  <2>1. /\ UNCHANGED <<wrap, inner, handler, bound>> /\ pump'[c] # "write"
        /\ \A d \in Client \ {c} : pump'[d] = pump[d] /\ aim'[d] = aim[d]
    BY <1>0, <1>8 DEF Take, WriteOK, Collide, EndPump
  <2> QED BY <1>0, <2>1
<1>9. CASE UNCHANGED <<handler, wrap, inner, pump, bound, aim>>
  BY <1>0, <1>9
<1> QED
  BY <1>1, <1>3, <1>4, <1>5, <1>6, <1>7, <1>8, <1>9
     DEF Next, RunStep, SenderStep, HandlerStep, PumpStep, vars, AddClient, RemoveClient, Evict,
         RecvBroadcast, CastTo, CastDone, StartSend, SendOne, EndSend, BroadcastToBuilding, PeerLost

\* The handler waiting to register has not handed its current client over yet,
\* and has once the hand-over is done.
LEMMA RegisterBears ==
  ASSUME IInv, NEW k \in Conn, RecvRegister(k)
  PROVE  /\ Current(k) \in Client
         /\ ~Born(Current(k))
         /\ Born(Current(k))'
<1> USE DEF IInv
<1>1. /\ handler[k] = "register" /\ turn[k] \in 1 .. Len(bids[k])
      /\ turn' = turn /\ bids' = bids /\ handler'[k] = "start"
  BY DEF RecvRegister, LoopOK, TypeOK
<1>2. /\ Current(k) \in Client
      /\ ConnOf(Current(k)) = k
      /\ RoomOf(Current(k)) = bids[k][turn[k]]
  BY <1>1, CurrentFacts
<1>3. ~Born(Current(k))
  BY <1>1, <1>2 DEF Born, LoopOK
<1>4. Born(Current(k))'
  <2>1. ConnOf(Current(k)') = k /\ RoomOf(Current(k)') = bids'[k][turn'[k]]
    BY <1>1, <1>2 DEF Current
  <2> QED BY <1>1, <2>1 DEF Born
<1> QED BY <1>2, <1>3, <1>4

\* Nothing enters the hub or is closed that no handler has handed over.
LEMMA BornStep ==
  ASSUME IInv, [Next]_vars
  PROVE  AllBorn'
<1> USE DEF IInv, AllBorn, hubVars, runVars
<1>0. \A c \in Client : Born(c) => Born(c)'
  BY BornStays
<1>1. CASE AddClient
  BY <1>0, <1>1 DEF AddClient, TypeOK
<1>2. CASE RemoveClient
  <2>1. \A c \in Client : closes'[c] > 0 => closes[c] > 0 \/ (c = runClient /\ c \in clients)
    BY <1>2 DEF RemoveClient, Drop, TypeOK
  <2> QED BY <1>0, <1>2, <2>1 DEF RemoveClient, Drop, TypeOK
<1>3. CASE Evict
  <2>1. runClient \in clients
    BY <1>3 DEF Evict, Iterating
  <2>2. \A c \in Client : closes'[c] > 0 => closes[c] > 0 \/ c = runClient
    BY <1>3 DEF Evict, Drop, TypeOK
  <2> QED BY <1>0, <1>3, <2>1, <2>2 DEF Evict, Drop, TypeOK
<1>4. ASSUME NEW k \in Conn, RecvRegister(k) PROVE AllBorn'
  <2>1. runClient' = Current(k) /\ runClient' \in Client /\ Born(Current(k))'
    BY <1>4, RegisterBears DEF RecvRegister
  <2>2. Born(runClient)'
    BY <1>4, <2>1, RegisterBears DEF RecvRegister, Born, Current
  <2> QED BY <1>0, <1>4, <2>1, <2>2 DEF RecvRegister, TypeOK
<1>5. ASSUME NEW k \in Conn, RecvUnregister(k) PROVE AllBorn'
  <2>1. /\ Current(k) \in Client
        /\ ConnOf(Current(k)) = k
        /\ RoomOf(Current(k)) = bids[k][turn[k]]
        /\ turn[k] \in 1 .. Len(bids[k])
    BY <1>5, CurrentFacts DEF RecvUnregister, LoopOK
  <2>2. Born(Current(k))
    BY <1>5, <2>1 DEF RecvUnregister, Born
  <2>3. runClient' \in Client /\ runClient' = Current(k)
    BY <1>5, <2>1 DEF RecvUnregister
  <2>4. Born(runClient)'
    BY <1>5, <2>1, <2>3 DEF RecvUnregister, Born, TypeOK
  <2> QED BY <1>0, <1>5, <2>3, <2>4 DEF RecvUnregister, TypeOK
<1>6. CASE /\ UNCHANGED <<clients, closes>>
           /\ \/ runAt' \notin {"register", "unregister"}
              \/ UNCHANGED <<runAt, runClient>>
  <2>1. runAt' \in {"register", "unregister"} => runClient \in Client /\ Born(runClient)' /\ runClient' = runClient
    BY <1>0, <1>6
  <2> QED BY <1>0, <1>6, <2>1 DEF TypeOK, Born
<1> QED
  BY <1>1, <1>2, <1>3, <1>4, <1>5, <1>6
     DEF Next, RunStep, SenderStep, HandlerStep, PumpStep, vars, RecvBroadcast, CastTo, CastDone,
         StartSend, SendOne, EndSend, BroadcastToBuilding, Open, StartPumps, ReadError,
         CloseConn, PeerLost, BeginPump, Take, CallWrite, Collide, WriteOK, EndPump

\* A channel is closed only when its client leaves h.clients, hence once.
LEMMA OpenStep ==
  ASSUME IInv, [Next]_vars
  PROVE  OpenChannels'
<1> USE DEF IInv, OpenChannels, hubVars, runVars
<1>1. CASE AddClient
  BY <1>1 DEF AddClient
<1>2. ASSUME NEW c \in clients, Drop(c), runAt' # "register"
      PROVE  OpenChannels'
  <2>1. c \in Client /\ closes[c] = 0
    BY DEF TypeOK
  <2>2. closes'[c] = 1 /\ \A d \in Client \ {c} : closes'[d] = closes[d]
    BY <1>2, <2>1 DEF Drop, TypeOK
  <2> QED BY <1>2, <2>1, <2>2 DEF Drop, TypeOK
<1>3. CASE RemoveClient
  BY <1>2, <1>3 DEF RemoveClient
<1>4. CASE Evict
  BY <1>2, <1>4 DEF Evict, Iterating
<1>5. ASSUME NEW k \in Conn, RecvRegister(k) PROVE OpenChannels'
  <2>1. closes[Current(k)] \in Nat /\ ~(closes[Current(k)] > 0)
    BY <1>5, RegisterBears DEF AllBorn, TypeOK
  <2>2. closes[Current(k)] = 0
    BY <2>1
  <2> QED BY <1>5, <2>2 DEF RecvRegister
<1>6. CASE /\ UNCHANGED <<clients, closes>>
           /\ \/ runAt' # "register"
              \/ UNCHANGED <<runAt, runClient>>
  BY <1>6
<1> QED
  BY <1>1, <1>3, <1>4, <1>5, <1>6
     DEF Next, RunStep, SenderStep, HandlerStep, PumpStep, vars, RecvUnregister, RecvBroadcast, CastTo,
         CastDone, StartSend, SendOne, EndSend, BroadcastToBuilding, Open, StartPumps,
         ReadError, CloseConn, PeerLost, BeginPump, Take, CallWrite, Collide, WriteOK, EndPump

-----------------------------------------------------------------------------
(* The theorems *)

\* NewHub establishes the invariant.
LEMMA InitIInv == Init => IInv
<1> SUFFICES ASSUME Init PROVE IInv
  OBVIOUS
<1>1. TypeOK
  BY InitType
<1>2. LoopOK /\ AllBorn /\ IndexesAgree
  BY DEF Init, LoopOK, AllBorn, IndexesAgree
<1>3. Iterating /\ Holding /\ Wired /\ OpenChannels
  BY DEF Init, Iterating, Holding, Wired, OpenChannels
<1> QED BY <1>1, <1>2, <1>3 DEF IInv

\* The inductive invariant holds in every reachable state.
THEOREM Inductive == Spec => []IInv
<1>1. IInv /\ [Next]_vars => IInv'
  BY TypeStep, LoopStep, BornStep, IndexStep, IteratingStep, HoldingStep, WiredStep, OpenStep
     DEF IInv
<1> QED BY InitIInv, <1>1, PTL DEF Spec

\* Every variable keeps its Go type.
THEOREM TypeCorrect == Spec => []TypeOK
<1>1. IInv => TypeOK
  BY DEF IInv
<1> QED BY Inductive, <1>1, PTL

\* No channel is closed twice and nobody is about to send on a closed one, whatever
\* becomes of the wrappers.
THEOREM PanicFree == Spec => []NoChannelPanic
<1>1. IInv => NoChannelPanic
  BY DEF IInv, NoChannelPanic, OpenChannels, Iterating
<1> QED BY Inductive, <1>1, PTL

\* h.clients and h.buildings always describe the same set of clients.
THEOREM IndexesCorrect == Spec => []IndexesAgree
<1>1. IInv => IndexesAgree
  BY DEF IInv
<1> QED BY Inductive, <1>1, PTL

\* Handle leaves its first building, and returns, only once the connection is closed.
Late == \A k \in Conn : turn[k] > 1 \/ handler[k] = "returned" => conn[k] = "closed"

\* A handler begins its second turn only after it has closed the connection.
LEMMA LateStep ==
  ASSUME IInv, Late, [Next]_vars
  PROVE  Late'
<1> USE DEF IInv, Late
<1>1. ASSUME NEW k \in Conn, CloseConn(k) PROVE Late'
  <2>1. \A j \in Conn : j # k => turn'[j] = turn[j] /\ handler'[j] = handler[j] /\ conn'[j] = conn[j]
    BY <1>1 DEF CloseConn, NextTurn, TypeOK
  <2>2. conn'[k] = "closed"
    BY <1>1 DEF CloseConn, TypeOK
  <2> QED BY <2>1, <2>2
<1>2. ASSUME NEW k \in Conn, StartPumps(k) PROVE Late'
  <2>1. conn' = conn /\ \A j \in Conn : j # k => turn'[j] = turn[j] /\ handler'[j] = handler[j]
    BY <1>2 DEF StartPumps, NextTurn, TypeOK
  <2>2. turn[k] = 1 => turn' = turn /\ handler'[k] = "read"
    BY <1>2 DEF StartPumps, TypeOK
  <2>3. turn[k] \in Nat \ {0}
    BY DEF TypeOK
  <2> QED BY <2>1, <2>2, <2>3
<1>3. ASSUME NEW k \in Conn, NEW s \in Memberships, NEW w \in Conn, Open(k, s, w) PROVE Late'
  <2>1. /\ turn' = turn /\ turn[k] = 1 /\ handler'[k] # "returned"
        /\ \A j \in Conn : j # k => conn'[j] = conn[j] /\ handler'[j] = handler[j]
    BY <1>3 DEF Open, LoopOK, TypeOK
  <2> QED BY <2>1
<1>4. ASSUME NEW k \in Conn, PeerLost(k) PROVE Late'
  BY <1>4 DEF PeerLost, TypeOK, connVars, wireVars
<1>5. ASSUME NEW c \in Client, EndPump(c) PROVE Late'
  BY <1>5 DEF EndPump, TypeOK, connVars, wireVars
<1>6. ASSUME NEW k \in Conn, RecvRegister(k) \/ RecvUnregister(k) \/ ReadError(k) PROVE Late'
  BY <1>6 DEF RecvRegister, RecvUnregister, ReadError, TypeOK
<1>7. CASE UNCHANGED <<turn, handler, conn>>
  BY <1>7
<1> QED
  BY <1>1, <1>2, <1>3, <1>4, <1>5, <1>6, <1>7
     DEF Next, RunStep, SenderStep, HandlerStep, PumpStep, vars, connVars, wireVars,
         AddClient, RemoveClient, Evict, RecvBroadcast, CastTo, CastDone, StartSend, SendOne,
         EndSend, BroadcastToBuilding, BeginPump, Take, CallWrite, Collide, WriteOK

-----------------------------------------------------------------------------
(* The hub implements Delivery *)

In(p, q) == \E i \in 1 .. Len(q) : q[i] = p
Distinct(q) == \A i, j \in 1 .. Len(q) : q[i] = q[j] => i = j

\* p is on its way to the peer of c by way of c, or has reached it.
Has(c, p) == In(p, queue[c]) \/ hand[c] = p \/ In(p, got[ConnOf(c)])

\* What a client carries, its handler handed to the hub and its user may have; it
\* carries it once, and not again when the peer has it.
Carried ==
  \A c \in Client :
    /\ Distinct(queue[c])
    /\ \A p \in Payload :
         /\ In(p, queue[c]) \/ hand[c] = p =>
              Born(c) /\ Promise!Eligible(ConnOf(c), p) /\ ~In(p, got[ConnOf(c)])
         /\ In(p, queue[c]) => hand[c] # p

\* A message is nowhere before it is sent, nor where SendToUser has yet to send it.
MessagesNew ==
  \A m \in Message :
    /\ sender[m] = "idle" <=> sent[m] = None
    /\ sent[m] = None => \A c \in Client : ~Has(c, m)
    /\ \A c \in todo[m] : ~Has(c, m) /\ sent[m] = UserOf[ConnOf(c)]

\* The same of a broadcast before it is submitted, while it waits in h.broadcast and
\* where Run has yet to send it.
CastsNew ==
  /\ \A a \in Announcement : a \notin {r.item : r \in cast} => \A c \in Client : ~Has(c, a)
  /\ \A i \in 1 .. Len(broadcast) :
       broadcast[i] \in cast /\ \A c \in Client : ~Has(c, broadcast[i].item)
  /\ \A i, j \in 1 .. Len(broadcast) : broadcast[i].item = broadcast[j].item => i = j

CastGoing ==
  runAt \in {"broadcast", "evict"} =>
    /\ runCast \in cast
    /\ \A i \in 1 .. Len(broadcast) : broadcast[i].item # runCast.item
    /\ \A c \in runTodo : /\ ~Has(c, runCast.item)
                          /\ RoomOf(c) = runCast.building
                          /\ UserOf[ConnOf(c)] # runCast.exclude

\* A message is written on a connection that is not its own only when that is closed.
Astray ==
  \A c \in Client : pump[c] = "write" /\ aim[c] # ConnOf(c) => conn[ConnOf(c)] = "closed"

\* A handler that has not begun has no connection and no list yet.
NotBegun == \A k \in Conn : handler[k] = "idle" => conn[k] = "none" /\ bids[k] = <<>>

DInv == IInv /\ Late /\ Carried /\ MessagesNew /\ CastsNew /\ CastGoing /\ NotBegun /\ Astray

\* What is in a channel or a list after Append ...
LEMMA InAppend ==
  ASSUME NEW S, NEW q \in Seq(S), NEW p \in S, NEW x
  PROVE  In(x, Append(q, p)) <=> In(x, q) \/ x = p
<1>1. /\ Len(Append(q, p)) = Len(q) + 1 /\ Len(q) \in Nat
      /\ \A i \in 1 .. Len(q) : Append(q, p)[i] = q[i]
      /\ Append(q, p)[Len(q) + 1] = p
  OBVIOUS
<1>2. \A i \in 1 .. Len(q) + 1 : i = Len(q) + 1 \/ i \in 1 .. Len(q)
  BY <1>1
<1>3. Len(q) + 1 \in 1 .. Len(q) + 1 /\ 1 .. Len(q) \subseteq 1 .. Len(q) + 1
  BY <1>1
<1> QED BY <1>1, <1>2, <1>3 DEF In

\* ... which still names each once, if p was not there ...
LEMMA DistinctAppend ==
  ASSUME NEW S, NEW q \in Seq(S), NEW p \in S, Distinct(q), ~In(p, q)
  PROVE  Distinct(Append(q, p))
<1>1. /\ Len(Append(q, p)) = Len(q) + 1 /\ Len(q) \in Nat
      /\ \A i \in 1 .. Len(q) : Append(q, p)[i] = q[i]
      /\ Append(q, p)[Len(q) + 1] = p
  OBVIOUS
<1>2. \A i \in 1 .. Len(q) + 1 : i = Len(q) + 1 \/ i \in 1 .. Len(q)
  BY <1>1
<1> QED BY <1>1, <1>2 DEF In, Distinct

\* ... and after the first has been taken.
LEMMA InTail ==
  ASSUME NEW S, NEW q \in Seq(S), q # <<>>, NEW x
  PROVE  /\ Head(q) \in S /\ Tail(q) \in Seq(S) /\ In(Head(q), q)
         /\ In(x, Tail(q)) => In(x, q)
<1>1. /\ Len(q) \in Nat \ {0} /\ Head(q) = q[1] /\ Head(q) \in S /\ Tail(q) \in Seq(S)
      /\ Len(Tail(q)) = Len(q) - 1
      /\ \A i \in 1 .. Len(q) - 1 : Tail(q)[i] = q[i + 1] /\ i + 1 \in 1 .. Len(q)
  OBVIOUS
<1>2. 1 \in 1 .. Len(q)
  BY <1>1
<1> QED BY <1>1, <1>2 DEF In

\* ... which is then there no more.
LEMMA DistinctTail ==
  ASSUME NEW S, NEW q \in Seq(S), q # <<>>, Distinct(q)
  PROVE  Distinct(Tail(q)) /\ ~In(Head(q), Tail(q))
<1>1. /\ Len(q) \in Nat \ {0} /\ Head(q) = q[1]
      /\ Len(Tail(q)) = Len(q) - 1
      /\ \A i \in 1 .. Len(q) - 1 : Tail(q)[i] = q[i + 1] /\ i + 1 \in 1 .. Len(q) /\ i + 1 # 1
  OBVIOUS
<1>2. 1 \in 1 .. Len(q)
  BY <1>1
<1>3. \A i, j \in 1 .. Len(q) - 1 : i + 1 = j + 1 => i = j
  OBVIOUS
<1> QED BY <1>1, <1>2, <1>3 DEF In, Distinct

\* The set of a list's entries, as Delivery uses it.
LEMMA InToSet ==
  ASSUME NEW S, NEW q \in Seq(S), NEW x
  PROVE  x \in Promise!ToSet(q) <=> In(x, q)
BY DEF In, Promise!ToSet

\* On a connection that is up one client has been handed to the hub.
LEMMA OneBorn ==
  ASSUME IInv, Late, NEW c \in Client, NEW d \in Client, Born(c), Born(d),
         ConnOf(c) = ConnOf(d), conn[ConnOf(c)] = "up"
  PROVE  c = d
<1>1. ConnOf(c) \in Conn /\ c = <<ConnOf(c), RoomOf(c)>> /\ d = <<ConnOf(d), RoomOf(d)>>
  BY ClientParts
<1>2. turn[ConnOf(c)] \in Nat \ {0} /\ Len(bids[ConnOf(c)]) \in Nat
  BY <1>1 DEF IInv, TypeOK
<1>3. turn[ConnOf(c)] = 1
  BY <1>1, <1>2 DEF Late
<1>4. RoomOf(c) = bids[ConnOf(c)][1] /\ RoomOf(d) = bids[ConnOf(c)][1]
  BY <1>2, <1>3 DEF Born
<1> QED BY <1>1, <1>4

\* What may be delivered may be delivered later.
LEMMA EligibleStays ==
  ASSUME IInv, MessagesNew, NotBegun, [Next]_vars, NEW k \in Conn, NEW p \in Payload,
         Promise!Eligible(k, p)
  PROVE  Promise!Eligible(k, p)'
<1>1. \A m \in Message : sent[m] # None => sent'[m] = sent[m]
  <2>1. UNCHANGED sent \/ \E m \in Message, u \in User : StartSend(m, u)
    BY DEF Next, RunStep, SenderStep, HandlerStep, PumpStep, vars, sendVars, RecvRegister, RecvUnregister,
           AddClient, RemoveClient, Evict, RecvBroadcast, CastTo, CastDone, SendOne, EndSend,
           BroadcastToBuilding, StartPumps, ReadError, CloseConn, PeerLost, Open, BeginPump, Take, CallWrite, Collide, WriteOK,
           EndPump
  <2>2. ASSUME NEW m \in Message, NEW u \in User, StartSend(m, u)
        PROVE  sent[m] = None /\ \A n \in Message : n # m => sent'[n] = sent[n]
    BY <2>2 DEF StartSend, MessagesNew, IInv, TypeOK
  <2> QED BY <2>1, <2>2
<1>2. cast \subseteq cast'
  BY DEF Next, RunStep, SenderStep, HandlerStep, PumpStep, vars, castVars, RecvRegister, RecvUnregister,
         AddClient, RemoveClient, Evict, RecvBroadcast, CastTo, CastDone, StartSend, SendOne,
         EndSend, BroadcastToBuilding, StartPumps, ReadError, CloseConn, PeerLost, Open, BeginPump, Take, CallWrite,
         Collide, WriteOK, EndPump
<1>3. bids[k] # <<>> => bids'[k] = bids[k]
  <2>1. UNCHANGED bids \/ \E j \in Conn, s \in Memberships, w \in Conn : Open(j, s, w)
    BY DEF Next, RunStep, SenderStep, HandlerStep, PumpStep, vars, connVars, wireVars, RecvRegister, RecvUnregister,
           AddClient, RemoveClient, Evict, RecvBroadcast, CastTo, CastDone, StartSend, SendOne,
           EndSend, BroadcastToBuilding, StartPumps, ReadError, CloseConn, PeerLost, BeginPump, Take, CallWrite, Collide, WriteOK,
           EndPump
  <2>2. ASSUME NEW j \in Conn, NEW s \in Memberships, NEW w \in Conn, Open(j, s, w)
        PROVE  bids[j] = <<>> /\ \A i \in Conn : i # j => bids'[i] = bids[i]
    BY <2>2 DEF Open, NotBegun, IInv, TypeOK
  <2> QED BY <2>1, <2>2
<1>4. CASE p \in Message /\ sent[p] = UserOf[k]
  <2>1. sent[p] # None
    BY <1>4, HubAssumption
  <2> QED BY <1>1, <1>4, <2>1 DEF Promise!Eligible
<1>5. CASE \E r \in cast : /\ r.item = p /\ r.building \in Promise!ToSet(bids[k])
                           /\ r.exclude # UserOf[k]
  <2>1. bids[k] # <<>>
    BY <1>5 DEF Promise!ToSet
  <2>2. bids'[k] = bids[k]
    BY <1>3, <2>1
  <2> QED BY <1>2, <1>5, <2>2 DEF Promise!Eligible
<1> QED BY <1>4, <1>5 DEF Promise!Eligible

-----------------------------------------------------------------------------
(* The way of a payload: into a channel, into a hand, to the peer *)

Puts(c, p) == queue' = [queue EXCEPT ![c] = Append(@, p)] /\ UNCHANGED <<hand, got>>

Takes(c) ==
  /\ queue[c] # <<>>
  /\ hand' = [hand EXCEPT ![c] = Head(queue[c])]
  /\ queue' = [queue EXCEPT ![c] = Tail(@)]
  /\ UNCHANGED got

Writes(c) ==
  /\ hand[c] \in Payload
  /\ conn[ConnOf(c)] = "up"
  /\ got' = [got EXCEPT ![ConnOf(c)] = Append(@, hand[c])]
  /\ hand' = [hand EXCEPT ![c] = None]
  /\ UNCHANGED queue

Loses(c) == hand' = [hand EXCEPT ![c] = None] /\ UNCHANGED <<queue, got>>

\* Every step moves one payload one stage on, or loses one, or moves none.
LEMMA Flow ==
  ASSUME IInv, [Next]_vars
  PROVE  \/ UNCHANGED <<queue, hand, got>>
         \/ \E c \in Client : \/ \E m \in Message : SendOne(m, c) /\ Puts(c, m)
                              \/ CastTo(c) /\ runCast.item \in Announcement /\ Puts(c, runCast.item)
                              \/ Takes(c) \/ Writes(c) \/ Loses(c)
<1> USE DEF Puts, Takes, Writes, Loses, pumpVars, gotVars
<1>1. ASSUME NEW m \in Message, NEW c \in Client, SendOne(m, c)
      PROVE  UNCHANGED <<queue, hand, got>> \/ Puts(c, m)
  BY <1>1 DEF SendOne, TrySend
<1>2. ASSUME NEW c \in Client, CastTo(c)
      PROVE  UNCHANGED <<queue, hand, got>> \/ (runCast.item \in Announcement /\ Puts(c, runCast.item))
  <2>1. runCast \in Cast
    BY <1>2 DEF CastTo, IInv, Iterating
  <2>2. runCast.item \in Announcement
    BY <2>1 DEF Cast
  <2> QED BY <1>2, <2>2 DEF CastTo
<1>3. ASSUME NEW c \in Client, Take(c) PROVE Takes(c)
  BY <1>3 DEF Take
<1>4. ASSUME NEW c \in Client, WriteOK(c) PROVE Writes(c) \/ Loses(c)
  BY <1>4 DEF WriteOK, IInv, Holding
<1>5. ASSUME NEW c \in Client, EndPump(c) PROVE Loses(c)
  BY <1>5 DEF EndPump
<1>6. CASE UNCHANGED <<queue, hand, got>>
  BY <1>6
<1> QED
  BY <1>1, <1>2, <1>3, <1>4, <1>5, <1>6
     DEF Next, RunStep, SenderStep, HandlerStep, PumpStep, vars, RecvRegister, RecvUnregister,
         AddClient, RemoveClient, Evict, RecvBroadcast, CastDone, StartSend, EndSend, BroadcastToBuilding,
         Open, StartPumps, ReadError, CloseConn, PeerLost, BeginPump, CallWrite,
         Collide

\* Who has a payload after one has been put into a channel ...
LEMMA PutsHas ==
  ASSUME IInv, NEW c \in Client, NEW p \in Payload, Puts(c, p),
         NEW d \in Client, NEW x, Has(d, x)'
  PROVE  Has(d, x) \/ (d = c /\ x = p)
<1>1. queue \in [Client -> Seq(Payload)]
  BY DEF IInv, TypeOK
<1>2. CASE d = c
  <2>1. queue'[d] = Append(queue[d], p) /\ queue[d] \in Seq(Payload) /\ hand' = hand /\ got' = got
    BY <1>1, <1>2 DEF Puts
  <2>2. In(x, queue'[d]) => In(x, queue[d]) \/ x = p
    BY <2>1, InAppend
  <2> QED BY <1>2, <2>1, <2>2 DEF Has
<1>3. CASE d # c
  <2>1. queue'[d] = queue[d] /\ hand' = hand /\ got' = got
    BY <1>1, <1>3 DEF Puts
  <2> QED BY <2>1 DEF Has
<1> QED BY <1>2, <1>3

\* ... after a WritePump has taken it ...
LEMMA TakesHas ==
  ASSUME IInv, NEW c \in Client, Takes(c), NEW d \in Client, NEW x, Has(d, x)'
  PROVE  Has(d, x)
<1>1. queue \in [Client -> Seq(Payload)] /\ hand \in [Client -> Payload \cup {None}]
  BY DEF IInv, TypeOK
<1>2. CASE d = c
  <2>1. /\ queue'[d] = Tail(queue[d]) /\ queue[d] \in Seq(Payload) /\ queue[d] # <<>>
        /\ hand'[d] = Head(queue[d]) /\ got' = got
    BY <1>1, <1>2 DEF Takes
  <2>2. In(Head(queue[d]), queue[d]) /\ (In(x, queue'[d]) => In(x, queue[d]))
    BY <2>1, InTail
  <2> QED BY <2>1, <2>2 DEF Has
<1>3. CASE d # c
  <2>1. queue'[d] = queue[d] /\ hand'[d] = hand[d] /\ got' = got
    BY <1>1, <1>3 DEF Takes
  <2> QED BY <2>1 DEF Has
<1> QED BY <1>2, <1>3

\* ... after its peer has received one, which every client of the peer then has ...
LEMMA WritesHas ==
  ASSUME IInv, NEW c \in Client, Writes(c), NEW d \in Client, NEW x \in Payload, Has(d, x)'
  PROVE  Has(d, x) \/ (ConnOf(d) = ConnOf(c) /\ x = hand[c])
<1>1. /\ hand \in [Client -> Payload \cup {None}] /\ got \in [Conn -> Seq(Payload)]
      /\ ConnOf(c) \in Conn /\ ConnOf(d) \in Conn /\ x # None
  BY ClientParts, HubAssumption DEF IInv, TypeOK
<1>2. queue' = queue /\ (hand'[d] = hand[d] \/ hand'[d] = None)
  BY <1>1 DEF Writes
<1>3. CASE ConnOf(d) = ConnOf(c)
  <2>1. got'[ConnOf(d)] = Append(got[ConnOf(d)], hand[c]) /\ got[ConnOf(d)] \in Seq(Payload)
    BY <1>1, <1>3 DEF Writes
  <2>2. In(x, got'[ConnOf(d)]) => In(x, got[ConnOf(d)]) \/ x = hand[c]
    BY <2>1, InAppend DEF Writes
  <2> QED BY <1>1, <1>2, <1>3, <2>2 DEF Has
<1>4. CASE ConnOf(d) # ConnOf(c)
  <2>1. got'[ConnOf(d)] = got[ConnOf(d)]
    BY <1>1, <1>4 DEF Writes
  <2> QED BY <1>1, <1>2, <2>1 DEF Has
<1> QED BY <1>3, <1>4

\* ... and after one is lost.
LEMMA LosesHas ==
  ASSUME IInv, NEW c \in Client, Loses(c), NEW d \in Client, NEW x \in Payload, Has(d, x)'
  PROVE  Has(d, x)
<1>1. hand \in [Client -> Payload \cup {None}] /\ x # None
  BY HubAssumption DEF IInv, TypeOK
<1>2. queue' = queue /\ got' = got /\ (hand'[d] = hand[d] \/ hand'[d] = None)
  BY <1>1 DEF Loses
<1> QED BY <1>1, <1>2 DEF Has

\* A client comes by a payload only from a sender, from Run, or, when its peer gets
\* it, from another client of the same connection.
LEMMA HasBefore ==
  ASSUME IInv, [Next]_vars, NEW d \in Client, NEW x \in Payload, Has(d, x)'
  PROVE  \/ Has(d, x)
         \/ x \in Message /\ SendOne(x, d)
         \/ CastTo(d) /\ x = runCast.item /\ x \in Announcement
         \/ \E c \in Client : /\ ConnOf(c) = ConnOf(d) /\ x = hand[c]
                              /\ conn[ConnOf(c)] = "up"
<1>1. CASE UNCHANGED <<queue, hand, got>>
  BY <1>1 DEF Has
<1>2. ASSUME NEW c \in Client, NEW m \in Message, SendOne(m, c), Puts(c, m)
      PROVE  Has(d, x) \/ (x \in Message /\ SendOne(x, d))
  BY <1>2, PutsHas DEF Payload
<1>3. ASSUME NEW c \in Client, CastTo(c), runCast.item \in Announcement, Puts(c, runCast.item)
      PROVE  Has(d, x) \/ (CastTo(d) /\ x = runCast.item /\ x \in Announcement)
  BY <1>3, PutsHas DEF Payload
<1>4. ASSUME NEW c \in Client, Takes(c) \/ Loses(c)
      PROVE  Has(d, x)
  BY <1>4, TakesHas, LosesHas
<1>5. ASSUME NEW c \in Client, Writes(c)
      PROVE  Has(d, x) \/ (ConnOf(c) = ConnOf(d) /\ x = hand[c] /\ conn[ConnOf(c)] = "up")
  BY <1>5, WritesHas DEF Writes
<1> QED BY <1>1, <1>2, <1>3, <1>4, <1>5, Flow

\* Hence nobody comes by a payload that nobody has, but from a sender or from Run;
LEMMA HasFromNone ==
  ASSUME IInv, [Next]_vars, NEW x \in Payload, \A c \in Client : ~Has(c, x),
         NEW d \in Client, Has(d, x)'
  PROVE  (x \in Message /\ SendOne(x, d)) \/ (x \in Announcement /\ CastTo(d) /\ x = runCast.item)
<1>1. \A c \in Client : hand[c] # x
  BY DEF Has
<1> QED BY <1>1, HasBefore

\* nor does a client that was handed to the hub.
LEMMA HasFromBorn ==
  ASSUME IInv, Late, Carried, [Next]_vars, NEW x \in Payload, NEW d \in Client, Born(d),
         ~Has(d, x), Has(d, x)'
  PROVE  (x \in Message /\ SendOne(x, d)) \/ (x \in Announcement /\ CastTo(d) /\ x = runCast.item)
<1>1. ASSUME NEW c \in Client, ConnOf(c) = ConnOf(d), x = hand[c], conn[ConnOf(c)] = "up"
      PROVE  FALSE
  <2>1. Born(c)
    BY <1>1 DEF Carried
  <2>2. c = d
    BY <1>1, <2>1, OneBorn
  <2> QED BY <1>1, <2>2 DEF Has
<1> QED BY <1>1, HasBefore

\* A payload enters a channel once and only if its client is entitled to it ...
LEMMA PutsCarried ==
  ASSUME IInv, Carried, NEW c \in Client, NEW p \in Payload, Puts(c, p), ~Has(c, p), Born(c)',
         Promise!Eligible(ConnOf(c), p)',
         \A d \in Client : Born(d) => Born(d)',
         \A d \in Client, x \in Payload :
           Promise!Eligible(ConnOf(d), x) => Promise!Eligible(ConnOf(d), x)'
  PROVE  Carried'
<1>1. queue \in [Client -> Seq(Payload)]
  BY DEF IInv, TypeOK
<1>2. /\ \A d \in Client \ {c} : queue'[d] = queue[d]
      /\ queue'[c] = Append(queue[c], p) /\ queue[c] \in Seq(Payload)
      /\ hand' = hand /\ got' = got
  BY <1>1 DEF Puts
<1>3. Distinct(queue'[c]) /\ \A x : In(x, queue'[c]) <=> In(x, queue[c]) \/ x = p
  BY <1>2, InAppend, DistinctAppend DEF Carried, Has
<1>4. ASSUME NEW d \in Client
      PROVE  /\ Distinct(queue'[d])
             /\ \A x \in Payload :
                  /\ In(x, queue'[d]) \/ hand'[d] = x =>
                       /\ Born(d)' /\ Promise!Eligible(ConnOf(d), x)'
                       /\ ~In(x, got'[ConnOf(d)])
                  /\ In(x, queue'[d]) => hand'[d] # x
  <2>1. CASE d = c
    BY <1>2, <1>3, <2>1 DEF Carried, Has
  <2>2. CASE d # c
    BY <1>2, <2>2 DEF Carried
  <2> QED BY <2>1, <2>2
<1> QED BY <1>4 DEF Carried

\* ... leaves it when it is taken ...
LEMMA TakesCarried ==
  ASSUME IInv, Carried, NEW c \in Client, Takes(c),
         \A d \in Client : Born(d) => Born(d)',
         \A d \in Client, x \in Payload :
           Promise!Eligible(ConnOf(d), x) => Promise!Eligible(ConnOf(d), x)'
  PROVE  Carried'
<1>1. queue \in [Client -> Seq(Payload)] /\ hand \in [Client -> Payload \cup {None}]
  BY DEF IInv, TypeOK
<1>2. /\ \A d \in Client \ {c} : queue'[d] = queue[d] /\ hand'[d] = hand[d]
      /\ queue'[c] = Tail(queue[c]) /\ hand'[c] = Head(queue[c])
      /\ queue[c] \in Seq(Payload) /\ queue[c] # <<>>
      /\ got' = got
  BY <1>1 DEF Takes
<1>3. /\ Distinct(queue'[c]) /\ ~In(hand'[c], queue'[c]) /\ In(hand'[c], queue[c])
      /\ \A x : In(x, queue'[c]) => In(x, queue[c])
  BY <1>2, InTail, DistinctTail DEF Carried
<1>4. ASSUME NEW d \in Client
      PROVE  /\ Distinct(queue'[d])
             /\ \A x \in Payload :
                  /\ In(x, queue'[d]) \/ hand'[d] = x =>
                       /\ Born(d)' /\ Promise!Eligible(ConnOf(d), x)'
                       /\ ~In(x, got'[ConnOf(d)])
                  /\ In(x, queue'[d]) => hand'[d] # x
  <2>1. CASE d = c
    BY <1>2, <1>3, <2>1 DEF Carried
  <2>2. CASE d # c
    BY <1>2, <2>2 DEF Carried
  <2> QED BY <2>1, <2>2
<1> QED BY <1>4 DEF Carried

\* ... and is not carried to a peer that has it, by this client or another one.
LEMMA WritesCarried ==
  ASSUME IInv, Late, Carried, NEW c \in Client, Writes(c),
         \A d \in Client : Born(d) => Born(d)',
         \A d \in Client, x \in Payload :
           Promise!Eligible(ConnOf(d), x) => Promise!Eligible(ConnOf(d), x)'
  PROVE  Carried'
<1>1. /\ hand \in [Client -> Payload \cup {None}] /\ got \in [Conn -> Seq(Payload)]
      /\ None \notin Payload /\ ConnOf(c) \in Conn
  BY ClientParts, HubAssumption DEF IInv, TypeOK
<1>2. /\ queue' = queue /\ hand'[c] = None
      /\ \A d \in Client \ {c} : hand'[d] = hand[d]
      /\ \A k \in Conn : k # ConnOf(c) => got'[k] = got[k]
      /\ got'[ConnOf(c)] = Append(got[ConnOf(c)], hand[c]) /\ got[ConnOf(c)] \in Seq(Payload)
      /\ hand[c] \in Payload /\ conn[ConnOf(c)] = "up"
  BY <1>1 DEF Writes
<1>3. \A x : In(x, got'[ConnOf(c)]) <=> In(x, got[ConnOf(c)]) \/ x = hand[c]
  BY <1>2, InAppend
<1>4. ASSUME NEW d \in Client, NEW x \in Payload, In(x, queue'[d]) \/ hand'[d] = x
      PROVE  /\ Born(d)' /\ Promise!Eligible(ConnOf(d), x)'
             /\ ~In(x, got'[ConnOf(d)])
             /\ In(x, queue'[d]) => hand'[d] # x
  <2>1. In(x, queue[d]) \/ hand[d] = x
    BY <1>1, <1>2, <1>4
  <2>2. Born(d) /\ Promise!Eligible(ConnOf(d), x) /\ ~In(x, got[ConnOf(d)]) /\ ConnOf(d) \in Conn
    BY <2>1, ClientParts DEF Carried
  <2>3. CASE d = c
    BY <1>1, <1>2, <1>3, <1>4, <2>2, <2>3 DEF Carried
  <2>4. CASE d # c /\ ConnOf(d) = ConnOf(c)
    <3>1. Born(c)
      BY <1>2 DEF Carried
    <3> QED BY <1>2, <2>2, <2>4, <3>1, OneBorn
  <2>5. CASE ConnOf(d) # ConnOf(c)
    <3>1. got'[ConnOf(d)] = got[ConnOf(d)] /\ hand'[d] = hand[d]
      BY <1>2, <2>2, <2>5
    <3> QED BY <1>2, <2>1, <2>2, <3>1 DEF Carried
  <2> QED BY <2>3, <2>4, <2>5
<1> QED BY <1>2, <1>4 DEF Carried

\* What is carried stays so through every step.
LEMMA CarriedStep ==
  ASSUME DInv, [Next]_vars
  PROVE  Carried'
<1> USE DEF DInv
<1>1. \A d \in Client : Born(d) => Born(d)'
  BY BornStays
<1>2. \A d \in Client, x \in Payload :
        Promise!Eligible(ConnOf(d), x) => Promise!Eligible(ConnOf(d), x)'
  BY EligibleStays, ClientParts
<1>3. CASE UNCHANGED <<queue, hand, got>>
  BY <1>1, <1>2, <1>3 DEF Carried
<1>4. ASSUME NEW c \in Client, NEW m \in Message, SendOne(m, c), Puts(c, m)
      PROVE  Carried'
  <2>1. ~Has(c, m) /\ sent[m] = UserOf[ConnOf(c)] /\ m \in Payload
    BY <1>4 DEF SendOne, MessagesNew, Payload
  <2>2. c \in clients
    BY <1>4 DEF SendOne, IInv, Iterating
  <2>3. Born(c)
    BY <2>2 DEF IInv, AllBorn
  <2>4. Promise!Eligible(ConnOf(c), m)
    BY <2>1 DEF Promise!Eligible
  <2> QED BY <1>1, <1>2, <1>4, <2>1, <2>3, <2>4, PutsCarried
<1>5. ASSUME NEW c \in Client, CastTo(c), runCast.item \in Announcement, Puts(c, runCast.item)
      PROVE  Carried'
  <2>1. /\ ~Has(c, runCast.item) /\ runCast.item \in Payload /\ runCast \in cast
        /\ RoomOf(c) = runCast.building /\ UserOf[ConnOf(c)] # runCast.exclude
    BY <1>5 DEF CastTo, CastGoing, Payload
  <2>2. c \in clients
    BY <1>5 DEF CastTo, IInv, Iterating
  <2>3. Born(c)
    BY <2>2 DEF IInv, AllBorn
  <2>4. bids[ConnOf(c)] \in Seq(Building)
    BY ClientParts DEF IInv, TypeOK
  <2>5. RoomOf(c) \in Promise!ToSet(bids[ConnOf(c)])
    BY <2>3, <2>4, InToSet DEF Born, In
  <2>6. Promise!Eligible(ConnOf(c), runCast.item)
    BY <2>1, <2>5 DEF Promise!Eligible
  <2> QED BY <1>1, <1>2, <1>5, <2>1, <2>3, <2>6, PutsCarried
<1>6. ASSUME NEW c \in Client, Takes(c) PROVE Carried'
  BY <1>1, <1>2, <1>6, TakesCarried
<1>7. ASSUME NEW c \in Client, Writes(c) PROVE Carried'
  BY <1>1, <1>2, <1>7, WritesCarried
<1>8. ASSUME NEW c \in Client, Loses(c) PROVE Carried'
  <2>1. /\ queue' = queue /\ got' = got /\ None \notin Payload
        /\ \A d \in Client : hand'[d] = hand[d] \/ hand'[d] = None
    BY <1>8, HubAssumption DEF Loses, IInv, TypeOK
  <2> QED BY <1>1, <1>2, <2>1 DEF Carried
<1> QED BY <1>3, <1>4, <1>5, <1>6, <1>7, <1>8, Flow

-----------------------------------------------------------------------------
(* What has not been sent yet *)

\* SendToUser sends a message to each client on its list once.
LEMMA MessagesStep ==
  ASSUME DInv, [Next]_vars
  PROVE  MessagesNew'
<1> USE DEF DInv, MessagesNew
<1>1. \A m \in Message : m \in Payload /\ m \notin Announcement
  BY HubAssumption DEF Payload
<1>2. ASSUME NEW m \in Message, NEW c \in Client, ~Has(c, m), Born(c), ~SendOne(m, c)
      PROVE  ~Has(c, m)'
  BY <1>1, <1>2, HasFromBorn
<1>3. ASSUME NEW m \in Message, \A c \in Client : ~Has(c, m) /\ ~SendOne(m, c)
      PROVE  \A c \in Client : ~Has(c, m)'
  BY <1>1, <1>3, HasFromNone
<1>4. ASSUME NEW n \in Message, NEW u \in User, StartSend(n, u)
      PROVE  MessagesNew'
  <2>1. /\ sent[n] = None /\ sender'[n] = "sending" /\ sent'[n] = u /\ u # None
        /\ todo'[n] = {c \in clients : UserOf[ConnOf(c)] = u}
        /\ \A m \in Message \ {n} : sender'[m] = sender[m] /\ sent'[m] = sent[m] /\ todo'[m] = todo[m]
    BY <1>4, HubAssumption DEF StartSend, IInv, TypeOK
  <2>2. \A c \in Client, m \in Message : Has(c, m)' <=> Has(c, m)
    BY <1>4 DEF StartSend, pumpVars, gotVars, Has
  <2>3. clients \subseteq Client /\ todo \in [Message -> SUBSET Client]
    BY DEF IInv, TypeOK
  <2> QED BY <2>1, <2>2, <2>3
<1>5. CASE UNCHANGED <<sender, sent>> /\ \A m \in Message : todo'[m] \subseteq todo[m]
  <2>1. ASSUME NEW m \in Message, sent[m] = None
        PROVE  \A c \in Client : ~Has(c, m)'
    BY <1>3, <2>1 DEF SendOne
  <2>2. ASSUME NEW m \in Message, NEW c \in todo'[m]
        PROVE  ~Has(c, m)' /\ sent'[m] = UserOf[ConnOf(c)]
    <3>1. c \in todo[m] /\ c \in clients /\ c \in Client
      BY <1>5 DEF IInv, Iterating, TypeOK
    <3>2. Born(c)
      BY <3>1 DEF IInv, AllBorn
    <3>3. ~SendOne(m, c)
      BY <2>2 DEF SendOne, IInv, TypeOK
    <3> QED BY <1>2, <1>5, <3>1, <3>2, <3>3
  <2> QED BY <1>5, <2>1, <2>2
<1>6. ASSUME NEW m \in Message, EndSend(m)
      PROVE  MessagesNew'
  <2>1. /\ sender[m] = "sending" /\ sender'[m] = "done" /\ sent' = sent /\ todo' = todo
        /\ \A n \in Message \ {m} : sender'[n] = sender[n]
    BY <1>6 DEF EndSend, IInv, TypeOK
  <2>2. \A c \in Client, n \in Message : Has(c, n)' <=> Has(c, n)
    BY <1>6 DEF EndSend, pumpVars, gotVars, Has
  <2>3. todo \in [Message -> SUBSET Client]
    BY DEF IInv, TypeOK
  <2> QED BY <2>1, <2>2, <2>3
<1>7. ASSUME NEW m \in Message, NEW c \in Client, SendOne(m, c)
      PROVE  UNCHANGED <<sender, sent>> /\ \A n \in Message : todo'[n] \subseteq todo[n]
  BY <1>7 DEF SendOne, IInv, TypeOK
<1> QED
  BY <1>4, <1>5, <1>6, <1>7
     DEF Next, RunStep, SenderStep, HandlerStep, PumpStep, vars, sendVars, RecvRegister, RecvUnregister,
         AddClient, RemoveClient, RecvBroadcast, CastTo, Evict, CastDone, BroadcastToBuilding,
         StartPumps, ReadError, CloseConn, PeerLost, Open, BeginPump, Take, CallWrite, Collide, WriteOK, EndPump

\* Nobody comes by a broadcast that nobody has but from Run, which is serving it.
LEMMA NobodyHas ==
  ASSUME DInv, [Next]_vars, NEW a \in Announcement, \A c \in Client : ~Has(c, a),
         runAt = "broadcast" => a # runCast.item
  PROVE  \A c \in Client : ~Has(c, a)'
<1>1. a \in Payload /\ a \notin Message
  BY HubAssumption DEF Payload
<1>2. \A c \in Client : CastTo(c) => a # runCast.item
  BY DEF CastTo
<1> QED BY <1>1, <1>2, HasFromNone DEF DInv

\* A broadcast is new while it waits in h.broadcast.
LEMMA CastsStep ==
  ASSUME DInv, [Next]_vars
  PROVE  CastsNew'
<1> USE DEF DInv, CastsNew
<1>1. /\ broadcast \in Seq(Cast) /\ Len(broadcast) \in Nat /\ cast \subseteq Cast
      /\ \A i \in 1 .. Len(broadcast) : broadcast[i] \in Cast
      /\ \A r \in Cast : r.item \in Announcement
  BY DEF IInv, TypeOK, Cast
<1>2. ASSUME NEW a \in Announcement, a \notin {r.item : r \in cast}
      PROVE  \A c \in Client : ~Has(c, a)'
  <2>1. runAt = "broadcast" => a # runCast.item
    BY <1>2 DEF CastGoing
  <2> QED BY <1>2, <2>1, NobodyHas
<1>3. ASSUME NEW i \in 1 .. Len(broadcast), NEW a, a = broadcast[i].item
      PROVE  \A c \in Client : ~Has(c, a)'
  <2>1. a \in Announcement /\ \A c \in Client : ~Has(c, a)
    BY <1>1, <1>3
  <2>2. runAt = "broadcast" => a # runCast.item
    BY <1>3 DEF CastGoing
  <2> QED BY <2>1, <2>2, NobodyHas
<1>4. CASE RecvBroadcast
  <2>1. /\ broadcast' = Tail(broadcast) /\ broadcast # <<>> /\ cast' = cast
    BY <1>4 DEF RecvBroadcast
  <2>2. /\ Len(broadcast') = Len(broadcast) - 1
        /\ \A i \in 1 .. Len(broadcast) - 1 : broadcast'[i] = broadcast[i + 1] /\ i + 1 \in 1 .. Len(broadcast)
    BY <1>1, <2>1
  <2>3. \A i, j \in 1 .. Len(broadcast) - 1 : i + 1 = j + 1 => i = j
    BY <1>1
  <2>4. ASSUME NEW i \in 1 .. Len(broadcast'), NEW c \in Client
        PROVE  broadcast'[i] \in cast' /\ ~Has(c, broadcast[i].item)'
    <3>1. i + 1 \in 1 .. Len(broadcast) /\ broadcast'[i] = broadcast[i + 1]
      BY <2>2
    <3> QED BY <1>3, <2>1, <3>1 DEF Has
  <2>5. \A i \in 1 .. Len(broadcast') :
          broadcast'[i] \in cast' /\ \A c \in Client : ~Has(c, broadcast[i].item)'
    <3>1. ASSUME NEW i \in 1 .. Len(broadcast') PROVE broadcast'[i] \in cast'
      BY <2>1, <2>2
    <3> QED BY <2>4, <3>1
  <2> QED BY <1>2, <2>1, <2>2, <2>3, <2>4, <2>5
<1>5. ASSUME NEW a \in Announcement, NEW b \in Building, NEW x \in User \cup {None},
             BroadcastToBuilding(a, b, x)
      PROVE  CastsNew'
  <2> DEFINE r == [item |-> a, building |-> b, exclude |-> x]
  <2>1. /\ a \notin {e.item : e \in cast} /\ r \in Cast /\ r.item = a
        /\ broadcast' = Append(broadcast, r) /\ cast' = cast \cup {r}
        /\ queue' = queue /\ hand' = hand /\ got' = got
    BY <1>5 DEF BroadcastToBuilding, Cast, pumpVars, gotVars
  <2>2. /\ Len(broadcast') = Len(broadcast) + 1
        /\ \A i \in 1 .. Len(broadcast) : broadcast'[i] = broadcast[i]
        /\ broadcast'[Len(broadcast) + 1] = r
    BY <1>1, <2>1
  <2>3. \A i \in 1 .. Len(broadcast') : i = Len(broadcast) + 1 \/ i \in 1 .. Len(broadcast)
    BY <1>1, <2>2
  <2>4. \A i \in 1 .. Len(broadcast) : broadcast[i].item # a
    BY <2>1
  <2>5. \A e \in Announcement : e \notin {f.item : f \in cast'} => \A c \in Client : ~Has(c, e)'
    BY <1>2, <2>1
  <2>6. \A i \in 1 .. Len(broadcast') : broadcast'[i] \in cast'
    BY <2>1, <2>2, <2>3
  <2>7. \A i, j \in 1 .. Len(broadcast') : broadcast'[i].item = broadcast'[j].item => i = j
    BY <2>1, <2>2, <2>3, <2>4
  <2>8. ASSUME NEW i \in 1 .. Len(broadcast'), NEW c \in Client
        PROVE  ~Has(c, broadcast[i].item)'
    <3>1. CASE i = Len(broadcast) + 1
      BY <1>1, <2>1, <2>2, <3>1 DEF Has
    <3>2. CASE i \in 1 .. Len(broadcast)
      BY <2>1, <2>2, <3>2 DEF Has
    <3> QED BY <2>3, <3>1, <3>2
  <2> QED BY <2>5, <2>6, <2>7, <2>8
<1>6. CASE UNCHANGED castVars
  <2>1. broadcast' = broadcast /\ cast' = cast
    BY <1>6 DEF castVars
  <2>2. ASSUME NEW i \in 1 .. Len(broadcast'), NEW c \in Client
        PROVE  ~Has(c, broadcast[i].item)'
    BY <1>3, <2>1 DEF Has
  <2> QED BY <1>2, <2>1, <2>2
<1> QED
  BY <1>4, <1>5, <1>6
     DEF Next, RunStep, SenderStep, HandlerStep, PumpStep, vars, RecvRegister, RecvUnregister,
         AddClient, RemoveClient, CastTo, Evict, CastDone, StartSend, SendOne, EndSend,
         StartPumps, ReadError, CloseConn, PeerLost, Open, BeginPump, Take, CallWrite, Collide, WriteOK, EndPump

\* The broadcast Run serves reaches each client it has still to visit from nowhere else.
LEMMA CastGoingStep ==
  ASSUME DInv, [Next]_vars
  PROVE  CastGoing'
<1> USE DEF DInv, CastGoing
<1>1. /\ broadcast \in Seq(Cast) /\ Len(broadcast) \in Nat /\ cast \subseteq Cast
      /\ \A r \in Cast : r.item \in Payload /\ r.item \in Announcement /\ r.item \notin Message
  BY HubAssumption DEF IInv, TypeOK, Cast, Payload
<1>2. CASE RecvBroadcast
  <2>1. /\ runCast' = Head(broadcast) /\ broadcast' = Tail(broadcast) /\ broadcast # <<>>
        /\ runTodo' = {c \in buildings[Head(broadcast).building] :
                         UserOf[ConnOf(c)] # Head(broadcast).exclude}
        /\ cast' = cast /\ queue' = queue /\ hand' = hand /\ got' = got
    BY <1>2 DEF RecvBroadcast, pumpVars, gotVars
  <2>2. /\ Head(broadcast) = broadcast[1] /\ 1 \in 1 .. Len(broadcast) /\ Head(broadcast) \in Cast
        /\ Len(broadcast') = Len(broadcast) - 1
        /\ \A i \in 1 .. Len(broadcast) - 1 : /\ broadcast'[i] = broadcast[i + 1]
                                              /\ i + 1 \in 1 .. Len(broadcast) /\ i + 1 # 1
    BY <1>1, <2>1
  <2>3. /\ runCast' \in cast'
        /\ \A i \in 1 .. Len(broadcast') : broadcast'[i].item # runCast'.item
    BY <2>1, <2>2 DEF CastsNew
  <2>4. \A c \in buildings[Head(broadcast).building] :
          c \in Client /\ RoomOf(c) = Head(broadcast).building
    <3>1. Head(broadcast).building \in Building
      BY <2>2 DEF Cast
    <3> QED BY <3>1 DEF IInv, TypeOK, IndexesAgree
  <2>5. ASSUME NEW c \in runTodo' PROVE ~Has(c, runCast.item)'
    <3>1. c \in Client /\ runCast' = broadcast[1]
      BY <2>1, <2>2, <2>4
    <3> QED BY <2>1, <2>2, <3>1 DEF CastsNew, Has
  <2> QED BY <2>1, <2>3, <2>4, <2>5
<1>3. ASSUME runAt \in {"broadcast", "evict"}, runCast' = runCast, runTodo' \subseteq runTodo,
             NEW c \in runTodo'
      PROVE  ~Has(c, runCast.item)'
  <2>1. c \in runTodo /\ c \in clients /\ c \in Client /\ runCast \in Cast
    BY <1>3 DEF IInv, Iterating, TypeOK
  <2>2. Born(c) /\ ~Has(c, runCast.item)
    BY <1>3, <2>1 DEF IInv, AllBorn
  <2>3. CASE CastTo(c)
    <3>1. queue' = queue /\ hand' = hand /\ got' = got
      BY <1>3, <2>3 DEF CastTo, pumpVars, gotVars
    <3> QED BY <1>3, <2>2, <3>1 DEF Has
  <2>4. CASE ~CastTo(c)
    <3>1. ASSUME NEW x, x = runCast.item PROVE ~Has(c, x)'
      BY <1>1, <2>1, <2>2, <2>4, <3>1, HasFromBorn
    <3> QED BY <1>3, <3>1 DEF Has
  <2> QED BY <2>3, <2>4
<1>4. ASSUME NEW a \in Announcement, NEW b \in Building, NEW x \in User \cup {None},
             BroadcastToBuilding(a, b, x)
      PROVE  CastGoing'
  <2> DEFINE r == [item |-> a, building |-> b, exclude |-> x]
  <2>1. /\ a \notin {e.item : e \in cast} /\ r \in Cast /\ r.item = a
        /\ broadcast' = Append(broadcast, r) /\ cast' = cast \cup {r}
        /\ UNCHANGED <<runAt, runCast, runTodo>>
    BY <1>4 DEF BroadcastToBuilding, Cast, runVars
  <2>2. /\ Len(broadcast') = Len(broadcast) + 1
        /\ \A i \in 1 .. Len(broadcast) : broadcast'[i] = broadcast[i]
        /\ broadcast'[Len(broadcast) + 1] = r
    BY <1>1, <2>1
  <2>3. \A i \in 1 .. Len(broadcast') : i = Len(broadcast) + 1 \/ i \in 1 .. Len(broadcast)
    BY <1>1, <2>2
  <2> QED BY <1>3, <2>1, <2>2, <2>3
<1>5. CASE /\ runAt' \in {"broadcast", "evict"} => runAt \in {"broadcast", "evict"} /\ runCast' = runCast
           /\ runTodo' \subseteq runTodo
           /\ UNCHANGED castVars
  BY <1>3, <1>5 DEF castVars
<1>6. CASE Evict \/ CastDone \/ \E c \in Client : CastTo(c)
  BY <1>5, <1>6 DEF Evict, CastDone, CastTo
<1>7. CASE UNCHANGED <<runAt, runCast, runTodo, castVars>>
  BY <1>5, <1>7
<1>8. CASE AddClient \/ RemoveClient \/ \E k \in Conn : RecvRegister(k) \/ RecvUnregister(k)
  BY <1>5, <1>8 DEF AddClient, RemoveClient, RecvRegister, RecvUnregister
<1> QED
  BY <1>2, <1>4, <1>6, <1>7, <1>8
     DEF Next, RunStep, SenderStep, HandlerStep, PumpStep, vars, runVars, StartSend, SendOne, EndSend,
         StartPumps, ReadError, CloseConn, PeerLost, Open, BeginPump, Take, CallWrite, Collide, WriteOK, EndPump

\* A handler has no connection and no list before it begins.
LEMMA NotBegunStep ==
  ASSUME DInv, [Next]_vars
  PROVE  NotBegun'
<1> USE DEF DInv, NotBegun, IInv, TypeOK
<1>1. ASSUME NEW k \in Conn, NEW s \in Memberships, NEW w \in Conn, Open(k, s, w) PROVE NotBegun'
  <2>1. handler'[k] # "idle"
    BY <1>1 DEF Open
  <2>2. \A j \in Conn \ {k} : handler'[j] = handler[j] /\ conn'[j] = conn[j] /\ bids'[j] = bids[j]
    BY <1>1 DEF Open
  <2> QED BY <2>1, <2>2
<1>2. ASSUME NEW k \in Conn, PeerLost(k) PROVE NotBegun'
  BY <1>2 DEF PeerLost, connVars, wireVars
<1>3. ASSUME NEW c \in Client, EndPump(c) PROVE NotBegun'
  <2>1. /\ handler' = handler /\ bids' = bids
        /\ \A j \in Conn : j # bound[c] => conn'[j] = conn[j]
    BY <1>3 DEF EndPump, connVars, wireVars
  <2>2. bound[c] \in Conn => handler[bound[c]] # "idle"
    BY HubAssumption DEF Wired
  <2> QED BY <2>1, <2>2
<1>4. ASSUME NEW k \in Conn, CloseConn(k) \/ StartPumps(k) PROVE NotBegun'
  <2>1. /\ handler[k] # "idle" /\ handler'[k] # "idle" /\ bids' = bids
        /\ \A j \in Conn \ {k} : handler'[j] = handler[j] /\ conn'[j] = conn[j]
    BY <1>4 DEF CloseConn, StartPumps, NextTurn
  <2> QED BY <2>1
<1>5. ASSUME NEW k \in Conn, RecvRegister(k) \/ RecvUnregister(k) \/ ReadError(k) PROVE NotBegun'
  <2>1. /\ handler'[k] # "idle" /\ bids' = bids /\ conn' = conn
        /\ \A j \in Conn \ {k} : handler'[j] = handler[j]
    BY <1>5 DEF RecvRegister, RecvUnregister, ReadError
  <2> QED BY <2>1
<1>6. CASE UNCHANGED <<handler, conn, bids>>
  BY <1>6
<1> QED
  BY <1>1, <1>2, <1>3, <1>4, <1>5, <1>6
     DEF Next, RunStep, SenderStep, HandlerStep, PumpStep, vars, connVars, wireVars, AddClient, RemoveClient,
         RecvBroadcast, CastTo, Evict, CastDone, StartSend, SendOne, EndSend,
         BroadcastToBuilding, BeginPump, Take, CallWrite, Collide, WriteOK

\* A write goes astray only through a wrapper that its own connection has given back.
LEMMA AstrayStep ==
  ASSUME DInv, [Next]_vars
  PROVE  Astray'
<1> USE DEF DInv, Astray
<1>0. /\ conn \in [Conn -> {"none", "up", "broken", "closed"}]
      /\ DOMAIN pump = Client /\ DOMAIN aim = Client
      /\ \A c \in Client : ConnOf(c) \in Conn
  BY ClientParts DEF IInv, TypeOK
<1>1. \A k \in Conn : conn[k] = "closed" => conn'[k] = "closed"
  <2>1. ASSUME NEW k \in Conn, NEW s \in Memberships, NEW w \in Conn, Open(k, s, w)
        PROVE  conn[k] # "closed" /\ conn' = [conn EXCEPT ![k] = "up"]
    BY <2>1 DEF Open, NotBegun
  <2>2. ASSUME NEW k \in Conn, PeerLost(k)
        PROVE  conn[k] # "closed" /\ conn' = [conn EXCEPT ![k] = "broken"]
    BY <2>2 DEF PeerLost
  <2>3. ASSUME NEW k \in Conn, CloseConn(k)
        PROVE  conn' = [conn EXCEPT ![k] = "closed"]
    BY <2>3 DEF CloseConn
  <2>4. ASSUME NEW c \in Client, EndPump(c)
        PROVE  conn' = conn \/ conn' = [conn EXCEPT ![bound[c]] = "closed"]
    BY <2>4 DEF EndPump
  <2>5. CASE UNCHANGED conn
    BY <2>5
  <2> QED
    BY <1>0, <2>1, <2>2, <2>3, <2>4, <2>5
       DEF Next, RunStep, SenderStep, HandlerStep, PumpStep, vars, RecvRegister, RecvUnregister,
           AddClient, RemoveClient, RecvBroadcast, CastTo, Evict, CastDone, StartSend, SendOne,
           EndSend, BroadcastToBuilding, StartPumps, ReadError, BeginPump, Take, CallWrite,
           Collide, WriteOK
<1>2. ASSUME NEW c \in Client, CallWrite(c) PROVE Astray'
  <2>1. hand[c] \in Payload
    BY <1>2 DEF CallWrite, IInv, Holding
  <2>2. Born(c)
    BY <2>1 DEF Carried
  <2>3. handler[ConnOf(c)] # "idle"
    <3>1. CASE turn[ConnOf(c)] > 1
      BY <1>0, <3>1 DEF IInv, LoopOK
    <3>2. CASE ~(turn[ConnOf(c)] > 1)
      BY <1>0, <2>2, <3>2 DEF Born, IInv, TypeOK
    <3> QED BY <3>1, <3>2
  <2>4. Inner(c) # ConnOf(c) => conn[ConnOf(c)] = "closed"
    BY <1>0, <2>3 DEF Inner, IInv, Wired, Late
  <2>5. /\ aim'[c] = Inner(c)
        /\ \A d \in Client \ {c} : pump'[d] = pump[d] /\ aim'[d] = aim[d]
    BY <1>0, <1>2 DEF CallWrite
  <2> QED BY <1>0, <1>1, <2>4, <2>5
<1>3. CASE \A c \in Client : pump'[c] = "write" => pump[c] = "write" /\ aim'[c] = aim[c]
  BY <1>0, <1>1, <1>3
<1>4. ASSUME NEW c \in Client, BeginPump(c) \/ Take(c) \/ Collide(c) \/ WriteOK(c) \/ EndPump(c)
      PROVE  \A d \in Client : pump'[d] = "write" => pump[d] = "write" /\ aim'[d] = aim[d]
  BY <1>0, <1>4 DEF BeginPump, Take, Collide, WriteOK, EndPump
<1>5. ASSUME NEW k \in Conn, StartPumps(k)
      PROVE  \A d \in Client : pump'[d] = "write" => pump[d] = "write" /\ aim'[d] = aim[d]
  BY <1>0, <1>5 DEF StartPumps
<1>6. CASE UNCHANGED <<pump, aim>>
  BY <1>3, <1>6
<1> QED
  BY <1>2, <1>3, <1>4, <1>5, <1>6
     DEF Next, RunStep, SenderStep, HandlerStep, PumpStep, vars, pumpVars, gotVars,
         RecvRegister, RecvUnregister, AddClient, RemoveClient, RecvBroadcast, CastTo, Evict,
         CastDone, StartSend, SendOne, EndSend, BroadcastToBuilding, Open, ReadError,
         CloseConn, PeerLost

\* NewHub establishes it all, and every step keeps it.
LEMMA InitDInv == Init => DInv
<1> SUFFICES ASSUME Init PROVE DInv
  OBVIOUS
<1>1. IInv /\ TypeOK
  BY InitIInv DEF IInv
<1>2. \A c \in Client : queue[c] = <<>> /\ hand[c] = None /\ ConnOf(c) \in Conn
  BY ClientParts DEF Init
<1>3. \A c \in Client, p \in Payload : ~In(p, queue[c]) /\ hand[c] # p /\ ~Has(c, p)
  BY <1>2, HubAssumption DEF Init, In, Has
<1>4. Carried
  BY <1>2, <1>3 DEF Carried, Distinct
<1>5. MessagesNew /\ CastsNew
  BY <1>3 DEF Init, MessagesNew, CastsNew, Payload
<1>6. Late /\ CastGoing /\ NotBegun /\ Astray
  BY DEF Init, Late, CastGoing, NotBegun, Astray
<1> QED BY <1>1, <1>4, <1>5, <1>6 DEF DInv

\* No step of the hub breaks any of it.
LEMMA DInvStep ==
  ASSUME DInv, [Next]_vars
  PROVE  DInv'
<1>1. IInv'
  BY TypeStep, LoopStep, BornStep, IndexStep, IteratingStep, HoldingStep, WiredStep, OpenStep
     DEF DInv, IInv
<1>2. Late'
  BY LateStep DEF DInv
<1> QED
  BY <1>1, <1>2, CarriedStep, MessagesStep, CastsStep, CastGoingStep, NotBegunStep, AstrayStep
     DEF DInv

-----------------------------------------------------------------------------
(* Every step of the hub is a step of Delivery or none *)

\* The connections that are up, as Delivery sees them.
Up == {k \in Conn : conn[k] = "up"}

\* What a peer receives from its own client, Delivery delivers to it; what it receives
\* from another's goes astray.
LEMMA WriteDelivers ==
  ASSUME DInv, NEW c \in Client, WriteOK(c), conn[aim[c]] = "up"
  PROVE  /\ ConnOf(c) \in Conn /\ aim[c] \in Conn
         /\ \/ Promise!Deliver(ConnOf(c))
            \/ Promise!GoAstray(aim[c], ConnOf(c))
<1> USE DEF DInv
<1>1. /\ hand[c] \in Payload /\ ConnOf(c) \in Conn /\ got[ConnOf(c)] \in Seq(Payload)
      /\ aim[c] \in Conn /\ pump[c] = "write"
  BY ClientParts DEF WriteOK, IInv, Holding, Wired, TypeOK
<1>2. Promise!Eligible(ConnOf(c), hand[c]) /\ ~In(hand[c], got[ConnOf(c)]) /\ Born(c)
  BY <1>1 DEF Carried
<1>3. hand[c] \notin Promise!ToSet(got[ConnOf(c)])
  BY <1>1, <1>2, InToSet
<1>4. UNCHANGED <<conn, bids, sent, cast>>
  BY DEF WriteOK, connVars, wireVars, sendVars, castVars
<1>5. Up' = Up /\ aim[c] \in Up
  BY <1>1, <1>4 DEF Up
<1>6. CASE aim[c] = ConnOf(c)
  <2>1. got' = [got EXCEPT ![ConnOf(c)] = Append(@, hand[c])] /\ stray' = stray
    BY <1>6 DEF WriteOK
  <2> QED BY <1>1, <1>2, <1>3, <1>4, <1>5, <1>6, <2>1 DEF Promise!Deliver, Up, Payload
<1>7. CASE aim[c] # ConnOf(c)
  <2>1. got' = got /\ stray' = stray \cup {<<aim[c], ConnOf(c), hand[c]>>}
    BY <1>7 DEF WriteOK
  <2>2. ConnOf(c) \notin Up
    BY <1>1, <1>7 DEF Up, Astray
  <2>3. bids[ConnOf(c)] # <<>>
    BY <1>2 DEF Born
  <2> QED BY <1>1, <1>2, <1>4, <1>5, <2>1, <2>2, <2>3 DEF Promise!GoAstray, Up, Payload
<1> QED BY <1>1, <1>6, <1>7

\* Open is Connect, a loss or a close is Disconnect, a write that reaches a peer is
\* Deliver or GoAstray, the calls are Send and Broadcast; all else changes nothing
\* Delivery sees.
LEMMA StepDelivery ==
  ASSUME DInv, [Next]_vars
  PROVE  [Promise!Next]_(Promise!vars)
<1> USE DEF DInv, IInv, TypeOK
<1>1. ASSUME NEW k \in Conn, NEW s \in Memberships, NEW w \in Conn, Open(k, s, w)
      PROVE  Promise!Connect(k)
  <2>1. /\ bids[k] = <<>> /\ bids' = [bids EXCEPT ![k] = s]
        /\ UNCHANGED <<sent, cast, got, stray>>
        /\ conn'[k] = "up" /\ \A j \in Conn \ {k} : conn'[j] = conn[j]
    BY <1>1 DEF Open, NotBegun, sendVars, castVars, pumpVars, gotVars
  <2>2. Up' = Up \cup {k}
    BY <2>1 DEF Up
  <2> QED BY <2>1, <2>2 DEF Promise!Connect, Up
<1>2. ASSUME NEW k \in Conn, conn' = [conn EXCEPT ![k] = "broken"] \/ conn' = [conn EXCEPT ![k] = "closed"],
             UNCHANGED <<bids, sent, cast, got, stray>>
      PROVE  Promise!Disconnect(k)
  <2>1. Up' = Up \ {k}
    BY <1>2 DEF Up
  <2> QED BY <1>2, <2>1 DEF Promise!Disconnect, Up
<1>3. ASSUME NEW k \in Conn, PeerLost(k) \/ CloseConn(k)
      PROVE  Promise!Disconnect(k)
  BY <1>2, <1>3 DEF PeerLost, CloseConn, connVars, wireVars, sendVars, castVars, pumpVars, gotVars
<1>4. ASSUME NEW c \in Client, EndPump(c)
      PROVE  UNCHANGED Promise!vars \/ \E k \in Conn : Promise!Disconnect(k)
  <2>1. UNCHANGED <<bids, sent, cast, got, stray>>
    BY <1>4 DEF EndPump, connVars, sendVars, castVars, gotVars
  <2>2. CASE bound[c] = None
    BY <1>4, <2>1, <2>2 DEF EndPump, Promise!vars
  <2>3. CASE bound[c] # None
    BY <1>2, <1>4, <2>1, <2>3 DEF EndPump
  <2> QED BY <2>2, <2>3
<1>5. ASSUME NEW c \in Client, WriteOK(c)
      PROVE  \/ UNCHANGED Promise!vars
             \/ \E k \in Conn : Promise!Deliver(k)
             \/ \E k, j \in Conn : Promise!GoAstray(k, j)
  <2>1. CASE conn[aim[c]] = "up"
    BY <1>5, <2>1, WriteDelivers
  <2>2. CASE conn[aim[c]] # "up"
    BY <1>5, <2>2 DEF WriteOK, connVars, wireVars, sendVars, castVars, Promise!vars
  <2> QED BY <2>1, <2>2
<1>6. ASSUME NEW m \in Message, NEW u \in User, StartSend(m, u)
      PROVE  Promise!Send(m)
  BY <1>6 DEF StartSend, MessagesNew, connVars, castVars, pumpVars, gotVars, Promise!Send
<1>7. ASSUME NEW a \in Announcement, NEW b \in Building, NEW x \in User \cup {None},
             BroadcastToBuilding(a, b, x)
      PROVE  Promise!Broadcast(a)
  BY <1>7 DEF BroadcastToBuilding, connVars, sendVars, pumpVars, gotVars, Promise!Broadcast
<1>8. CASE UNCHANGED <<conn, bids, sent, cast, got, stray>>
  BY <1>8 DEF Promise!vars
<1>9. \/ UNCHANGED <<conn, bids, sent, cast, got, stray>>
      \/ \E k \in Conn : PeerLost(k) \/ CloseConn(k) \/ \E s \in Memberships, w \in Conn : Open(k, s, w)
      \/ \E c \in Client : EndPump(c) \/ WriteOK(c)
      \/ \E m \in Message, u \in User : StartSend(m, u)
      \/ \E a \in Announcement, b \in Building, x \in User \cup {None} : BroadcastToBuilding(a, b, x)
  BY DEF Next, RunStep, SenderStep, HandlerStep, PumpStep, vars, connVars, pumpVars, gotVars,
         sendVars, castVars, RecvRegister, RecvUnregister, AddClient, RemoveClient, RecvBroadcast,
         CastTo, Evict, CastDone, SendOne, EndSend, StartPumps, ReadError, BeginPump, Take,
         CallWrite, Collide
<1> QED BY <1>1, <1>3, <1>4, <1>5, <1>6, <1>7, <1>8, <1>9 DEF Promise!Next

\* The hub delivers to live connections of the addressee at most once, and to live
\* connections of others only what was meant for a connection that has ended.
THEOREM HubImplementsDelivery == Spec => ImplementsDelivery
<1>1. Init => Promise!Init
  BY DEF Init, Promise!Init
<1>2. DInv /\ [Next]_vars => [Promise!Next]_(Promise!vars)
  BY StepDelivery
<1>3. DInv /\ [Next]_vars => DInv'
  BY DInvStep
<1> QED BY InitDInv, <1>1, <1>2, <1>3, PTL DEF Spec, ImplementsDelivery, Promise!Spec
=============================================================================
