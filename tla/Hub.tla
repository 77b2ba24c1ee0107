-------------------------------- MODULE Hub --------------------------------
(***************************************************************************)
(* The WebSocket hub of internal/websocket/hub.go together with the        *)
(* goroutines that use it: the single Run loop, one Handle goroutine per   *)
(* upgraded connection (which runs ReadPump inline), one WritePump per     *)
(* registered client, and the HTTP handlers that call SendToUser.          *)
(*                                                                         *)
(* A step of the model is the longest stretch of code in which a goroutine *)
(* touches shared state once: a channel hand-over, one critical section of *)
(* h.mu, one non-blocking send, one call on the connection.                *)
(*                                                                         *)
(* Client.Conn is not the connection but gofiber/contrib/websocket's       *)
(* wrapper around it.  websocket.New takes a wrapper from a sync.Pool, and *)
(* when Handle returns it clears the wrapper's inner connection and puts   *)
(* it back, while WritePumps may still hold it.  A call through a cleared  *)
(* wrapper panics in a goroutine that nobody recovers: the server dies.    *)
(***************************************************************************)
EXTENDS Naturals, Sequences, FiniteSets

CONSTANTS
  Conn,          \* WebSocket connections
  User,          \* users
  Building,      \* buildings
  UserOf,        \* the user each connection was authenticated for
  Memberships,   \* the lists GetBuildingsByUser may return, <<>> included
  Message,       \* calls of SendToUser, one payload each
  Announcement,  \* calls of BroadcastToBuilding, one payload each
  None,          \* nil: no client, no payload, no excluded user
  SendCap,       \* capacity of Client.Send (256 in the code)
  BroadcastCap   \* capacity of Hub.broadcast (256 in the code)

\* A client belongs to one connection and one building: Handle makes one per
\* entry of buildingIDs, and those are distinct.
Client   == Conn \X Building
ConnOf(c) == c[1]  \* the connection it was made for
RoomOf(c) == c[2]
Payload  == Message \cup Announcement
Cast     == [item : Announcement, building : Building, exclude : User \cup {None}]

ASSUME HubAssumption ==
  /\ UserOf \in [Conn -> User]
  /\ None \notin Client \cup Payload \cup User \cup Cast \cup Conn
  /\ Message \cap Announcement = {}
  /\ SendCap \in Nat \ {0}
  /\ BroadcastCap \in Nat \ {0}
  /\ \A s \in Memberships : /\ s \in Seq(Building)
                            /\ \A i, j \in 1 .. Len(s) : s[i] = s[j] => i = j

VARIABLES
  clients,    \* Hub.clients
  buildings,  \* Hub.buildings; an absent key and an empty inner map are both {}
  broadcast,  \* Hub.broadcast
  runAt,      \* where the Run goroutine is
  runClient,  \* the client Run holds: received, or found full in a broadcast
  runCast,    \* the broadcast Run is serving
  runTodo,    \* the clients the broadcast loop has still to visit
  queue,      \* contents of each Client.Send
  closes,     \* how often each Client.Send has been closed
  conn,       \* state of each connection
  bids,       \* buildingIDs of each Handle goroutine
  turn,       \* index of each Handle loop
  wrap,       \* the wrapper of each connection, named by the one it was made for
  inner,      \* the connection in each wrapper; None when it is cleared
  handler,    \* where each Handle goroutine is
  pump,       \* where each WritePump goroutine is
  hand,       \* the message a WritePump has taken from its channel
  bound,      \* the connection that its deferred Close is bound to
  aim,        \* the connection that its WriteMessage is under way on
  sender,     \* where each SendToUser call is
  todo,       \* the clients a SendToUser call has still to visit
  sent,       \* history: the user each SendToUser call was for
  cast,       \* history: the broadcasts that have been submitted
  got,        \* history: what each peer has received from its own clients
  stray       \* history: what peers have received from the clients of others

hubVars  == <<clients, buildings>>
runVars  == <<runAt, runClient, runCast, runTodo>>
wireVars == <<wrap, inner>>
connVars == <<bids, turn, handler, wireVars>>
gotVars  == <<got, stray>>
pumpVars == <<pump, hand, bound, aim, gotVars>>
sendVars == <<sender, todo, sent>>
castVars == <<broadcast, cast>>
vars     == <<hubVars, runVars, connVars, pumpVars, sendVars, castVars, conn, queue, closes>>

Init ==
  /\ clients = {}
  /\ buildings = [b \in Building |-> {}]
  /\ broadcast = <<>>
  /\ runAt = "select" /\ runClient = None /\ runCast = None /\ runTodo = {}
  /\ queue = [c \in Client |-> <<>>]
  /\ closes = [c \in Client |-> 0]
  /\ conn = [k \in Conn |-> "none"]
  /\ bids = [k \in Conn |-> <<>>]
  /\ turn = [k \in Conn |-> 1]
  /\ wrap = [k \in Conn |-> k]
  /\ inner = [w \in Conn |-> None]
  /\ handler = [k \in Conn |-> "idle"]
  /\ pump = [c \in Client |-> "none"]
  /\ hand = [c \in Client |-> None]
  /\ bound = [c \in Client |-> None]
  /\ aim = [c \in Client |-> None]
  /\ sender = [m \in Message |-> "idle"]
  /\ todo = [m \in Message |-> {}]
  /\ sent = [m \in Message |-> None]
  /\ cast = {}
  /\ got = [k \in Conn |-> <<>>]
  /\ stray = {}

-----------------------------------------------------------------------------
(* Helpers *)

\* The client the Handle goroutine of k is working for in this turn of its loop.
Current(k) == <<k, bids[k][turn[k]]>>

\* The write lock of h.mu is free for Run: no SendToUser holds the read lock.
\* (Only Run takes the write lock, and it holds it within one step.)
CanLock == \A m \in Message : sender[m] # "sending"

\* Mutant: a plain send, which waits while the channel is full.
BlockingSend(c, p) ==
  /\ Len(queue[c]) < SendCap
  /\ queue' = [queue EXCEPT ![c] = Append(@, p)]

\* select { case client.Send <- p: default: drop }: a full channel loses p.
TrySend(c, p) ==
  queue' = IF Len(queue[c]) < SendCap
           THEN [queue EXCEPT ![c] = Append(@, p)]
           ELSE queue

\* Mutant: the building's index is forgotten.
DropFromOneIndex(c) ==
  /\ clients' = clients \ {c}
  /\ closes' = [closes EXCEPT ![c] = @ + 1]
  /\ UNCHANGED buildings

\* delete(h.clients, c.ID), delete(h.buildings[c.BuildingID], c.ID), close(c.Send)
Drop(c) ==
  /\ clients' = clients \ {c}
  /\ buildings' = [buildings EXCEPT ![RoomOf(c)] = @ \ {c}]
  /\ closes' = [closes EXCEPT ![c] = @ + 1]

-----------------------------------------------------------------------------
(* The Run goroutine *)

\* case client := <-h.register: the unbuffered hand-over frees the handler.
RecvRegister(k) ==
  /\ runAt = "select"
  /\ handler[k] = "register"
  /\ runAt' = "register"
  /\ runClient' = Current(k)
  /\ handler' = [handler EXCEPT ![k] = "start"]
  /\ UNCHANGED <<hubVars, runCast, runTodo, bids, turn, wireVars, pumpVars, sendVars, castVars, conn, queue, closes>>

\* ... and the critical section that enters it in both maps.
AddClient ==
  /\ runAt = "register"
  /\ CanLock
  /\ clients' = clients \cup {runClient}
  /\ buildings' = [buildings EXCEPT ![RoomOf(runClient)] = @ \cup {runClient}]
  /\ runAt' = "select"
  /\ runClient' = None
  /\ UNCHANGED <<runCast, runTodo, connVars, pumpVars, sendVars, castVars, conn, queue, closes>>

\* case client := <-h.unregister
RecvUnregister(k) ==
  /\ runAt = "select"
  /\ handler[k] = "unregister"
  /\ runAt' = "unregister"
  /\ runClient' = Current(k)
  /\ handler' = [handler EXCEPT ![k] = "close"]
  /\ UNCHANGED <<hubVars, runCast, runTodo, bids, turn, wireVars, pumpVars, sendVars, castVars, conn, queue, closes>>

\* Mutant: "if _, ok := h.clients[client.ID]; ok" is dropped.
RemoveUnchecked ==
  /\ runAt = "unregister"
  /\ CanLock
  /\ Drop(runClient)
  /\ runAt' = "select"
  /\ runClient' = None
  /\ UNCHANGED <<runCast, runTodo, connVars, pumpVars, sendVars, castVars, conn, queue>>

\* ... only a client still in h.clients is removed and has its channel closed.
RemoveClient ==
  /\ runAt = "unregister"
  /\ CanLock
  /\ IF runClient \in clients
     THEN Drop(runClient)
     ELSE UNCHANGED <<hubVars, closes>>
  /\ runAt' = "select"
  /\ runClient' = None
  /\ UNCHANGED <<runCast, runTodo, connVars, pumpVars, sendVars, castVars, conn, queue>>

\* case msg := <-h.broadcast: RLock, then range over the building's clients.
RecvBroadcast ==
  /\ runAt = "select"
  /\ broadcast # <<>>
  /\ runAt' = "broadcast"
  /\ runCast' = Head(broadcast)
  /\ broadcast' = Tail(broadcast)
  /\ runTodo' = {c \in buildings[Head(broadcast).building] :
                   UserOf[ConnOf(c)] # Head(broadcast).exclude}
  /\ UNCHANGED <<hubVars, runClient, connVars, pumpVars, sendVars, cast, conn, queue, closes>>

\* One client of the range loop: the send succeeds, or the default branch gives
\* up the read lock in order to evict the client.
CastTo(c) ==
  /\ runAt = "broadcast"
  /\ c \in runTodo
  /\ IF Len(queue[c]) < SendCap
     THEN /\ queue' = [queue EXCEPT ![c] = Append(@, runCast.item)]
          /\ runTodo' = runTodo \ {c}
          /\ UNCHANGED <<runAt, runClient>>
     ELSE /\ runAt' = "evict"
          /\ runClient' = c
          /\ UNCHANGED <<queue, runTodo>>
  /\ UNCHANGED <<hubVars, runCast, connVars, pumpVars, sendVars, castVars, conn, closes>>

\* The default branch under the write lock; then RLock again and go on.
Evict ==
  /\ runAt = "evict"
  /\ CanLock
  /\ Drop(runClient)
  /\ runTodo' = runTodo \ {runClient}
  /\ runAt' = "broadcast"
  /\ runClient' = None
  /\ UNCHANGED <<runCast, connVars, pumpVars, sendVars, castVars, conn, queue>>

CastDone ==
  /\ runAt = "broadcast"
  /\ runTodo = {}
  /\ runAt' = "select"
  /\ runCast' = None
  /\ UNCHANGED <<hubVars, runClient, runTodo, connVars, pumpVars, sendVars, castVars, conn, queue, closes>>

-----------------------------------------------------------------------------
(* SendToUser, called by MessagingHandler.SendMessage; BroadcastToBuilding *)

\* Mutant: "client.UserID == userID" is dropped.
SendToAll(m, u) ==
  /\ sender[m] = "idle"
  /\ sender' = [sender EXCEPT ![m] = "sending"]
  /\ sent' = [sent EXCEPT ![m] = u]
  /\ todo' = [todo EXCEPT ![m] = clients]
  /\ UNCHANGED <<hubVars, runVars, connVars, pumpVars, castVars, conn, queue, closes>>

\* RLock and range over h.clients for the clients of user u.
StartSend(m, u) ==
  /\ sender[m] = "idle"
  /\ sender' = [sender EXCEPT ![m] = "sending"]
  /\ sent' = [sent EXCEPT ![m] = u]
  /\ todo' = [todo EXCEPT ![m] = {c \in clients : UserOf[ConnOf(c)] = u}]
  /\ UNCHANGED <<hubVars, runVars, connVars, pumpVars, castVars, conn, queue, closes>>

SendOne(m, c) ==
  /\ sender[m] = "sending"
  /\ c \in todo[m]
  /\ TrySend(c, m)
  /\ todo' = [todo EXCEPT ![m] = @ \ {c}]
  /\ UNCHANGED <<hubVars, runVars, connVars, pumpVars, sender, sent, castVars, conn, closes>>

\* The deferred RUnlock.
EndSend(m) ==
  /\ sender[m] = "sending"
  /\ todo[m] = {}
  /\ sender' = [sender EXCEPT ![m] = "done"]
  /\ UNCHANGED <<hubVars, runVars, connVars, pumpVars, todo, sent, castVars, conn, queue, closes>>

\* h.broadcast <- msg: blocks while the buffer is full.
BroadcastToBuilding(a, b, x) ==
  /\ a \notin {r.item : r \in cast}
  /\ Len(broadcast) < BroadcastCap
  /\ LET r == [item |-> a, building |-> b, exclude |-> x] IN
       /\ broadcast' = Append(broadcast, r)
       /\ cast' = cast \cup {r}
  /\ UNCHANGED <<hubVars, runVars, connVars, pumpVars, sendVars, conn, queue, closes>>

-----------------------------------------------------------------------------
(* One Handle goroutine per connection, ReadPump inlined as in the code *)

\* The upgrade succeeded, with a new wrapper or one given back; GetBuildingsByUser
\* returned s, or failed / was empty.
Open(k, s, w) ==
  /\ handler[k] = "idle"
  /\ w = k \/ \E j \in Conn : handler[j] = "returned" /\ wrap[j] = w
  /\ inner[w] = None
  /\ bids' = [bids EXCEPT ![k] = s]
  /\ wrap' = [wrap EXCEPT ![k] = w]
  /\ inner' = [inner EXCEPT ![w] = k]
  /\ conn' = [conn EXCEPT ![k] = "up"]
  /\ handler' = [handler EXCEPT ![k] = IF s = <<>> THEN "close" ELSE "register"]
  /\ UNCHANGED <<hubVars, runVars, turn, pumpVars, sendVars, castVars, queue, closes>>

\* The rest of a turn of the loop: the next building, or the end of Handle, and
\* with it of the wrapper's time with the connection.
NextTurn(k) ==
  IF turn[k] < Len(bids[k])
  THEN /\ turn' = [turn EXCEPT ![k] = @ + 1]
       /\ handler' = [handler EXCEPT ![k] = "register"]
       /\ UNCHANGED inner
  ELSE /\ handler' = [handler EXCEPT ![k] = "returned"]
       /\ inner' = [inner EXCEPT ![wrap[k]] = None]
       /\ UNCHANGED turn

\* go ws.WritePump(client), then ReadPump for the first building only.
StartPumps(k) ==
  /\ handler[k] = "start"
  /\ pump' = [pump EXCEPT ![Current(k)] = "go"]
  /\ IF turn[k] = 1
     THEN /\ handler' = [handler EXCEPT ![k] = "read"]
          /\ UNCHANGED <<turn, inner>>
     ELSE NextTurn(k)
  /\ UNCHANGED <<hubVars, runVars, bids, wrap, hand, bound, aim, gotVars, sendVars, castVars,
                 conn, queue, closes>>

\* Mutant: the deferred hub.Unregister is missing.
LeaveRegistered(k) ==
  /\ handler[k] = "read"
  /\ conn[k] # "up"
  /\ handler' = [handler EXCEPT ![k] = "close"]
  /\ UNCHANGED <<hubVars, runVars, bids, turn, wireVars, pumpVars, sendVars, castVars, conn, queue, closes>>

\* Conn.ReadMessage fails: the peer has gone or WritePump closed the connection.
ReadError(k) ==
  /\ handler[k] = "read"
  /\ conn[k] # "up"
  /\ handler' = [handler EXCEPT ![k] = "unregister"]
  /\ UNCHANGED <<hubVars, runVars, bids, turn, wireVars, pumpVars, sendVars, castVars, conn, queue, closes>>

\* The rest of ReadPump's deferred function, and back to the loop of Handle; or the
\* Close of a Handle that has no building to serve.
CloseConn(k) ==
  /\ handler[k] = "close"
  /\ conn' = [conn EXCEPT ![k] = "closed"]
  /\ NextTurn(k)
  /\ UNCHANGED <<hubVars, runVars, bids, wrap, pumpVars, sendVars, castVars, queue, closes>>

-----------------------------------------------------------------------------
(* One WritePump goroutine per client *)

\* The connection in the client's wrapper now: its own, another's or none.
Inner(c) == inner[wrap[ConnOf(c)]]

\* The goroutine starts; defer client.Conn.Close() is bound to what the wrapper holds.
BeginPump(c) ==
  /\ pump[c] = "go"
  /\ bound' = [bound EXCEPT ![c] = Inner(c)]
  /\ pump' = [pump EXCEPT ![c] = "range"]
  /\ UNCHANGED <<hubVars, runVars, connVars, hand, aim, gotVars, sendVars, castVars, conn, queue, closes>>

Take(c) ==
  /\ pump[c] = "range"
  /\ queue[c] # <<>>
  /\ hand' = [hand EXCEPT ![c] = Head(queue[c])]
  /\ queue' = [queue EXCEPT ![c] = Tail(@)]
  /\ pump' = [pump EXCEPT ![c] = "call"]
  /\ UNCHANGED <<hubVars, runVars, connVars, bound, aim, gotVars, sendVars, castVars, conn, closes>>

\* client.Conn.WriteMessage is called on what the wrapper holds; on nil it panics.
CallWrite(c) ==
  /\ pump[c] = "call"
  /\ aim' = [aim EXCEPT ![c] = Inner(c)]
  /\ pump' = [pump EXCEPT ![c] = IF Inner(c) = None THEN "panicked" ELSE "write"]
  /\ UNCHANGED <<hubVars, runVars, connVars, hand, bound, gotVars, sendVars, castVars, conn, queue, closes>>

\* WriteMessage returns nil: the peer has the message, unless the connection is
\* broken and it only reached a buffer. It returns when the peer reads: no
\* write deadline is set.
WriteOK(c) ==
  /\ pump[c] = "write"
  /\ conn[aim[c]] \in {"up", "broken"}
  /\ got' = IF conn[aim[c]] = "up" /\ aim[c] = ConnOf(c)
            THEN [got EXCEPT ![aim[c]] = Append(@, hand[c])]
            ELSE got
  /\ stray' = IF conn[aim[c]] = "up" /\ aim[c] # ConnOf(c)
              THEN stray \cup {<<aim[c], ConnOf(c), hand[c]>>}
              ELSE stray
  /\ hand' = [hand EXCEPT ![c] = None]
  /\ aim' = [aim EXCEPT ![c] = None]
  /\ pump' = [pump EXCEPT ![c] = "range"]
  /\ UNCHANGED <<hubVars, runVars, connVars, bound, sendVars, castVars, conn, queue, closes>>

\* Two WritePumps write on one connection at a time: the library may see it and panic.
Collide(c) ==
  /\ pump[c] = "write"
  /\ \E d \in Client \ {c} : pump[d] = "write" /\ aim[d] = aim[c]
  /\ pump' = [pump EXCEPT ![c] = "panicked"]
  /\ UNCHANGED <<hubVars, runVars, connVars, hand, bound, aim, gotVars, sendVars, castVars, conn, queue, closes>>

\* WritePump returns, on a write error or when the closed channel is drained; its
\* deferred call closes the connection it is bound to, and panics when that is nil.
EndPump(c) ==
  /\ \/ pump[c] = "write" /\ conn[aim[c]] # "up"
     \/ pump[c] = "range" /\ queue[c] = <<>> /\ closes[c] > 0
  /\ pump' = [pump EXCEPT ![c] = IF bound[c] = None THEN "panicked" ELSE "ended"]
  /\ conn' = IF bound[c] = None THEN conn ELSE [conn EXCEPT ![bound[c]] = "closed"]
  /\ hand' = [hand EXCEPT ![c] = None]
  /\ aim' = [aim EXCEPT ![c] = None]
  /\ UNCHANGED <<hubVars, runVars, connVars, bound, gotVars, sendVars, castVars, queue, closes>>

-----------------------------------------------------------------------------
\* The environment: a connection breaks.
PeerLost(k) ==
  /\ conn[k] = "up"
  /\ conn' = [conn EXCEPT ![k] = "broken"]
  /\ UNCHANGED <<hubVars, runVars, connVars, pumpVars, sendVars, castVars, queue, closes>>

RunStep ==
  \/ \E k \in Conn : RecvRegister(k) \/ RecvUnregister(k)
  \/ AddClient
  \/ RemoveClient
  \/ RecvBroadcast
  \/ \E c \in Client : CastTo(c)
  \/ Evict
  \/ CastDone

SenderStep(m) == (\E c \in Client : SendOne(m, c)) \/ EndSend(m)

HandlerStep(k) == StartPumps(k) \/ ReadError(k) \/ CloseConn(k)

\* What a WritePump does without waiting for a peer.
PumpStep(c) == BeginPump(c) \/ Take(c) \/ CallWrite(c) \/ EndPump(c)

\* A panic in any of these goroutines ends the process.
Alive == \A c \in Client : pump[c] # "panicked"

Next ==
  /\ Alive
  /\ \/ RunStep
     \/ \E m \in Message : SenderStep(m) \/ \E u \in User : StartSend(m, u)
     \/ \E a \in Announcement, b \in Building, x \in User \cup {None} : BroadcastToBuilding(a, b, x)
     \/ \E k \in Conn : HandlerStep(k) \/ PeerLost(k) \/ \E s \in Memberships, w \in Conn : Open(k, s, w)
     \/ \E c \in Client : PumpStep(c) \/ WriteOK(c) \/ Collide(c)

Spec == Init /\ [][Next]_vars

\* The Go scheduler runs every goroutine that can run. A write on a connection
\* that is up waits for the peer and is not among the fair steps: peers may
\* stall for ever.
Fairness ==
  /\ WF_vars(Alive /\ RunStep)
  /\ \A m \in Message : WF_vars(Alive /\ SenderStep(m))
  /\ \A k \in Conn : WF_vars(Alive /\ HandlerStep(k))
  /\ \A c \in Client : WF_vars(Alive /\ PumpStep(c))

FairSpec == Spec /\ Fairness

-----------------------------------------------------------------------------
(* Properties *)

\* The variables range over what the Go types allow.
TypeOK ==
  /\ clients \subseteq Client
  /\ buildings \in [Building -> SUBSET Client]
  /\ broadcast \in Seq(Cast)
  /\ runAt \in {"select", "register", "unregister", "broadcast", "evict"}
  /\ runClient \in Client \cup {None}
  /\ runCast \in Cast \cup {None}
  /\ runTodo \subseteq Client
  /\ queue \in [Client -> Seq(Payload)]
  /\ closes \in [Client -> Nat]
  /\ conn \in [Conn -> {"none", "up", "broken", "closed"}]
  /\ bids \in [Conn -> Seq(Building)]
  /\ turn \in [Conn -> Nat \ {0}]
  /\ wrap \in [Conn -> Conn]
  /\ inner \in [Conn -> Conn \cup {None}]
  /\ handler \in [Conn -> {"idle", "register", "start", "read", "unregister", "close", "returned"}]
  /\ pump \in [Client -> {"none", "go", "range", "call", "write", "ended", "panicked"}]
  /\ hand \in [Client -> Payload \cup {None}]
  /\ bound \in [Client -> Conn \cup {None}]
  /\ aim \in [Client -> Conn \cup {None}]
  /\ sender \in [Message -> {"idle", "sending", "done"}]
  /\ todo \in [Message -> SUBSET Client]
  /\ sent \in [Message -> User \cup {None}]
  /\ cast \subseteq Cast
  /\ got \in [Conn -> Seq(Payload)]
  /\ stray \subseteq Conn \X Conn \X Payload

\* No goroutine ever closes a channel twice or is about to send on a closed one;
\* either would take the server down, as a call on a cleared wrapper does.
\* SendToUser and the broadcast loop work from what they read of the maps earlier,
\* an eviction drops the lock between finding a channel full and closing it, and an
\* evicted client's handler still unregisters it later.
NoChannelPanic ==
  /\ \A c \in Client : closes[c] <= 1
  /\ \A c \in clients : closes[c] = 0
  /\ \A m \in Message : \A c \in todo[m] : closes[c] = 0
  /\ \A c \in runTodo : closes[c] = 0

\* The two indexes of the hub agree: a client is in h.clients exactly when it is
\* in h.buildings under its own building, whichever of register, unregister and
\* eviction touched it last.
IndexesAgree ==
  \A c \in Client, b \in Building :
    c \in buildings[b] <=> c \in clients /\ RoomOf(c) = b

\* The hub delivers as Delivery promises: to a live connection of the addressee, at
\* most once; and to a live connection of somebody else only through the wrapper of
\* a connection of the addressee that has ended. A client left in a map under the
\* wrong key, a message sent from a stale list of clients or a wrapper given to two
\* connections at once would break it.
Promise == INSTANCE Delivery WITH
  up <- {k \in Conn : conn[k] = "up"},
  list <- bids
ImplementsDelivery == Promise!Spec

\* Once a connection is broken or closed while its handler reads from it, the
\* client it registered first leaves h.clients: no SendToUser, broadcast or
\* stalled peer elsewhere keeps it there, unless the server dies.
GoneIsUnregistered ==
  \A k \in Conn : (handler[k] = "read" /\ conn[k] # "up")
                    ~> \/ /\ handler[k] = "returned" \/ turn[k] > 1
                          /\ \A c \in clients : ConnOf(c) = k => RoomOf(c) # Head(bids[k])
                       \/ ~Alive

\* A SendToUser call ends whatever the peers do, even when none of them reads:
\* the HTTP handler that sends a message never waits for a WebSocket.
SendToUserReturns ==
  \A m \in Message : sender[m] = "sending" ~> (sender[m] = "done" \/ ~Alive)

\* "Register a client for each building", says Handle of its loop: a connection
\* that stays up gets a client for every building on its list.
EachBuildingRegistered ==
  \A k \in Conn, b \in Building :
    (conn[k] = "up" /\ \E i \in 1 .. Len(bids[k]) : bids[k][i] = b)
      ~> (conn[k] # "up" \/ pump[<<k, b>>] # "none" \/ ~Alive)
=============================================================================
