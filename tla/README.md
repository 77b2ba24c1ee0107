# Verification of apartment-backend

TLA+ models of the concurrent core of the apartment management API (Go, Fiber,
PostgreSQL, Redis), the TLC runs that check them on small instances, and
theorems about them that TLAPS proves for instances of any size. All paths
below are relative to the repository root (`src/`).

## 1. The system

One Go process serves HTTP requests, each in a goroutine of its own, and holds
WebSocket connections. All lasting state is in PostgreSQL at READ COMMITTED;
most handlers run several SQL statements, each in its own transaction, with Go
code deciding between them. The only shared memory is the WebSocket hub.

| Component | State | Operations | Interacts with | What is hard | What makes it correct |
|---|---|---|---|---|---|
| WebSocket hub (`internal/websocket/hub.go`, `internal/handlers/ws.go`) | two maps of clients, three Go channels, one channel per client, a read-write lock | `Run`, `Register`, `Unregister`, `BroadcastToBuilding`, `SendToUser`, `WritePump`, `ReadPump`, `Handle` | called by messaging; reads memberships | goroutines, lock hand-over during eviction, closing channels, full channels, stalled and lost peers, a pooled wrapper around each connection | no channel is misused, maps agree, at most once and to the addressee while his connection is up, senders return, dead clients leave |
| Accounts and tokens (`internal/services/auth_service.go`, `internal/repository/user_repo.go`) | `users`, `refresh_tokens` | `Register`, `Login`, `RefreshToken`, `Logout`, profile, password, role | membership creates accounts too | check-then-act between statements, partial failure, second-granular tokens | one account per e-mail, rotation, logout |
| Buildings, members, invitations (`internal/handlers/buildings.go`, `internal/repository/building_repo.go`, `managerOnly` in `cmd/server/main.go`) | `buildings`, `building_members`, `building_invitations`, `units` | `Create`, `InviteUser`, `AcceptInvitation`, `RemoveMember`, units, dashboard | every manager-only route; the hub's list of buildings | checks long before acts, partial failure and retry, upsert of roles | one manager, nobody in without a title, invitations work once |
| Timeline (`internal/repository/timeline_repo.go`) | posts, likes, comments, reposts, polls and their counters | `ToggleLike`, `Repost`, `Unrepost`, `CreateComment`, `VotePoll`, feeds | social graph for the feed | concurrent transactions, row locks, unique keys, reposts that are posts and take likes and comments with them | counters agree with rows, no circle of waits but one known kind |
| Messaging (`internal/repository/messaging_repo.go`, `internal/handlers/messaging.go`) | conversations, participants with `last_read_at`, messages | start, send, list, mark as read | calls `SendToUser` after the commit | duplicate conversations, timestamps taken before the commit | one conversation per pair, no unseen message counted as read |
| Social graph (`internal/repository/social_repo.go`) | `user_follows`, two counters per user | follow, unfollow, search | timeline feed | counters changed without looking at the rows affected, lock order | counters agree with rows |
| Forum (`internal/repository/forum_repo.go`, `internal/handlers/forum.go`, `internal/services/storage_service.go`) | posts, comments, votes, counters, categories, media; objects in the store | vote, comment, create, list, upload | connection pool, which all repositories share; object storage | two votes of one user, default category created twice, a query nested in another's rows, upload then insert | counters agree with rows, the pool is given back, media point to objects |
| Maintenance (`internal/handlers/maintenance.go`, `internal/repository/maintenance_repo.go`) | requests with a status and `resolved_at` | create, list, approve, reject, update, delete | `managerOnly` | status checked in one statement and set in another; role read in a third, for the building of the URL | nobody who manages nothing opens requests, unopened ones stay private, stamps tell the status |
| Reservations (`internal/handlers/reservation.go`, `internal/repository/reservation_repo.go`, `migrations/000007`) | areas, reservations | create, approve, reject, cancel | `managerOnly` | exclusion constraint over active rows, unconditional status updates | no double booking, no refusal without cause, approvals are some manager's |
| Visitors, packages (`visitor_repo.go`, `package_repo.go`) | a status and a time stamp each | check in and out, cancel; notify, pick up | - | unconditional updates out of order | stamps tell the status |
| Dues and expenses (`financial_repo.go`) | plans, payments, expenses | create, pay, report | units, for the foreign keys | upserted payments, a report from two statements | differences the report computes have a reason |
| Rate limiter (`internal/middleware/ratelimit.go`) | a Redis counter per client | `INCR`, `EXPIRE` | every request | two commands, Redis not answering or restarted, commands sent again | the limit, and the end of a refusal |
| Notifications (`notification_repo.go`) | notifications, preferences | list, mark, announce | - | nothing concurrent | - |
| Configuration, clients, logging, DTOs | none | - | - | - | - |

`BroadcastToBuilding` is part of the hub and modelled, although no handler calls
it at this commit; the README's `new_notification` event has no sender.

## 2. Modules

| Module | What it is |
|---|---|
| `Delivery` | what the hub promises: best-effort, at-most-once delivery to live connections of the addressee; what was meant for a connection that has ended may go astray |
| `Hub` | the hub and the goroutines around it; implements `Delivery` |
| `Sessions` | accounts and refresh tokens |
| `Membership` | buildings, members, invitations |
| `Timeline` | the counting transactions, their locks and cascades |
| `Messaging` | conversations, messages, unread counts |
| `Social` | follows and their two counters, with deadlocks |
| `Forum` | votes, comments, posts and media over the connection pool, and the timeline's feed, which uses the pool in the same way |
| `Booking` | what reservations promise: nothing is held twice, and no refusal without cause |
| `Reservations` | areas, reservations and the exclusion constraint; implements `Booking` |
| `People` | users, and nobody: what `Membership` and `Calls` share |
| `Calls` | calls to the API for one building, and `managerOnly` |
| `Desk` | maintenance requests, visitor passes, packages, on top of `Calls` |
| `Ledger` | units, dues plans, payments and the report, on top of `Calls` |
| `Services` | `Desk` and `Ledger` over the same calls and roles, and the dashboard that reads both |
| `RateLimit` | the rate limiter over a Redis that may restart and may not answer |
| `HubProofs`, `TimelineProofs`, `MessagingProofs`, `SocialProofs`, `ForumProofs`, `ReservationsProofs` | theorems about the module they are named after |
| `SessionsProofs` | theorems about `Sessions` and `RateLimit` |
| `BuildingProofs` | theorems about `Membership` and `Services` |
| `MC*` | constants, symmetry and bounds for TLC |

Operators called a *mutant* in their comment are defective variants of the
definition after them. Nothing refers to them; substituted for that definition
they make the property they are aimed at fail, which shows that the property
can fail.

### Hub

A step is the longest stretch of code in which a goroutine touches shared state
once: a hand-over on `register`, `unregister` or `broadcast`, a critical section
of `h.mu`, one non-blocking send, one call on a connection.

- `clients` and `buildings` are the two maps; an absent building and an empty
  inner map are not told apart, for the code treats them alike.
- `runAt`, `runClient`, `runCast`, `runTodo`: where `Run` is and its locals.
  `RecvRegister`/`AddClient`, `RecvUnregister`/`RemoveClient` and
  `RecvBroadcast`/`CastTo`/`Evict`/`CastDone` are its three cases. `Evict` is the
  `default` branch, where the read lock is given up, the write lock taken, the
  client deleted and its channel closed.
- `CanLock` is the write lock: only `Run` takes it and never holds it across
  steps, so it is free when no `SendToUser` is inside its read lock.
- `handler`, `bids`, `turn`: each `Handle` goroutine, its list and loop index;
  `ReadPump` runs inside it for the first building, as in the code.
- `wrap`, `inner`: `Client.Conn` is not the connection but the wrapper that
  `websocket.New` takes from a `sync.Pool`. `Open` takes a new one or one given back;
  the end of `Handle` (`NextTurn`) clears it and gives it back, while `WritePump`s still
  hold it. What a client's wrapper holds at a moment (`Inner`) is its own connection,
  another one or nothing. That package, `gofiber/contrib/websocket` v1.3.2, is not
  part of the repository; this is how that version behaves.
- `pump`, `hand`: each `WritePump`. `BeginPump` is its start, when `defer
  client.Conn.Close()` is bound to what the wrapper holds (`bound`); `CallWrite` calls
  `WriteMessage` on what it holds now (`aim`), `WriteOK` is its return. `WriteOK` has no
  fairness: the code sets no write deadline and a peer may stop reading for ever.
- A call on an empty wrapper, and two writes at a time on one connection (`Collide`),
  panic in a goroutine nobody recovers: `Alive` ends everything then. Both can happen
  in the code, so no property forbids them; liveness properties end with `~Alive`.
- `queue`, `closes`: contents of each `Client.Send` and how often it has been
  closed; `conn`: each connection; `PeerLost` is the network.
- `sender`, `todo`: each call of `SendToUser`, inside its read lock.
- `sent`, `cast`, `got`, `stray` are history variables, the visible ones of `Delivery`;
  `stray` is what a peer got through another connection's client.

Marshalling (which cannot fail for these types), logging and the parsing of the
token are left out. `json.Marshal` failures aside, each client is one connection
and one building, since `building_members` has one row per pair.

### Sessions

Each SQL statement is a step; `Fail` stops a request between any two (a failed
statement, a client that goes away, a crash of the server: no request has state
that outlives it except its rows). A token is the pair of user and second of
issue, because the JWT has nothing else in it: tokens of one second are equal.
`family` is a history field that ties a row to the login it descends from;
`raced` and `loggedOut` are history variables for the properties.

### Membership

The same style for `Create`, `InviteUser`, `AcceptInvitation` and `RemoveMember`,
each behind `managerOnly` where the route is. `MayAddMember` is the partial
unique index of `migrations/000004`, `AddMember` the upsert. `HasManager`'s error
is ignored by the code, so `CheckManager` may go on although there is a manager.

### Timeline

A transaction's effects are applied at its commit. What it holds locked follows
from how far it is: a like, repost or vote row (or its key) from the statement
that wrote it, the counter rows from the `UPDATE` on. Adding goes through the stages
check, write, count (for a vote, total) and commit, removing through write, delete
(for Unrepost, cascade), count and commit. `BeginDelete`/`Delete` separate what a
`DELETE` sees when it begins from what is left when it has waited for others;
`CommitDelete` is the re-check PostgreSQL does at READ COMMITTED. `hit` is the posts
whose rows a statement is after or has got.

A repost is a row of `timeline_posts` like any other, so it can be liked, commented
on and reposted. It is named by the request that made it (`Row` is `Post` and `Tx`);
its caller is its author and its subject its original. Unrepost's `DELETE` takes the
likes and comments of the repost with it and sets the original of its reposts to
`NULL` (`Cascade`, from the foreign keys of `migrations/000001` and `000003`), and
waits for whoever holds them; the foreign-key locks of inserted likes, comments and
reposts are in `SharesKey`. `WaitsFor` is all of this together. `doubled` records that
a user had two requests of one kind open on one subject.

Left out: replies (`parent_id` of a comment, which nothing counts), the media and polls
of reposts (`Repost` copies none), and the order in which one `DELETE` locks several
reposts, of which there is more than one only after a user has raced himself.

### Messaging

`StartConversation`, `SendMessage` and `MarkAsRead`. `now` is the begin time of
the latest transaction: PostgreSQL's `NOW()` does not move within one, so it is
what a message carries as `created_at` and what `last_read_at` becomes, both
visible only at the commit. A request is made once, so its name is the message it
sends. `Begin` notes what the transaction could see (`shown`); `marked` and
`passed` collect which of it the caller has marked as read or has passed by
replying, and `Unread` is the count of `GetConversations`. `raced` and `crossed`
record overlaps, for the properties that exclude them. Groups, deletion and names
are left out: nothing in the code creates a group or deletes a message.

### Social

As in `Timeline`, effects are applied at the commit and locks follow from `at`;
`WaitsFor` says whose lock the next statement needs. `LockOrder` is the order of
the two `UPDATE`s of `users`, caller first. `DeadlockAbort` is PostgreSQL's
detector, aborting somebody in a `Circle`. A follow that found its row there
already is one with `hit` 0.

### Forum

As in `Timeline` a transaction's effects are applied at its commit, and what it
has locked follows from `at`. New is the pool of `MaxConns` connections
(`DB_MAX_OPEN_CONNS`), one for all repositories (`cmd/server/main.go:54-65`):
`HoldsConn` says who keeps one between two steps - a transaction, and a read that
makes statements of its own while it ranges over its rows - and `NeedsConn` whose next
step has to borrow one. There are two such reads in the program, `GetPosts` of the
forum and `GetFeed` of the timeline (`timeline_repo.go:217,222`), which is therefore a
kind of request here (`ReadFollowed`, `QueryFeed`). Everything else any repository does
holds one connection at most and asks for none while it does, and so can delay the
requests of the model but not be waited for in a circle; `GetPollByPost`
(`timeline_repo.go:452`) makes its third statement when the rows of its second have
been read to the end, which gives their connection back, so that it nests only inside
`GetFeed`. The request's context has no deadline, so waiting for
a connection has no end of its own; `Fail` needs one too where its statement does.
A vote keeps the vote it has `found` and corrects both counters by it (`Delta`);
`WriteVote`/`LockVote` separate finding a row from having its lock. `general`
counts the default categories, `objects` and `media` are the two sides of an
upload. `shown` and `listed` are what `GetPostByID` reads in its first and fourth
statement. The forum starts empty or with the posts of `Existing`.

### Reservations

A request creates a reservation (area, then insert) or decides on one; the
reservation has the name of the request that created it. `Conflict` is the
exclusion constraint of `migrations/000007`: half-open ranges of one area, over
pending and approved rows. `UpdateStatus` is unconditional, as in
`reservation_repo.go`: a cancelled reservation may be approved again, if the
constraint lets it. Roles change at any time (`Promote`, `Demote`), so that
`ReadRole` may be out of date when the row is written; and `managerOnly` reads the role
in the building that the URL names, while the row is found by its id alone
(`cmd/server/main.go:145-150`, `reservation_repo.go:152-155`), so that `Promote` is about
a managing role in whatever building. A finished request forgets
what it was about, which keeps states few and hides nothing: no property looks at
it. `Booking` sees a reservation as a set of cells, an area at an instant, so an
empty range claims nothing and touching ranges share nothing by definition.

### Services: Calls, Desk, Ledger

`Calls` is what all of them share: how far a call is, who makes it, the roles and
`managerOnly`, which reads the role in a statement before the handler's own. It reads
the role in the building of the URL, while `maintenance.go:62-112,170-191` finds the
request by its id alone: users who manage another building (`Elsewhere`) may name that
one, and such a call is `away`. The repository's README has approval and update as a
manager's, under the building's URL; that the row is of that building nothing compares. A
call that writes ends there and marks as `stale` the open calls that have read
what it writes.

- `Desk`: a maintenance request goes from `pending_approval` to `open` or `closed`
  by `CheckPending` and `UpdateDecided`, two statements, and anywhere by
  `UpdateRequest`. Filing and listing choose by a role they read first
  (`ReadRoleToChoose`), where an error counts as "no manager". Passes and packages
  have single unconditional updates, which nobody guards. `stamp` is
  `resolved_at`, `checked_out_at` or `picked_up_at`; `COALESCE` keeps an older one,
  so only its being set is modelled.
- `Ledger`: payments are an upsert per plan and unit, plans and units take their
  payments with them (`ON DELETE CASCADE`). The report reads payments and then
  amounts, and its difference is all that is kept of it (`result`). A sum of amounts
  (`Total`) is the number of the units of money in them: a cardinality, about which
  the library has theorems, where a fold would need induction.
- `Services`: the dashboard's counts, one statement each; `VacantUnits` is a
  difference of two of them. A building is new or in use (units, plans for the
  period, residents' requests) in the beginning. Its names (`ServicesSpec`, `stage`)
  are not those of `Membership`, next to which `BuildingProofs` has it.

### RateLimit

The requests of one client (its names are not those of `Sessions`, next to which
`SessionsProofs` has it). `Incr` is an `INCR` that is answered: it decides and, when it
has created the key, sends the request to `Expire`; `LoseExpire` is the ignored error or
a server that dies between the two commands. `IncrUnanswered` is one that is not:
Redis may have executed it, may execute it later (`adrift`, `IncrArrives`) or never sees
it, and go-redis sends it again (`internal/db/redis.go` sets no `MaxRetries`) or gives up,
and the request passes (`AllowUncounted`, `ratelimit.go:23-26`). `Unheard` is such a
command in Redis: if it creates the key, the retry is answered 2 and nobody sends
`EXPIRE`. `RedisCrash` is a restart from an append-only file that
misses the last commands (`docker-compose.yml`). `count` stops at `Max + 1`, which
stands for every larger value: the code only compares.

## 3. Runs

| Run | Bounds | Question and answer |
|---|---|---|
| `hub` | two users with one connection each, lists of no or two buildings, one message, one broadcast, capacities 1 | channels never misused, the two indexes, refinement of `Delivery`: hold |
| `hub_live` | one connection, lists of 0, 1, 2 buildings, two messages, one broadcast: one more payload than pump and channel hold | a broken connection's first client leaves the hub, `SendToUser` returns: hold under fairness |
| `hub_each` | one connection, lists of 0, 1, 2 buildings | `ws.go:62`, "Register a client for each building": violated, see the finding in section 4 |
| `sessions` | one user, five requests, clock 0..2, lifetime 2 | one account, rotation and logout with their provisos: hold |
| `membership` | two people, one building, two invitations, five requests | one manager, titles, accepted means joined, office kept: hold |
| `timeline` | two users, one post with a repost that is liked, two polls with an option each, three transactions | counters with their proviso, no deadlock but the named one: hold |
| `messaging` | two users, room for two conversations, four requests | unread counts and one conversation per pair with their provisos, only stored messages pushed: hold |
| `social` | three users, four requests | counters differ from rows by the repeated follows, deadlocks from mutual follows only: hold |
| `forum` | a member and a stranger, one post there and one to come, three requests, two connections, feeds of at most two statements | tallies with their proviso, comments, media, what can exhaust the pool: hold |
| `reservations` | one user, one area, three instants, four requests | nothing held twice, approvals by a manager of some building, refinement of `Booking`: hold |
| `services` | two users, one a manager elsewhere, three calls, one request, pass, package and plan, two units, amount 1 | who opens and who sees requests, stamps, explained differences: hold |
| `ratelimit` | three requests at a time, limit 3, any number of lost answers and restarts | deadlines, the limit for answered requests, the end of a refusal (under fairness): hold |

Why the bounds are enough for what they are meant to show: with capacity 1 one
payload fills a channel and the second is dropped or evicts; two connections are
a victim and a bystander, and two connections are enough to give a wrapper back and
take it again; two buildings make a first and a late client, whose pump outlives the
connection. In `hub_live` one connection is enough to stall a pump and fill a channel;
a second one would only be another such pair, which no step of the first waits for. Two
refreshes and a login with a repeat in the same second need four requests, a
logout a fifth. Two invitations and five requests cover found, invite, accept
twice and remove. Three transactions are two rivals and a third party, or an unlike and an unrepost
of the repost there is and a third one in their circle. Four
requests start a conversation, send twice and mark, or send, mark and send. Four
follows and unfollows are a circle of three and a fourth party. Three requests over two
connections are a pool exhausted by two lists or feeds and a third in the way, or two votes that
race and a list. Four requests are two reservations of overlapping ranges, a
cancellation and an approval that would bring the first back; three instants make
ranges that overlap, touch, are empty or run backwards. Three calls are two
decisions on a request and a change of it, or a report and two writes it meets; two
units can pay one amount twice. Limit and requests of three let the key be created,
fill, refuse and be created anew while an old `EXPIRE` is still to come. The proof
modules remove the bounds from what they prove.

Fairness: in `Hub`, weak fairness of every goroutine's own steps, which the Go
scheduler gives (no step competes for ever: `Run` waits for finitely many readers
of the lock), except `WriteOK`, `PeerLost`, `Open` and the start of calls, which
the environment decides. A panic disables everything, as it does in the code. In
`RateLimit`, a request goes on to its `EXPIRE` or loses it, and
Redis removes keys whose time is over; neither restarts nor lost commands nor
answers are assumed away. The safety runs assume none; that transactions do not
wait for each other is stated without fairness, about the waits-for relation.

Deadlock checking is off everywhere because every model ends when its finite
supply of requests or messages is used up; waiting for one another is covered by
`SendToUserReturns`, `GoneIsUnregistered`, `OnlyUndercutsDeadlock`,
`OnlyMutualFollowsDeadlock` and `OnlyNestedReadsJam`.

Every type invariant is proved. The runs of `timeline`, `messaging`, `forum` and
`services` check theirs as well; those of the other modules do not.

## 4. Provisos

Some properties carry a proviso that the code needs. Without it the code violates
them, in these ways:

- `ImplementsDelivery` (`stray`): when `Handle` returns its wrapper goes back to a pool,
  and the pumps of its clients may still write through it: to nobody, which ends the
  server, or to whoever was given the wrapper next. What a peer gets in that way was
  meant for a connection that has ended.
- `NoChannelPanic` is about channels. The panics on an empty wrapper and on two writes
  at a time are in the model and in the code, and no property forbids them.
- `RotationWhenAlone` (not `raced`): two overlapping refreshes of one token both find
  it live and both succeed.
- `LogoutWhenUnique` (one row holds the token): two logins in one second give one
  token two rows, and logout revokes one.
- `AcceptedMeansJoined` says that the invitee has been added, not that he is there
  still, nor that he was added once: of two overlapping acceptances the later adds
  him after the invitation has been marked, even if he was removed in between.
- `CountsExactWhenSingle` (not `doubled`): two overlapping reposts by one user both
  pass the check "already reposted", and an unrepost then removes two rows and
  counts one; likewise two overlapping removals of a like count twice.
- `TallyWhenSingle` (not `doubled`): two overlapping votes of one user on one post
  correct the counters twice for the one old vote both have read.
- `ConversationWhenAlone` (not `raced`): two overlapping `StartConversation`s make
  two conversations, and later calls may return either.
- `UnreadWhenAlone` (not `crossed`): a message begun before the reader's
  `MarkAsRead` and committed after it is never counted; and a send that began before
  its sender's own `MarkAsRead` and commits after it sets `last_read_at` back, so
  that what he marked is unread again.
- `CountsDriftByRepeats` (`Repeats`): following somebody twice counts twice.
- `OnlyNestedReadsJam`: as many `GetPosts` and `GetFeed` calls at a time as the pool has
  connections each hold one and wait for one more, and nobody else gets one: the server
  stops.
- `OnlyUndercutsDeadlock` (`Undercuts`): an unlike that has deleted a user's like of a
  repost waits to update the repost's counter, while an unrepost that has deleted the
  repost waits in its cascade for that like; and the like cases of it with reposts of
  the repost. PostgreSQL ends one of the two, which `Fail` covers.
- `OpenedByManager`, `ApprovedByManager` (`Elsewhere`, a managing role in whatever
  building): whoever manages one building can open and decide on the requests and
  reservations of all others, since the row's building is not compared with the URL's.
- `OfficeKept`: a manager who accepts an older invitation as resident gives up the
  building, and nobody else has to be manager then.
- `StampsTell` (`reopened`): a request rejected and approved by overlapping decisions,
  or reopened by a manager, is open and keeps `resolved_at`. It says nothing of a
  package notified after it was picked up or a pass checked in after it was cancelled,
  which the code permits.
- `DifferencesExplained` (`overpaid`, `stale`): `TotalPending` counts a plan's amount
  once, so two units that pay it in full make it negative; so do payments and plans
  written between the report's statements, and units for the dashboard. Amounts that
  are not positive, which the code accepts, are left out: they are no new way to a
  negative difference but for an amount that is negative itself.
- `DeadlineComing`, `RefusalEnds` (`lost`): an `EXPIRE` that comes to nothing, or an `INCR`
  that made the key and was answered to nobody (its retry is answered 2), leaves a key
  that counts for ever and refuses its client for good.
- `WithinLimit` (`crashed`, and `passed` counts answered requests): requests that pass
  while Redis does not answer are not limited.

One comment of the code is contradicted by a run, `hub_each`: `Handle` says "Register a
client for each building" of a loop (`internal/handlers/ws.go:62`) that stays in `ReadPump`
for the first building until the connection ends. The clients of the others are
registered when it is closed, serve no live peer and are never unregistered; they stay
in the hub until a broadcast finds their channel full.

## 5. Proofs

`HubProofs` proves for any finite or infinite sets of connections, users,
buildings and messages, any lists of distinct buildings and any channel
capacities (`HubAssumption`):

| Theorem | Statement |
|---|---|
| `Inductive` | `Spec => []IInv` |
| `TypeCorrect` | `Spec => []TypeOK` |
| `PanicFree` | `Spec => []NoChannelPanic` |
| `IndexesCorrect` | `Spec => []IndexesAgree` |
| `HubImplementsDelivery` | `Spec => ImplementsDelivery` |

`NoChannelPanic` is not inductive: nothing in it says that a client about to be
registered has an open channel that nobody has seen. The inductive invariant adds

- `LoopOK`: the loop index of `Handle` is inside its list where it is used, and
  the buildings of the list are distinct;
- `AllBorn`: every registered client, every client whose channel has been closed
  and the client `Run` holds was handed to `Run` by an earlier turn, or the
  current one, of its handler's loop. So the client of a turn that has yet to
  register has left no trace, and a client enters the hub once;
- `Iterating`: what `SendToUser` or the broadcast loop has still to visit is in
  `h.clients`, since removing a client needs the lock they hold (or is done by the
  broadcast loop itself);
- `OpenChannels`: a client in `h.clients`, or about to be put there, has an open
  channel, and none has been closed twice;
- `IndexesAgree` itself, and `Holding` for the types: a pump that writes has a
  message in hand;
- `Wired`: from the upgrade to its end a `Handle` has a wrapper to itself with its
  connection in it, and nothing but opened connections is in a wrapper.

Each conjunct has a step lemma with one case per action it can be disturbed by.

For `HubImplementsDelivery` the invariant `DInv` adds where each payload is:

- `Carried`: what is in a client's channel or in its pump's hand is there once, is
  addressed to the client's connection, and the peer does not have it yet;
- `MessagesNew`, `CastsNew`, `CastGoing`: a message that has not been sent is nowhere,
  and neither it nor a broadcast has reached a client that a sender or `Run` has still
  to visit, or, for a broadcast, any client while it waits in `h.broadcast`;
- `NotBegun`: a handler that has not begun has neither a connection nor a list;
- `Late`: a connection whose `Handle` is past its first turn has been closed;
- `Astray`: a write is under way on a connection that is not the client's own only when
  the client's own connection is closed.

`Flow` says that a step moves one payload one stage on its way. What makes delivery
at most once is `OneBorn`: while a connection is up only its first client was ever
handed to the hub, so when the peer receives a payload no other client carries a
second copy to it. `StepDelivery` maps the steps: `Open` is `Connect` (a stutter for
an empty list), `PeerLost`, `CloseConn` and `EndPump` are `Disconnect`, a `WriteOK`
on a live connection is `Deliver` if it is the client's own and `GoAstray` if it is
another (`WriteDelivers`), `StartSend` and `BroadcastToBuilding` are `Send`
and `Broadcast`, and all others stutter.

`SocialProofs` proves about `Social`, for any sets of users and requests:

| Theorem | Statement |
|---|---|
| `TypeCorrect` | `Spec => []TypeOK` |
| `DriftsByRepeats` | `Spec => []CountsDriftByRepeats` |
| `MutualFollowsOnly` | `Spec => []OnlyMutualFollowsDeadlock` |

For the first, `TypeOK` is strengthened by `Typed`: the caller and target of an
open request are users, since a commit adds their pair to the table. That the
counters are off by the repeated follows and nothing else needs to know that the row
a commit adds or removes is not, or is, there at that moment. `Exclusive` says that
of the requests that have written the row of one pair only one has not ended (the
unique key and the row lock), and `Claim` what each knows of its row because of that;
`Finite` lets the rows be counted. The last theorem needs no invariant at all: a
transaction that others in the circle wait for must have updated its first row of
`users`, for whoever has only its row of `user_follows` can keep waiting only those
who hold nothing themselves (`CircleIsBetweenUpdates`); then what one wants second is
what the next took first.

`TimelineProofs` proves about `Timeline`, for any sets of users, posts, polls and
transactions (`TimelineAssumption`: an option belongs to a poll, posts, polls and reposts
have names of their own, and what there is in the beginning is finite and has no
repost twice):

| Theorem | Statement |
|---|---|
| `Invariance` | `Spec => []IInv` |
| `TypeCorrect` | `Spec => []TypeOK` |
| `CountsExact` | `Spec => []CountsExactWhenSingle` |
| `VotesCounted` | `Spec => []VotesExact` |
| `OtherwiseDeadlockFree` | `Spec => []OnlyUndercutsDeadlock` |

`Typed` and `Rooted` say who and what a request is about, and that nothing is about a
repost that has not been made. The counters change at the commit, the check that
allowed it may be three statements old. The invariant carries the check along:
`Exclusive` (two rivals have not written the same row) and `Claims` (what a transaction
has seen of the rows is still so, but for likes that have gone with their post) hold
whatever happens; `Alone` (the check itself still holds, so a like that was found is
deleted by its own request and counted once) and `OnceEach` (no user has two reposts of
a post) only as long as no user had two requests of one kind open on one subject.
`VotesExact` needs no such proviso because `Claims` is enough for a vote: the unique key
makes the second wait and fail. Each commit then adds or takes one row from a finite set
(`Counted`) and one from its counter (`OneMore`, `OneLess`), or takes the whole post.

For `OtherwiseDeadlockFree` the stages write and delete, cascade, count, total, commit are
a lock order: apart from an `Undercuts` a transaction waits only for one at a later stage
(`WaitsForLaterStage`), so in a set of transactions without one, whoever is furthest on
waits for none of them. It uses `Claims`, for instance that a cascade is an unrepost's.

`MessagingProofs` proves about `Messaging`, for any sets of users, conversations and
requests and a clock without bound (`MessagingAssumption`):

| Theorem | Statement |
|---|---|
| `TypeCorrect` | `Spec => []TypeOK` |
| `StoredBeforePushed` | `Spec => []PushedAreStored` |
| `UnreadRight` | `Spec => []UnreadWhenAlone` |
| `OneConversation` | `Spec => []ConversationWhenAlone` |

`Known` says what a request knows of its conversation: the caller is a participant,
and what it is about to push is stored. `UnreadWhenAlone` is about a count; behind it
is a statement about each message, `Right`: its `created_at` is later than the
reader's `last_read_at` exactly if he has not marked or passed it. That is not
inductive, since both times were taken when a transaction began and take effect when
it commits. `Lone` supplies what is missing for a conversation without overlaps: at
most one transaction on it is in flight, that one has seen every message there is,
and its begin time is later than every time in the conversation. For
`ConversationWhenAlone` the lookups of `StartConversation` matter: `OnlyOne` says that
the request about to create the conversation of a pair is alone in that, and that
there is none.

`SessionsProofs` proves about `Sessions`, for any numbers of users and requests and
any lifetime (`SessionsAssumption`):

| Theorem | Statement |
|---|---|
| `TypeCorrect` | `Spec => []TypeOK` |
| `OneAccount` | `Spec => []OneAccountPerEmail` |
| `LogoutHolds` | `Spec => []LogoutWhenUnique` |
| `RotationHolds` | `Spec => []RotationWhenAlone` |

The invariant adds `Lineage` (the family of a row is a row of the same user),
`Prepared` (what a request knows of the row it holds) and, for rotation, `Alone`: in
a family there is one *claim* - a row that is live, or that a refresh has found live
and is about to revoke - or one *heir*, a refresh that has revoked its row and not
yet issued. `RotationWhenAlone` itself is not inductive: a row that is being
refreshed while a logout revokes it is neither live nor has it an heir, and yet one
is coming. `DeadWhenUnique` says `LogoutWhenUnique` without counting.

It proves about `RateLimit`, for any limit and number of requests
(`RateLimitAssumption`), `LimiterTypeCorrect` (`[]LimiterTypeOK`), `DeadlinesCome`
(`[]DeadlineComing`) and `LimitKept` (`[]WithinLimit`), all from `LimiterSpec`; the
invariant adds `PassedAreCounted`: unless Redis has lost commands, no more requests have
passed by its answers than were counted. `UnheardKeeps` is the argument for an `INCR`
that nobody hears of.

`BuildingProofs` proves about `Membership`, for any people, buildings, invitations
and requests (`MembershipAssumption`):

| Theorem | Statement |
|---|---|
| `TypeCorrect` | `Spec => []TypeOK` |
| `OneManager` | `Spec => []SingleManager` |
| `TitleHeld` | `Spec => []MembersHaveTitle` |
| `AcceptedHasJoined` | `Spec => []AcceptedMeansJoined` |
| `OfficeKeeps` | `Spec => OfficeKept` |

The invariant adds `Prepared` (what a request has established before its next
statement: its terms, the invitation they come from, the account), `Founded` (a
building that is not there has no founder) and `AtMostOne`, which is `SingleManager`
without counting. `Monotone` says what only accumulates, `RoleChange` in which three
ways a role changes; titles follow from the two.

It proves about `Services`, for any users, calls, requests, passes and packages, any
finite sets of plans and units and any amounts (`CallsAssumption`, `DeskAssumption`,
`LedgerAssumption`: three disjoint tables, and `NULL` is no value of a column):

| Theorem | Statement |
|---|---|
| `ServicesTypeCorrect` | `ServicesSpec => []ServicesTypeOK` |
| `OpenedOnlyByManagers` | `ServicesSpec => []OpenedByManager` |
| `StampsHold` | `ServicesSpec => []StampsTell` |
| `NobodyPeeks` | `ServicesSpec => []NoPeeking` |
| `DifferencesHaveReasons` | `ServicesSpec => []DifferencesExplained` |

The desk's invariant `DeskInv` joins its three properties, which lean on each other (a
request that is shown because it is not pending has been opened by somebody), with
`Granted` (what a call has established before its next statement: a manager's role,
now or earlier, behind `managerOnly`, and the status it chose by it), `Fresh` (a
decision that is not stale decides on a request that is still pending), `Answered` and
`Blank`. `WriteKeeps` is the argument for every write of one row, `QuietKeeps` for
every other step.

The ledger's invariant `LedgerInv` adds `Current` (what a report or a dashboard has
read in its first statement is so still, unless the call is stale), `Covered` (unless
it is remembered as overpaid, no plan of the period was paid more than its amount) and
`Claims`, which ties statements to kinds of calls. `CoveredSums` is the step from each plan
to the sum over the period: if each plan is paid at most its amount, the units paid for
it can be mapped into its amount one to one, and all these maps together map what is
paid into what is due.

`ForumProofs` proves about `Forum`, for any set of posts, any number
of users and requests and any number of connections (`ForumAssumption`: these numbers,
and the posts there are in the beginning, are finite; a list counts the posts left):

| Theorem | Statement |
|---|---|
| `TypeCorrect` | `Spec => []TypeOK` |
| `TallyExact` | `Spec => []TallyWhenSingle` |
| `CommentsListed` | `Spec => []CommentsShown` |
| `MediaStored` | `Spec => []MediaAreStored` |
| `NestedReadsAloneJam` | `Spec => []OnlyNestedReadsJam` |

`Typed` says at which statements each kind of request can be (`Fits`) and what it has
in hand there. The tallies are corrected by the vote a request has read before its
transaction: `Unrivalled` says that without two votes of a user on one post it is
still his vote, so the correction fits. `Shown` follows the counter that `GetPostByID`
reads first up to the comments it lists last, none of which can vanish. `Stored`
orders object and row of an upload: the object is there before its row and a request
that has ended well has left both. For `OnlyNestedReadsJam`: if everybody is stuck,
nobody is inside a transaction (`NobodyInTransaction`), for whoever is furthest on in one
waits for no row and needs no further connection; so only lists and feeds hold any.

`ReservationsProofs` proves about `Reservations`, for any users, areas, requests and
horizon (`ReservationsAssumption`):

| Theorem | Statement |
|---|---|
| `TypeCorrect` | `Spec => []TypeOK` |
| `NothingHeldTwice` | `Spec => []NoOverlap` |
| `ApprovalIsManagers` | `Spec => []ApprovedByManager` |
| `ReservationsImplementBooking` | `Spec => ImplementsBooking` |

The invariant adds `Underway` (a request about to insert has no row yet, one about to
update has its target) and `NoConflict`, the constraint over the rows there are;
`OverlapIsShared` connects it to cells: ranges overlap exactly if they share an
instant. For approvals `Sources` says where a status about to be written comes from.
For the refinement each action is mapped to a step of `Booking` or a stutter, under
the same invariant.

What stays with TLC is liveness: `GoneIsUnregistered`, `SendToUserReturns` and
`RefusalEnds`, which hold under fairness and are beyond the prover. Every invariant,
action property and refinement that a run checks is also proved. Sums and tallies are
written as cardinalities of sets of rows throughout, because what a recursive sum is
for every input would need induction over data.

## 6. Not modelled, and why

- Reads that decide nothing: the feeds, plain lists, pagination, search, profiles,
  `GetCategories`. A list is modelled where a property is about it (`GetRequests`,
  `GetPosts`, `GetPostByID`, the report, the dashboard, the unread count).
- Single statements on rows that no other code reads or races with: profile,
  password, preferences, vendors, expenses, notifications, creating timeline posts
  and polls, and media rows other than the forum's.
- Announcements: one `INSERT ... SELECT`. Their route is guarded by `RoleRequired`,
  which reads the role of the account from the access token (`cmd/server/main.go:212`)
  and not that of the member in the building, as `managerOnly` does: somebody who
  created a building cannot announce in it. `Membership` has no such role to compare.
- Residents and vehicles have tables and no code that writes them; `CreateCategory`,
  `AddPhoto` and `GetBuildingUserFCMTokens` are called by nothing.
- `PendingDues` of the dashboard counts payments in status `pending`; the only writer
  stores `paid`, so it is always 0.
- The expiry of presigned URLs: `forum_media` stores a link that is good for seven days.
- The uniqueness of units by block and number, which `NULL` blocks escape.
- A unit that a maintenance request refers to cannot be deleted: covered by `Fail`.
- Formatting and validation of requests, logging, configuration, database clients and
  the object store's client: start-up code and pure input and output.

## 7. What could come next

1. A composition of `Messaging` with `Delivery` in place of the hub: a message is
   in the database, or pushed, or both, and what that means to a client.
2. Proofs about that composition, and the parts of the hub's liveness argument that
   are invariants: what `Run` still has to do once a client's connection is gone.
