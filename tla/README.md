# efir in TLA+

A TLA+ development of [efir](../src/README.md), a chat system of small Go
services: a gateway, four gRPC services over PostgreSQL (auth, user, room,
message), a WebSocket connector, and NATS JetStream and Valkey between them.
TLC checks the modules on small instances; TLAPS proves what is stated as a
theorem, for every value of the constants.

## Inventory

| component | state | operations | meets | what is hard |
| --- | --- | --- | --- | --- |
| **hub** (`websocket/internal/hub`) | maps `rooms`, `userIDs`, `connRooms`; five buffered channels | `Register`, `Unregister`, `Disconnect`, `BroadcastToRoom`, `GetRoomUserCount`, the goroutine `Run` | pumps and subscriber put requests on its channels; it calls `Send` and `Close` of connections | `select` reorders requests of one caller across channels; two indexes updated apart; blocked callers; slow connections |
| **connections** (`websocket/internal/handler`) | per connection: outbound channel, shared context, socket | `HandleWS`, `readPump`, `writePump`, `pingPump`, `Send`, `closeOutbound` | hub channels, gateway tickets in Valkey | three goroutines end one another; a send races a close; a full buffer |
| **event subscriber** (`websocket/internal/subscriber`) | three durable consumers | `Start`, one handler per subject, drain | JetStream, the hub's broadcast channel, the process around it | an event is acknowledged before it is broadcast; redelivery; late streams; stop and crash |
| **WS tickets** (`gateway/internal/handler/wsauth`, `validateTicket` in ws.go, nginx) | ticket keys in Valkey | create, validate (GETDEL), upgrade | client, nginx, gateway, connector | a one-time ticket with two consumers |
| **gateway sessions** (`gateway/internal/handler/auth`, `middleware/jwt.go`) | two cookies in each browser | register, login, refresh, logout; whom a request is served as | browsers, the auth service | answers of several tabs in any order, or none; cookies against tokens |
| **rate limits** (`gateway/internal/middleware`, `auth/internal/ratelimit`) | counters with expiry in Valkey | the script, `Allow` | Valkey | bursts across two windows; fails open in one, closed in the other |
| **auth** (`auth/internal`) | accounts, sessions, refresh tokens | register, login, logout, refresh, validate | PostgreSQL, Valkey, JetStream `auth.user.registered` | partial failure between account, tokens and event; token rotation |
| **user** (`user/internal`) | profiles | create from event, get, update | JetStream redelivery, PostgreSQL | duplicate deliveries; check-then-insert races on a unique name |
| **room** (`room/internal`) | rooms, memberships | create, update, delete, add, remove, list, check | PostgreSQL, JetStream `room.*` | check-then-act on roles and members; best-effort events |
| **message** (`message/internal`) | messages, reply links | send, list by cursor, get, delete | room service over gRPC, PostgreSQL, JetStream `message.created` | membership checked in another service; cursors over a changing table |
| **processes** (six `cmd/main.go`, `shared/pkg/nats.go`) | opened connections, servers, `errCh`, consumers, streams | start, provision, wait for streams, serve, stop | each other, through the streams | start order; a server that fails while another serves; shutdown against requests and events |
| **gateway's other routes, shared libraries, sidecar, deployment** | none | decode, encode, configure | all of the above | no behaviour over time |

What must be right, component by component:

- **hub**: the two indexes agree, a connection is in a room at most once, the
  maps keep nothing of what has left, every request takes effect in one step
  and touches no other connection, a caller that waits gets its answer.
- **connections**: order, no silent loss, no event twice, only a connection that is
  behind is given up, and all three pumps end when the socket does.
- **event subscriber**: an event is acknowledged only once it is out of the
  handler's hands, clients see the stream but for redeliveries, and the
  connector catches up after every restart.
- **gateway sessions**: the cookies of a browser belong together and to one
  user, a refresh token in a browser still works, a logout ends the session.
- **rate limits**: a bound on what any stretch of time admits, no refusal
  without cause, nobody locked out.
- **room**: exactly one owner, direct rooms keep their two members, one direct
  room per pair, changes and only changes are announced, retries are safe.
- **message**: only members write, only the sender deletes, a message is deleted
  once, replies stay in the room, paging misses nothing and repeats nothing.
- **auth**: one registration of an address wins, a refresh token is used once, a
  session that was logged out stays out.
- **user**: one profile per user, under a unique name, never written over; an
  event is not forgotten.
- **processes**: a server that serves has what its handlers need, on the way up
  and on the way down; handlers of events have it until `run` returns; whoever is told to stop does; waiting for each other's
  streams is no circle.

`PROJECT.json` lists every component, and under `hazards` what in this code is
hard to reach with a test, each at its line with the property that covers it.

## Modules

| module | models | run |
| --- | --- | --- |
| `RoomSubscriptions` | what the hub promises: a set of pairs (connection, room) | (abstract) |
| `Hub` | `hub.go`: maps, channels, `Run` | `hub` |
| `WsConnector` | `ws.go` around `H == INSTANCE Hub` | `pumps`, `ghost_subscription`, `unbuffered` |
| `EventDelivery` | `events.go` over `H == INSTANCE Hub`, in a process that starts, stops and crashes | `delivery` |
| `WsTicket` | ticket, nginx, gateway and connector | `ticket` |
| `RoomService` | the room service | `room` |
| `MessageService` | the message service's writes and checks | `message` |
| `MessageHistory` | `GetMessages` page by page | (in `reading`) |
| `AuthService` | the auth service | (in `gateway`) |
| `Gateway` | the session routes and the cookies; `EXTENDS AuthService` | `gateway` |
| `UserService` | the user service and its JetStream consumer | `user` |
| `RateLimit` | one counter of either rate limiter, and an observer | (in `reading`) |
| `ServiceProcess` | `run` of the six `main.go` from launch to exit | `processes` |
| `HubProofs`, `RoomProofs`, `MessageProofs`, `UserProofs` | theorems about the module of the name | |
| `WsProofs` | theorems about `WsConnector`, over those of `HubProofs` | |
| `EventProofs` | theorems about `EventDelivery` and `ServiceProcess` | |
| `AccountProofs` | theorems about `AuthService`, `Gateway` and `RateLimit` | |
| `HistoryProofs` | theorems about `MessageHistory` | |

`MC*.tla` and `*.cfg` are the instances TLC checks. `MCReading` has two of them,
`MessageHistory` and `RateLimit`: a client's reading passes the limiter and then the
pages, which share no state, so that a behaviour of the instance is one of either
(`part`) and no interleavings of the two are counted. In every module a variable
stands for a map, table, channel or the progress of a goroutine or call, under
its name in the code where it has one. An action is one step between two points
where another goroutine, call or service can get in:

- **Hub.** One action per exported method (the send on a channel; it is disabled
  while the channel is full, which is how the caller blocks) and one per case of
  the `select` in `Run`. A Go map is a function on the keys it holds: `Lookup`,
  `Store` and `Delete` are reading a missing key, assigning and `delete`.
  `addConn`, `removeConn` and `disconnectAll` are functions of the three maps.
- **WsConnector.** `reader`, `writer`, `pinger` are the positions of the three
  goroutines of a connection; `WriterParks` tells a pump that waits in its
  receive from one that is elsewhere, since only the former takes an envelope
  when the buffer is full or absent. `HubRequests`, `HubBroadcasts` and
  `HubStops` are the hub's own actions; `HubBroadcasts` calls a connection's `Send` once per
  entry it has in the slices of the room (`Entries`), as `sendToRoom` does; `Free` is how
  many of them it takes, the buffer and a `writePump` that waits. The socket is external: `up[c]`. The histories `offered` and
  `delivered` have what a connection was meant to get and got, events and the
  replies that `Send` took.
- **EventDelivery.** `Start` provisions one consumer after the other and then
  consumes; a handler takes an event (`Take`), puts it on the hub's channel
  (`HandOver`, which waits while that is full) and acknowledges it (`Ack`, or
  `Term` of what does not unmarshal). `delivery[e]` is the server's record of an
  event; `End` empties the memory of the process and leaves the server's.
  JetStream is external. `feed` is what clients are sent, `lost` what was on the
  channel of a process that ended.
- **RoomService, MessageService, AuthService.** `call[k]` is a gRPC call; `at` is
  its next query, remote call or publish. A query may fail, and a write may
  take effect and its answer be lost. A handler's guards are the branches of
  the query's action, in the order of the code; the handler's mapping of errors
  to status codes is in the `reply`. CreateRoom's serializable transaction is
  one step. Calls of `RoomService` and `MessageService` are reused after their
  answer, those of `AuthService` are not. What a call of `MessageService` has
  learnt, and the proofs and properties need, is its history `seen`.
- **Gateway.** A request is a call of `AuthService` and `from[k]`, the browser
  that waits for it; an answer that comes sets or clears the cookies (`jar`), one
  that does not come (`NotAnswered`) leaves them. Every tab of a browser may
  send at any time. An access token is its user.
- **UserService.** `worker[w]` is one consumer at work on one delivery,
  `delivery[u]` the consumer's record in JetStream: deliver, `AckWait`, ack, nak
  and `MaxDeliver`. The auth service is its environment (`Registered`).
- **MessageHistory.** An insert has two ends, the moment `created_at` is taken
  and the moment the row can be seen; the reader is a client that follows
  `next_cursor` to the end.
- **RateLimit.** The script is one step, since Valkey runs it so; a tick is the
  resolution of the key's expiry. The observer may begin to watch, and begin
  anew, at any moment, so that what holds for it holds for every stretch of time.
- **ServiceProcess.** `proc[s]` is the process of a service: what is left of its
  start, whose `Close` is deferred, its servers and the goroutines that report on
  `errCh`, its consumers of events, its handlers at work, of requests and of events. The
  stop of a server ends the former; a consumer goes on until it is drained (`Drained`, a
  goroutine that wakes up on a signal only) or the connection to NATS is closed
  (`Delivering`). `TakeError` and `TakeSignal` are the two cases of
  the `select`; `GracefulStop`, `Stop`, `Shutdown`, `Close` and `ExitProcess` the way out; `provisioned`
  has the streams that exist.

`WsConnector` and `EventDelivery` contain the hub by `INSTANCE`: the first has the
connections and no stream, the second the streams and no connection, and they
meet in `BroadcastToRoom`. `Hub` refines `RoomSubscriptions`. `Gateway` contains
the auth service by `EXTENDS`, and implements it (proved): the properties of
`AuthService` hold of what the gateway makes of it. `AuthService` and
`UserService` meet in the stream AUTH: `OneRegistrationWins` (`stream \subseteq
accounts`) is what the first promises about it, `Registered` all that the second
assumes. `ServiceProcess` has the streams as things that exist or do not, which is
what `Provision` in `EventDelivery` assumes of their owners.

## Runs

| run | shows |
| --- | --- |
| `hub` | Two connections of one user, two rooms, channels of capacity one: the indexes agree (`ReverseIndexAgrees`), nothing is left over (`NoLeftovers`), the hub refines a set of subscriptions (`ImplementsSubscriptions`), `Run` never waits for a caller of `GetRoomUserCount` (`OneAnswerPerCall`), which returns while `Run` lives (`CountsAnswered`). |
| `pumps` | One connection, three pumps, the hub, a buffer of one: `NoSilentLoss`, `DeliveredInOrder` (with slice entries counted, so that a doubled subscription would double an event), `EndWakesOthers`, `PumpsStop`. |
| `delivery` | Three events of two subjects through late streams, lost acknowledgements, redelivery and a restart: `AckedIsHandedOver`, `FeedFollowsStream`, `CatchesUp`. |
| `room` | Two concurrent and retried calls: `OneOwner`, `DirectRoomFixed`, `OneDirectRoomPerPair`, `EveryChangeTold`, `AddRetrySafe`. |
| `message` | Two concurrent calls while membership changes: `Authorised`, `DeletedOnce`, `RepliesFit`, `FailuresMasked`. |
| `reading` | Paging against inserts and deletions: `NothingMissed`, `PagesFit`, `ReadingEnds`; and a limit of three in a window of four ticks, with failures of Valkey: `BurstBounded`, `RefusedOnlyBusy`, `WindowEnds`. |
| `gateway` | Two browsers and two users, three overlapping calls: `OneRegistrationWins` and `SessionsDoNotFork` of the auth service, `CookieIsGood`, `CookiesAgree` and `LogoutEnds` of the cookies over it. |
| `user` | Redelivery, slow and crashing workers, name collisions: `ProfilesKept`, `EventBecomesProfile`. |
| `processes` | The services that share streams, with two failures and one signal: `ServersSound` (handlers of requests), `EventsFindConnections` (handlers of events), `StopsOnSignal`, `AllServe`. |

Three runs end in a violation: the code does what a document says it does not.

| run | property | disagreement |
| --- | --- | --- |
| `ghost_subscription` | `EndedLeavesRooms` | `select` may serve a `Disconnect` before the `Register` the same connection sent first; `addConn` then registers a connection that has ended, and nothing removes it. |
| `ticket` | `ValidTicketConnects` | Gateway and connector both consume the one-time ticket: behind nginx the connector answers 401 to all. |
| `unbuffered` | `SlowOnlyWhenBehind` | `write_buffer` is missing from the shipped configuration (`internal/config/config.yaml:27`) and has no default, so outbound has capacity 0: a broadcast that finds `writePump` anywhere but in its receive closes the connection as slow, with nothing left to write. ADR-013:76 closes slow clients, when "the buffer is full". |

### Bounds, and why they are enough

Every bound is a constant; none stands in a guard without a name.

- **Channels of capacity 1** make them full, and their senders block, at once; a
  larger capacity adds no order of service, since `select` already reorders
  across channels. `WriteBuffer = 1` has a buffer that is empty, or full;
  `unbuffered` has the shipped configuration's 0.
- **Hub.** Two connections of one user and two rooms are what the nested maps and
  the reverse index tell apart at the least; two users in a room differ from two
  connections of one only in the outer map, and `HubProofs` has the invariants
  and the refinement for any number of either.
- **WsConnector.** One connection: pumps of different connections meet only in
  the hub, and `Hub` has that part. Three events let one be written, one
  buffered and one refused; one client message lets a subscription follow the
  initial one. The run `ghost_subscription` needs no event, `unbuffered` one
  event and no message.
- **EventDelivery.** Two events of one subject and one of another give order in a
  subject, a consumer that runs beside it, and a channel that is full; two
  deliveries are a first and a repeated one, and the last; one end of the process
  has a life before and one after. The consumers that no event uses still have
  to be provisioned.
- **RoomService.** Two users are a direct room; two rooms let two calls create
  the same one; two calls race. `RoomProofs` has the invariants for all.
- **MessageService.** Two messages (a reply and its target), two rooms (a target
  elsewhere), two calls (a race), two attempts (one that fails, one that works;
  the code has three). One user: a second makes the instance too large to
  finish, and with one the guard that compares the sender with the caller is always
  true; `MessageProofs` has `Authorised`, and the other three, for any number.
- **MessageHistory.** Four messages and limits 1 and 2 give pages that are full,
  short, and mixed; two clock values give equal and different times.
- **Gateway, AuthService.** A session needs a login, and two refreshes or a
  refresh and a logout, to race: three calls, and at most one token of each.
  Two browsers and two users let a browser change its user and a user be in two
  browsers. Users, calls, tokens and browsers are symmetric; the run has no
  liveness.
- **UserService.** Two users and two names make a name collide at the check and
  at the insert; two workers hold one event, or one each; with three
  deliveries an event fails, is redelivered and settles late; two attempts at a
  name succeed and run out (the code has three attempts, five deliveries).
- **RateLimit.** A limit of three and a window of four ticks fit requests before,
  at and after the turn of a window; counters stop at `MaxCount`, past twice
  the limit, where no property tells them apart.
- **ServiceProcess.** Services that share no stream do not meet, so that three
  deployments stand for the whole system. Two failures are those of both servers
  of one process, the most its `errCh` has to hold, or of two processes; one
  request is at work or not, one event likewise; one signal. More handlers differ in
  their number only, and `EventProofs` has any.

### Deadlock

All configurations have `CHECK_DEADLOCK FALSE`: these are services that may
idle. Nobody is obliged to call, calls and identifiers run out under the bounds,
and after `RunStop` the callers of the hub block for ever by design of the
code. What must go on is stated as liveness instead: `CountsAnswered`,
`PumpsStop`, `CatchesUp`, `ReadingEnds`, `EventBecomesProfile`, `WindowEnds`,
`StopsOnSignal`, `AllServe`.

### Fairness

- `Hub`, `WsConnector`: weak fairness of each case of `Run`'s `select`. Go picks
  a ready case at random, so a case that stays ready is served with
  probability one. Of each goroutine, since the scheduler preempts; a
  write ends because it has a deadline. No fairness for clients, for new calls
  or for `RunStop`.
- `EventDelivery`: the owners of the streams provision them some time (`AllServe`
  of `ServiceProcess` is why), JetStream delivers what it may and takes back
  what is not acknowledged within `AckWait`, and the goroutines of the
  connector that can run do. Nobody is obliged to publish, to start or to end
  the process; `CatchesUp` therefore speaks of a process that stays up in the
  end.
- `ServiceProcess`: `run`, its timers (`Stop` after `GRPCGraceful`) and the
  goroutines that report. None for launches, requests, events and their ends,
  drains, failures and signals: `StopsOnSignal` holds although handlers may never
  return. It says that not for ever some process is told to stop and goes on: signals
  come to an end, so the last of those that were told is down some time.
- `MessageHistory`: the client goes on reading. None for senders.
- `UserService`: JetStream delivers what is pending to an idle consumer and
  takes back what is not acknowledged within `AckWait`; a handler that runs goes
  on, or crashes. None for failures, crashes, registrations and updates.
- `RateLimit`: time passes.
- The other specifications have safety properties only, and no fairness.

### Not promised

- After `Run` has returned, nobody reads the hub's channels. Pumps and handlers of
  the subscriber that send there block once they are full, and the deferred
  close of a socket, which comes after `Disconnect`, does not happen. It is the
  end of the process; `CountsAnswered`, `PumpsStop` and `CatchesUp` promise
  nothing then.
- What is on the hub's channel when the process ends is lost: `AckedIsHandedOver`
  and `CatchesUp` name it (`lost`), while ADR-013:140 says "JetStream consumers
  ensure no events lost during service restarts".
- A process whose gRPC server is told to stop because the other server failed
  waits for its handlers without a limit (`room/cmd/main.go:146` and its
  likes), and for a signal no longer: `StopsOnSignal` leaves that place out.
- Nothing waits for the handlers of events, the consumer in the user service
  (`user/cmd/main.go:117`) and the three in the connector. After a server error
  (`user/cmd/main.go:149-151`) or a failed start (lines 123-130) the deferred
  `nc.Close` and `pgPool.Close` run with the context not cancelled and the consumer not
  drained; after a signal `Drain` is called by a goroutine that `run` does not wait for
  (`user/internal/nats/subscriber.go:51-54`, `websocket/internal/subscriber/events.go:89-94`).
  A handler that is at work then meets a closed connection or pool: its acknowledgement
  or query fails, and the event is delivered again to the next process (`EventDelivery`
  and `UserService` have that). `ServersSound` therefore speaks of handlers of requests, and
  `EventsFindConnections` says what is left for those of events: all is open when they
  begin, and until `run` has returned.
- A browser that was not answered, or was answered with a failure, may keep a token
  the auth service has forgotten; `CookieIsGood` speaks of the others.
- While Valkey fails, the gateway admits every request; `BurstBounded` is about
  the rest, and about the auth service always.
- A room event whose publish fails after the write is lost by design (ADR-011);
  `EveryChangeTold` excludes exactly it.
- `CreateRoom`'s serializable transaction is one step of `RoomService`, so that
  `OneDirectRoomPerPair` rests on that isolation level and does not check it.

## Theorems

Each proof module states what it proves under the named assumption of the module
it is about, for arbitrary constants otherwise. An invariant is seldom inductive
alone; `IInv` is what makes it so.

`HubProofs` (`HubAssumption`: finitely many connections, each of one user, and
channels of positive capacity): `HubTypes`, `HubReverseIndex`, `HubOneEntry`,
`HubNoLeftovers`, `HubAnswers`, and `HubImplements`: the hub implements `RoomSubscriptions`.
`IInv` adds to the agreement of the indexes that the domains of `userIDs` and
`connRooms` are equal, that no empty room, user or connection entry is kept
(`RoomMaps`, `ReverseMaps`), that requests on the channels carry the user of their
connection (`ChannelsOK`: `disconnectAll` finds a connection under `userIDs[c]`,
so a wrong user there would leave it in its room), and the types of what the slow
connections and the callers keep (`CallersOK`). The lemmas go up from slices
(`CutRange`: what `removeConn` cuts out of a slice) over one user's entry
(`StripUserMembers`, `StoreUserMembers`) and one room (`StripRecipients`,
`StoreRecipients`) to the three map functions (`AddConnIndex`, `RemoveConnIndex`,
`DisconnectAllIndex`), each stating the index after it and the set of
subscriptions it leaves; the refinement follows from the second half. `HubAnswers` needs
`AnswersOK` besides: a call has at most one request on `roomCount`, and until that is
served its reply channel is empty. The model's `RunRoomCount` sends without a look at
the capacity of that channel; the theorem says that this is right.

`WsProofs` (`ConnectorAssumption`; any connections, rooms, events and client messages):
`WsTypes`, `WsNoSilentLoss`, `WsInOrder`, `WsEndWakesOthers`, and
`WsImplementsHub`: every step of the connector is a step of its hub or leaves it
alone, so that the hub's `IInv` holds in the connector and its theorems are cited,
not proved again. One of them is that a connection has at most one entry in a room:
with it a broadcast offers an event once to each recipient, although the code sends
per entry (`EntriesOfOne`, `HubBroadcastsOnce`). What a connection misses is decided where the hub's subscriptions
and its three goroutines meet, so `WsInv` has both sides: a broadcast on the hub's
channel is later than all before it (`QueueOrder`), what a connection was written,
holds and has queued is in that order and earlier than what is still on the channel,
until its `writePump` gives up (`SentOrder`), and a connection that has not come is
unknown to the hub (`NewOK`). How a connection ends is an invariant of each connection
alone (`Wakes`): from the first failure on its socket is gone, each pump cancels before
it ends, and `readPump` also closes `outbound`, which is all that `writePump`'s range sees.

`EventProofs`, first part (`DeliveryAssumption`: every event has a subject and a room,
channels and deliveries are positive): `DeliveryTypeOK`, `DeliveryAcked`,
`DeliveryFeed`. An acknowledgement is not always the last that is heard of an event:
after `AckWait` a second copy may be in an inbox while the first is being
acknowledged. `IInv` therefore says of a handler, not of an event, what it is
about to do: whoever is at its `Ack` holds an event that is out of its hands
(`AcksHandedOver`), whoever is at its `Term` one that is unreadable
(`TermsUnreadable`), and neither is undone by `Run`, which moves an event from the
channel to the clients, or by `End`, which moves it to `lost`. For `FeedFollowsStream`
the invariant follows the copies of an event from the inbox of its consumer to the
feed (`LinesOK`): there are no more than deliveries were counted, and a copy out of
turn is of an event that was delivered again.

`EventProofs`, second part (`ProcessAssumption`; any deployments and bounds):
`ProcessTypes`; `ProcessServersSound`, which is that no handler of a request meets a closed
connection unless `run` has given up waiting, that no goroutine blocks on `errCh`, and
that whoever serves or handles an event has its streams; and `ProcessEventsFindConnections`.
The invariant (`ServiceOK`) is one of each process:
how far its start is tells what is open and what is provisioned (`Starting`, from
`StartFits`, a case analysis of the six programs); on every way down its server was told
to stop first; and the errors in `errCh` with those the goroutines still owe are never
more than its capacity (`Owed`). For the handlers of events (`EventsOK`) it is the order
of things that counts: consumers start when all connections are open, and of what they
use the connection to NATS is opened last and so closed first (`NatsIsLast`), whereafter
nothing is delivered. The processes touch one another only by streams, which
never go away, so one lemma (`ProcessMoves`) lifts a step of one to all.

`RoomProofs` (`RoomAssumption`; any users, rooms and calls): `RoomTypes`, `RoomOwner`,
`RoomDirectFixed`, `RoomOnePerPair`, `RoomChangesTold`, `RoomAddRetry`. Here `IInv` is `Tables` (rows belong to rooms
that exist, one row per member, the creator is the only owner, a direct room has
two members and no twin) and `CallsOK`: what a call has read and still relies on
when it writes. The read is stale by then; the proof shows what makes it safe: a
row of type `direct` stays so (`RoomsMove`), identifiers are not reused, and the
owner never changes, so a target that was not the owner when it was read is not
the owner when it is deleted. The last two are about the whole life of a call, and
`HistoryOK` follows it: until its write it has changed and told nothing, after it
it has one thing left to tell (`ToldOK`); and an `AddMember` that took effect met a
group, which is one still when it is tried again (`RetryOK`).

`MessageProofs` (`MessageAssumption`; any users, rooms, messages, calls and
attempts): `MessageTypes`, `MessageAuthorised`, `MessageDeletedOnce`,
`MessageRepliesFit`, `MessageFailuresMasked`. Membership may change between the
answer of the room service and the write, so the theorem cannot speak of members:
it says *was* a member, and so does what a call relies on (`CallsOK`). *Was*, unlike
*is*, is not undone by a step (`RowsMove`: room, sender and target of a row stay, and
a deleted message stays deleted).

`HistoryProofs` (`HistoryAssumption`; any messages, limits and bound on time): `HistoryTypes`,
`HistoryNothingMissed`, `HistoryPagesFit`, `HistoryCallsBounded`. The query is treated first: messages are
numbered by how many come after them (`Rank`, `Ranks`), so that `LIMIT` takes a set
of the right size with nothing left behind after it (`NewestIs`), and the row more than
a page tells whether there is another (`PageOf`). `HInv` then says where a reader stands
between two calls: its cursor is the earliest message it was shown, what was there when
it began and is yet to be seen is earlier (`OnTheWay`), and rows once seen keep their
`created_at` (`RowsMove`, `KnownKept`). That a client makes at most one call more than it
is shown messages follows from the pages' being full and disjoint (`Progress`).

`AccountProofs`, sessions (`AuthAssumption`; any users, refresh tokens and calls): `AuthTypes`,
`AuthOneRegistration`, `AuthSessions`, `AuthLoggedOut`. They hold each other up: a
session that was logged out stays out because the only call that could store a
token for it would have to hold it (`Rotating(s)`), and nobody can while its token
is stored (`SessionsDoNotFork`). `IInv` adds that a stored token keeps its user and
session for ever (`SessionsOK`), and what a call has of its earlier queries
(`CallOK`): the one that rotates a session holds the session's user, a registration
past the account has its account. `TokenEnds` and `TokenBegins` have the two ways a
token changes, `CallMoves` all steps that touch none.

`AccountProofs`, browsers (`AuthAssumption`, `GatewayAssumption`): `GatewayImplementsAuth`, every
behaviour of the gateway is one of the auth service, so that
`GatewayOneRegistration` and `GatewaySessions` follow from the above; and
`GatewayTypes`, `GatewayCookiesAgree`, `GatewayCookieIsGood` and `GatewayLogoutEnds`. For
`GatewayCookiesAgree`
`GatewayInv` adds to the auth service's `IInv`, of every browser that its two cookies
fit each other (`JarsOK`), and of every call that the token it has issued belongs to
the user it answers for (`CallsFit`): the answers of several tabs may come in any
order, but each sets both cookies, and a token does not change its user. The other two
need the life of a refresh token from the call that stored it, before whose answer
nobody can present it (`OnItsWay`), to the one browser that holds it (`OneHolder`) and
the calls of that browser that present it (`HolderAsked`, `HeldIsGood`); and that the end
of a session is for good (`DeadStays`, `AloneOK`, `EndedOK`). That is `BrowserInv`.

`UserProofs` (`UserAssumption`; any users, names and workers): `UserTypes`,
`UserProfilesKept`. The check of a name before the insert plays no part in the proof:
what a worker read may be stale, and the constraints of the table check again in the
insert. `IInv` is that names differ (`NamesDiffer`) and that a worker at the insert
has drawn a name (`WorkersOK`).

`AccountProofs`, limits (`RateLimitAssumption`; any limit and window): `RateLimitTypeOK`,
`RateLimitBurstBounded`, `RateLimitRefusedOnlyBusy`. `LimiterInv` relates the key to the
observer: how old a key can be that was made before or since the watch began
(`KeyAge`), that a key made since has counted all it asked (`AllSeen`), and how many
were admitted in each of the two windows that a watch of one window's length can
meet (`Admissions`); the second begins only when the first has ended, hence
`2 * Requests - 1`.

Every safety property that a passing run checks is stated by a theorem, for every value
of the constants. The type invariants of `EventDelivery` and `WsConnector`, which also say
what channels hold, are checked as well; those of the other modules are proved only.
Checked by TLC only are the eight that are about liveness, which need
fairness and `ENABLED` (`CountsAnswered`, `PumpsStop`, `CatchesUp`, `ReadingEnds`,
`EventBecomesProfile`, `WindowEnds`, `StopsOnSignal`, `AllServe`), and the three that
are violated; `WsTicket` has no proof for that reason. What three of the eight rest on
besides fairness is proved: `OneAnswerPerCall` for `CountsAnswered` (an answer is never
withheld by a full channel), `EndWakesOthers` for `PumpsStop` (no pump waits for one
that has ended), `HistoryCallsBounded` for `ReadingEnds` (reading makes finitely many
calls). No module declares a recursive
operator; statements by induction over data are avoided (`Hub`'s slices are treated by
ranges and positions, the pages of a history by numbers of later messages).

## Other disagreements seen

Met while reading; each is behaviour of a module unless marked (not modelled).

WebSocket connector: a `Register` of a client's `subscribe` can also be served after
its later `unsubscribe`. The read deadline of 35 s is per read and
pongs do not reset it, so an idle client is closed in spite of its pongs (not
modelled: a deadline is `SocketFails`). A member removed from a room keeps the
subscription: `room.membership.changed` is broadcast to the room and changes
nothing in the hub. The payloads the connector expects differ from those the services
publish: `action` and `recipient_ids` against `joined`, `name` against
`updated_by`, `sender_id` and `type` against `user_id` and `content` (not
modelled). Nobody consumes `room.created` and `room.deleted`. A bad `room_id` burns
the ticket.

Room: `ErrInvalidDirectRoom` and `ErrDirectRoomImmutable` become `INTERNAL`, not the
codes of `docs/overview.md:55`. `GetRoomMembers` can answer an empty list for a room
deleted after its check, which the comment at `room.go:336` rules out. `room.deleted` is
published before a `DELETE` that may fail (`docs/architecture.md:58`). A `RemoveMember`
whose answer was lost fails when it is repeated (`room.go:306`), while ADR-011:115
calls it idempotent. `AddMember` does not check the requester again:
one who is removed after the check still adds.

Message: `DeleteMessage` of a non-member answers `INTERNAL` (`handler/message.go:308`),
not the `PERMISSION_DENIED` of `docs/overview.md:71`, and so does the second of two. A
reply can meet a target that is deleted between check and insert (ADR-012:48).
`GetMessageById` returns deleted messages (`overview.md:61`, ADR-012:76);
`GetMessages` never does, although `docs/api.md:536` shows `is_deleted`.
`ErrInvalidCursor` becomes `INTERNAL` (ADR-012:78). `created_at` is when the `INSERT`
starts, so a message can appear behind a page that was read already. The delays of
retries are 1, 2 and 5 s in the configuration, 100, 300 and 900 ms in ADR-012:62
(not modelled).

Auth, gateway and user: a `Register` that fails at the refresh token (`auth.go:124`)
leaves an account without event and profile, and its retry answers
`ALREADY_EXISTS`; a publish that fails leaves the account without profile (a TODO in
the code). A refresh that fails after it took the old token ends the session. A
logout that comes while a refresh holds the token ends nothing, although
`docs/api.md:129` promises to "Invalidate the current session", and if the refresh is
answered last the browser is signed in again; `LogoutEnds` is about the others. An
unknown token is `UNAUTHENTICATED`, not the `NOT_FOUND` of `docs/api.md:118`.
ADR-010:47-61 describes `ON CONFLICT DO NOTHING`; the code checks and inserts, and a
race is a unique violation, a nak and a redelivery.

Processes and limits: `/ready` is documented to check PostgreSQL or Valkey
(`auth/docs/overview.md:72`), but is a flag that is set once the servers start. The gateway's
README speaks of an IP rate limiter (line 46); the gateway has one per user only.

## Not modelled

Contents, names of rooms, times (except the order of messages), avatars, payload
formats, logging, metrics, configuration, cryptography and passwords. The gateway's
room, user and message routes decode a request, make one gRPC call and encode its
answer; they keep nothing, and what they call is in the services' modules. Of the
JWT middleware there is only whom a request is served as. `AuthService` has the
answers of its rate limit, `RateLimit` what they rest on. gRPC and nginx time
limits appear as failures. Reads of one query that change nothing are left
out (`GetRoom`, `IsMember`, `GetUser`, ...). The shared libraries are conversions and
word lists, the sidecar is a placeholder, the deployment is configuration; the
constraints of the schemas are part of the queries.

## Plan

1. Done: `RoomSubscriptions`, `Hub`, `WsConnector`; `EventDelivery`; `WsTicket`;
   `RoomService`; `MessageService`, `MessageHistory`; `AuthService`, `Gateway`;
   `UserService`; `RateLimit`; `ServiceProcess`; the eight proof modules.
2. Done: theorems for every safety property of the passing runs.
3. Left: the writes of the connector's hub as seen by `EventDelivery` (its `feed` is
   what `WsConnector` publishes; both contain the hub, and a composition would say that
   an event acknowledged to JetStream reaches each subscriber that is not slow); the
   safety half of the other liveness properties, as it is proved for `CountsAnswered`,
   `PumpsStop` and `ReadingEnds`.
