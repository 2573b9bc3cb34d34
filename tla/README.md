# CC-Group-Chat: verification

TLA+ modules, TLC models and TLAPS proofs for the group chat of this repository:
a broker daemon (`packages/broker`), one channel server per Claude Code session
(`packages/channel`) and what they share (`packages/shared`).

## The system

| Component | State | Operations | Talks to |
|---|---|---|---|
| `SenderRateLimiter` (rate-limiter.ts) | send times per member name | `tryRecord`, `forget` | called by Broker |
| `Room` (room.ts) | members, activity stamps, history, next id | `join`, `leave`, `speak`, `recordActivity`, `history`, `members` | called by Broker |
| `RoomManager` (room-manager.ts) | rooms by id, since when each is empty | `getOrCreate`, `get`, `recordMembershipChange`, `gc` | called by Broker |
| `Broker` (broker.ts) | connections, (room, name) -> connection, pending batches | `connect`, `disconnect`, `join`, `leave`, `speak`, `readHistory`, `listMembers`, `gc`, batch timers | the three above; calls a connection's `send` |
| mention parser (mentions.ts) | none | `parseMentions` | called by Room |
| dispatcher (dispatcher.ts) | none | `dispatch`: one request, one broker call, one response | WebSocket server, Broker |
| WebSocket server (ws-server.ts) | socket -> connection | `open`, `message`, `close` | dispatcher, Broker |
| daemon (daemon.ts) | process, port, state file | start, port race, shutdown | all of the broker, the file system |
| `RpcClient` (rpc-client.ts) | pending calls by id | `call`, `#onMessage` | WebSocket |
| broker client (broker-client.ts) | none kept | `connectToBroker`: probe, spawn once, poll, read the token | daemon, token file |
| channel server (server.ts, resolve-room.ts) | the room id, fixed at start | one tool per method, pushes to the agent | RpcClient, MCP |
| shared helpers (shared/src/daemon.ts) | token file, state file | read, write, `ensureAuthToken` | daemon, broker client |

The broker is one JavaScript thread, and none of its methods awaits. A method, or
a timer callback, is therefore atomic, and the concurrency lies in their order: the
requests of several sockets, timers that fire later than the message that armed
them, sockets that close at any moment, and a clock that moves in between. The
client side and start-up are concurrent in the usual way: promises, processes, files.

What has to be right, and is hard to test:

- **Delivery.** Who receives a message is decided when it is spoken, but it is
  handed over later, from a batch kept per connection, while members leave, rejoin
  and drop.
- **Isolation.** One routing table and one limiter serve all rooms, and names are
  unique only within a room.
- **Bookkeeping.** A membership is recorded in five places, which `join`, `leave`
  and `disconnect` update one after the other.
- **Retention.** A room must outlive its last member by the TTL, counted from when it
  last emptied, and then go; `sinceId` must stay a position across all of that.
- **Quota.** The sliding window must be exact in both directions at its boundaries.
- **Calls.** Requests are pipelined, answers share the socket with notifications, and
  the socket may close with any of them under way.
- **Start-up.** Any number of sessions may find no broker and spawn a daemon each; the
  daemons race for the token file and for the port, and may be stopped or killed at any
  point, while clients read the same files.
- **Mentions.** Whom a text addresses depends on backticks, fences and escapes that hide
  each other.

`PROJECT.json` lists each of these hazards at the line where it bites, with the
property that covers it or the reason none does.

## Modules

| Module | Models |
|---|---|
| `SlidingWindow` | the arithmetic of rate-limiter.ts on one list of times: pruning, the decision, recording |
| `SenderRateLimiter` | the limiter as a state machine of its own, as the broker contains it |
| `SteppedClock` | the limiter on a clock that may be set back |
| `Broker` | broker.ts together with Room, RoomManager and the limiter: the whole daemon core |
| `GroupChat` | abstract: rooms as logs, exclusive seats, and what is due to each session |
| `Delivery` | Broker with history variables: what each connection is owed, and has received; implements `GroupChat` |
| `Retention` | Broker with history variables: when rooms emptied, slots used, what pollers read; implements `SenderRateLimiter` |
| `Engagement` | Broker with a history variable: when each member last invoked a tool; whom `members()` lists as engaged |
| `Connection` | RpcClient, WebSocket server and dispatcher around Broker, with a socket per session |
| `EndToEnd` | Connection with a history variable: what each session is owed; implements `GroupChat` where the agents are |
| `Startup` | broker-client.ts, daemon.ts and the files of shared/src/daemon.ts: sessions, daemons, port, token, state file |
| `Mentions` | `parseMentions`, and a definition of what counts as a mention |
| `SlidingWindowProofs`, `SenderRateLimiterProofs` (with `SteppedClock`), `BrokerProofs`, `DeliveryProofs`, `RetentionProofs`, `ConnectionProofs`, `StartupProofs`, `MentionsProofs` | lemmas, theorems and proofs |
| `MCLimiter`, `MCDelivery`, `MCRetention`, `MCEngagement`, `MCConnection`, `MCStartup`, `MCMentions` | values for TLC, views, symmetry |

`Broker` has one variable per field of the code, named after it: `connections`,
`memberToHandle` and `pendingBatches` of `Broker`, `entries` and `lastEmptyAt` of
`RoomManager`, `members`, `lastActivityAt`, `history` and `nextId` of each `Room`,
`timestamps` of the limiter. `membership` is the (roomId, memberName) pair of a
connection's state, which the code always sets and clears together. There is one
action per public method, and one per outcome where a method has several: `Join` and
`JoinRefused`; `Speak`, `SpeakRoomFull` and `SpeakRateLimited`. `FlushBatch` is the
callback of a batch timer, `Gc` is `gc()`, `Tick` the clock. Each action contains all
the calls its method makes, those into rooms, registry and limiter included.
`MayJoin` stands for the channel server, which puts the room id it was started with
into every `join` (server.ts:160).

Abstractions of `Broker`:

- Text, descriptions and timestamps of messages are left out; nothing reads them
  back. A message is its id, its room and its author.
- A speaker's text appears only as the set of names `parseMentions` finds in it.
- Calls that fail before touching any state (unknown connection, not joined, already
  joined, bad token, malformed room id) are stuttering steps. The `NOT_MEMBER`
  exits need a seat whose room or roster entry is gone; `SeatsAgree` shows that there
  is none.
- The routing key `roomId:name` is the pair: neither pattern admits a colon.
- A timer fires at any time after it was armed, so no property depends on
  `pushBatchMs`. A closed connection is not opened again: `connect` makes a new
  symbol each time.
- `sent` forgets what was sent over a connection when it closes.

`Delivery`, `Retention` and `Engagement` add only history variables: every step of theirs is a
step of `Broker` with something written down beside it, so what they check is the
broker's behaviour. What a recipient is owed is computed from the connections'
own fields, not from the rosters and the routing table the code uses.

`GroupChat` says what a session may count on, without tables, batches, timers, quotas or
clocks: seats that nobody shares, one numbered log per room, and for every session the
messages due to it, of which a growing part has been handed over. `Delivery` maps its
state to it: `seat` is `membership`, `log` is `history`, what is due is what was received
followed by what is still queued. `EndToEnd` maps the whole system to it, clients and
sockets included: what is due is what an agent has heard followed by the rest of what its
session is owed, and what has been handed over is what it has heard. `Retention` in turn contains the limiter: where each
name is used in one room, its `timestamps`, and the slots of whoever sits under each
name, behave as `SenderRateLimiter` does.

`Connection` composes the broker with its clients. A socket is two queues, `uplink`
and `downlink`, which keep order; `pending` and `nextCallId` are RpcClient's fields.
`Serve` is the WebSocket server's message handler: it takes the next request,
performs the broker's action for it (`Execute`, one disjunct per method and outcome)
and puts what the broker pushed and the one response into the queues. `Wake` is a batch
timer, `CloseSeen` the close handler. A socket closes first for its client (`Close`) and
some time later for the broker, which in between may still serve requests it had
received; the rest is lost. A client may go on calling on a closed socket, whose `send`
discards data without an error, as WebSockets do. The end of the daemon is covered
as all sockets closing and nothing being served any more. `events` collects what the
notification handler of the channel server passes on to its agent. `PassTime` is the
broker's clock; nothing else about a client or a socket depends on time.

`SteppedClock` gives the limiter the clock it has in the daemon, `Date.now`, which an
administrator or a time service may set back at any moment. A `tryRecord` that is granted
reads it twice, for the pruning and for the stamp, and it may go on or be set back
in between. As long as it is never set back this contains `SenderRateLimiter`, whose
calls read a clock that only moves forward, once each; so do those of `Broker`.

`Startup` has one action per piece of code between two awaits, as another process may run
at each. A session is `connectToBroker` (`Open`, `Spawn`, `GiveUp`, `ReadClientToken`);
a daemon takes or makes a token (`ReadToken`, `TruncateToken`, `WriteToken`: `writeFile`
truncates first), binds the port or exits (`Bind`, `LosePort`), writes the state file
(`WriteStateFile`, one step because of the rename) and may be told to shut down
(`StopServer`, then `RemoveState`) or be killed at any point (`Kill`). What is assumed:

- A session spawns at most one daemon, so both go by one name, and a token by the
  daemon that made it; `randomBytes` repeats none.
- A daemon gets through its start well within the 5 seconds its client waits (`GiveUp`
  comes only when it has); no bound on time is modelled otherwise.
- A port that is given up may linger in TIME_WAIT, as the README warns.
- The token file may be left by a daemon of an earlier day. Its permissions, and the
  hashing that makes the port, are left out.

`Mentions` runs the loop of `parseMentions` one iteration per step. The definition it is
compared with knows no flags: a text falls into segments, each a fenced block, an inline
span, a mention or a character (an escape is a backslash after which the `@` has no white
space before it), and the mentions are the segments that are mentions. Where segments
start is the least set of positions that holds the first and, with each, the end of the
segment there.

## Runs

| Run | Instance | Shows |
|---|---|---|
| `limiter` | 2 senders, quota 2, window 1, clock 0..4, set back at most once | until it is set back, `BoundWhileSteady`: no window holds more than the quota, over the whole history, and `ExactWhileSteady`: a slot is granted exactly when one is free. Always `RefusalLeavesNoTrace`; `QuotaOutlivesSteps`: the send a quota after another comes only when the clock has shown more than a window past the first; `ShieldedStampsGo`: a window after the highest reading, lists are pruned to nothing |
| `delivery` | 3 connections, 2 names, 1 room, cap 2, clock 0..1, TTL 0 | `OwedDelivered`: received plus waiting is exactly what was owed, in order; `ImplementsChat` |
| `arrival` | 3 connections in 2 rooms, 2 names, cap 2 | `RoomsIsolated`; `EveryMessageArrives` under fair timers |
| `retention` | 3 connections, 2 names, 1 room, quota 2, window 1, cap 2, clock 0..2, TTL 1 | `SeatsAgree`, `HistoryNumbered`, `DeparturesAge`, `EvictedOnlyWhenStale`, `ReaderMissesNothing`, `SenderWithinQuota`, `QuotaIsOwn`, `ThrottledSpokeLately`: the last recorded activity of a throttled member is at most a limiter window old; `ImplementsLimiter` |
| `connection` | 2 sessions, 3 calls and 1, 2 names, quota 1, window 1, cap 2, clock 0..2 | `CallsAccounted`, `SeatAsTold`, `JoinAnsweredFirst`; `HeardInOrder`: an agent hears a message once, and messages in the order they were said; `SentIsHeard`: nothing is lost or made up between `send` and the agent; `AgentsChat`: the agents have the chat `GroupChat` describes; under fairness `AnsweredUnlessCut`, `AddressedWake`, `GoneLeaveRoom` |
| `startup` | 2 sessions, a token or none, 2 outages | `TokenSharedUnlessContended`, `RecordTrue`; under fairness `EverySessionConnects`, `DaemonsSettle` |
| `mentions` | all texts of up to 5 characters of 6 classes, longer ones of backticks and letters | `ScanExact`: found is exactly what is mentioned |
| `hanging_calls` | 1 session, 3 calls | violates `EveryCallReturns` |
| `empty_rooms` | `retention` | violates `EmptyRoomsAge` |
| `shared_name` | 3 connections, 2 projects, cap 4 | violates `SenderWithinQuota` |
| `idle_at_work` | 2 connections, quota 1, both windows 2, clock 0..4 | violates `ToolUsersEngaged` |
| `token_race` | as `startup` | violates `TokenAgrees` |

### The bounds

- *Three connections for two names*: somebody always competes for a taken name, a
  connection can be replaced by another under its name while a batch waits, and one
  room can hold a speaker and a recipient while a third comes and goes.
- *Quota 2, hard cap 2*: `rate_limited` and `ROOM_FULL` both occur, in either order,
  and two messages suffice for a batch, a page boundary and an order.
- *Clock 0..2, window 1, TTL 1*: a stamp is inside the window, on its edge and past
  it; a room is younger than, exactly at and beyond the TTL, and can be
  evicted, re-created and filled again. `limiter` runs to 4 so that a list is
  pruned, refilled and pruned again, and with one set-back every order of stamps
  occurs that a young one at the head can shield.
- *Calls*: three let a session join, speak and leave, or speak beyond its quota, with
  any number of the calls pipelined; the other session competes for the name, or listens.
  With a quota of one and a clock to 2, the second of two messages is refused, or it comes
  a window later and may still find the first in its batch.
- *Two sessions, two outages*: daemons race for token and port, a daemon starts while
  another shuts down or after it was killed, and a session connects to the daemon of the
  other. A third session makes 1.3 million states, too many for liveness; the proofs
  cover any number.
- *Five characters* hold an escape, an empty or open span, a mention with its white space
  before and its end after; three to seven backticks and letters before a mention
  hold open, closed and adjacent fences, and spans that run into them.
- *Engagement window = limiter window* in `idle_at_work`, the defaults' ratio (60 s both).
- `MaxTime`, `MaxCalls`, `MaxSets` and `MaxOutages` are the only caps in guards. Handles are used once each, so the number of
  connections is bounded by `Handles`; `HardCap` is the code's own bound on a room.

`delivery` leaves activity stamps out of TLC's view of a state, and `retention` the
push queues: no guard of a step that changes anything else reads them. (The
timers' own guard reads the queues, but firing changes nothing outside them.)
Connections are interchangeable in `delivery` and `retention`, and so are names; the runs
that check liveness use neither a view nor symmetry.
Deadlock is not checked in the runs of the broker, with or without clients: when all connections have closed
and the clock is at its bound nothing is left to do; the same goes for sessions that are connected or gave
up, and for a text that has been scanned. It is checked in `limiter`.

### Fairness

`arrival` assumes that an armed timer eventually fires (`TimersFire`): the event loop
of the daemon runs every `setTimeout` callback, and no handler blocks. Nothing is
assumed of clients: they may fall silent, leave or drop at any time.

`connection` assumes that both ends read what has arrived, that timers fire and that a
closed socket is eventually noticed by the broker (`LinkFairness`): event loops and
TCP see to that on one machine. No agent has to call anything and no socket has to close.

`startup` assumes that a process that can take its next step eventually does (`Progress`),
which the scheduler sees to. Nobody has to stop or kill a daemon, and a lingering port
need not be released: no liveness property relies on it.

### What the violations show

- `hanging_calls`: a call that is pending when the socket closes is never settled, and
  neither is one made afterwards, while the backlog has tool calls start to fail.

- `empty_rooms`: a room created by a `join` that is then refused has no
  `lastEmptyAt`, so no `gc` ever takes it. `DeparturesAge` is what does hold.
- `shared_name`: members of different projects with the same name share one limiter
  entry, and the departure of one forgets the sends of the other. Within one room
  `SenderWithinQuota` and `QuotaIsOwn` hold.
- `idle_at_work`: engagement is documented as the time since a member last invoked any
  tool (types.ts:15, BACKLOG.md:44), but a `speak` that the limiter refuses returns
  before `recordActivity`. With both windows at their default of 60 seconds, a member that
  used up its quota at once and keeps trying is listed as idle 60 seconds after its last
  granted send, also when it was refused a moment ago. `ThrottledSpokeLately` is what does
  hold: at the instant of a refusal the last recorded activity is at most a limiter
  window old, so only an engagement window longer than that excludes an idle member then,
  and nothing does afterwards.
- `token_race`: `ensureAuthToken` reads, and then writes, without excluding another daemon
  that does the same, and before the port decides which of them is to live. The daemon
  that wins the port may be the one whose token was overwritten; clients then present
  the other's. `TokenSharedUnlessContended` is what does hold: it takes two daemons
  in that window, nothing else (kills, truncated files, readers at any moment) is enough.

Two more oddities are left without a run. README.md:57 of the repository says that the
daemon garbage-collects a room seven days after its last member left, but `gc()` has no
caller outside the tests: rooms are kept until the daemon stops. No model is needed to
see that; `CallsGc` says whether the embedding program calls it, and what is shown of
eviction is about a program that does. The other can be met only by a client other than
the channel server: `leave` keeps the pending batch, and `#enqueuePush` appends to it whatever
room it was opened for (broker.ts:202-210), so a connection that changes its room before
the timer fires gets both rooms' messages under the id of the first.

## Proofs

For every value of the constants that satisfies the named assumptions
(`WindowAssumption`, `MaxTimeAssumption`, `BrokerAssumption`, `RetentionAssumption`,
`CallsAssumption`, `MaxSetsAssumption`, `StartupAssumption`, `MentionsAssumption`):

| Theorem | Property |
|---|---|
| `SenderRateLimiterProofs!SteppedTypeCorrect` | `TypeOK` of `SenderRateLimiter` |
| `SenderRateLimiterProofs!BoundAlwaysWhileSteady` | `BoundWhileSteady` |
| `SenderRateLimiterProofs!ExactAlwaysWhileSteady` | `ExactWhileSteady` |
| `SenderRateLimiterProofs!SteppedRefusalsLeaveNoTrace` | `RefusalLeavesNoTrace` |
| `SenderRateLimiterProofs!QuotaAlwaysOutlivesSteps` | `QuotaOutlivesSteps` |
| `SenderRateLimiterProofs!ShieldedStampsAlwaysGo` | `ShieldedStampsGo` |
| `SenderRateLimiterProofs!WindowBoundHolds` (and the same for the other three properties) | `WindowBound`, for `SenderRateLimiter!Spec` |
| `BrokerProofs!BrokerTypeCorrect` | `TypeOK` |
| `BrokerProofs!SeatsAlwaysAgree` | `SeatsAgree` |
| `BrokerProofs!HistoryAlwaysNumbered` | `HistoryNumbered` |
| `BrokerProofs!RoomsAlwaysIsolated` | `RoomsIsolated` |
| `DeliveryProofs!EverythingDelivered` | `OwedDelivered` |
| `DeliveryProofs!BrokerIsChat` | `ImplementsChat` |
| `RetentionProofs!DeparturesAlwaysAge` | `DeparturesAge` |
| `RetentionProofs!OnlyStaleRoomsGo` | `EvictedOnlyWhenStale` |
| `RetentionProofs!ReadersMissNothing` | `ReaderMissesNothing` |
| `RetentionProofs!BrokerLimits` (one project) | `ImplementsLimiter` |
| `RetentionProofs!SendersWithinQuota` (one project) | `SenderWithinQuota` |
| `RetentionProofs!QuotasAreOwn` (one project) | `QuotaIsOwn` |
| `RetentionProofs!ThrottledAlwaysSpokeLately` (one project) | `ThrottledSpokeLately` |
| `ConnectionProofs!LinkImplementsBroker` | `LinkSpec => Spec` of `Broker` |
| `ConnectionProofs!CallsAlwaysAccounted` | `CallsAccounted` |
| `ConnectionProofs!SeatAlwaysAsTold` | `SeatAsTold` |
| `ConnectionProofs!JoinAlwaysAnsweredFirst` | `JoinAnsweredFirst` |
| `ConnectionProofs!AgentsAlwaysIsolated` | `AgentsIsolated` (no run: it takes three sessions with sockets) |
| `ConnectionProofs!AlwaysHeardInOrder` | `HeardInOrder` |
| `ConnectionProofs!AlwaysSentIsHeard` | `SentIsHeard` |
| `ConnectionProofs!AgentsHaveChat` | `AgentsChat` |
| `StartupProofs!StartupTypeCorrect` | `TypeOK` of `Startup` |
| `StartupProofs!TokensAreShared` | `TokenSharedUnlessContended` |
| `StartupProofs!RecordsAreTrue` | `RecordTrue` |
| `MentionsProofs!MentionsTypeCorrect` | `TypeOK` of `Mentions` |
| `MentionsProofs!ScanIsExact` | `ScanExact` |

*The limiter.* `WindowBound` speaks of all sends ever granted, the code only of a
pruned list, so the inductive invariant connects them: the list is a tail of the
granted sends (`IsTail`), everything before that tail is older than the window,
both are in the order of time (`InOrder`), and sends a quota apart are more than a
window apart (`Spaced`). Because the list is sorted, stopping at the first young stamp
removes exactly the old ones (`PrunedIsSuffix`); `DecisionExact` and
`RefusalLeavesNoTrace` follow from that. It does not matter that a call reads the clock
twice, as long as the second reading is no earlier (`StampKeeps`).

*The limiter on a clock set back.* The same argument, with the order of the stamps gone:
`IsTail` now says that what left the list is older than the window by `peak`, the
highest reading so far, which only rises, and that no stamp exceeds it. Exactness is lost,
and rightly: a young stamp at the head shields old ones, so a sender may be refused
although its window is empty, until the clock has passed the head by a window. The two
theorems bound the damage on both sides.

*The broker.* `TypeOK` is inductive together with `Short`: a list never exceeds the
quota, so recording a send keeps it a sequence of times. `SeatsAgree` is
inductive by itself over well-formed states: `DUPLICATE_NAME` is what keeps `join` from
taking over a seat. `HistoryNumbered` needs nothing else. `RoomsIsolated` needs two
facts: a connection sits only in a room its client asked for (`SeatsAsked`), and the
routing table leads to connections that sit where it says (`SeatsAgree`).

*Delivery.* The broker finds recipients through rosters and the routing table, the
observer through the connections' own fields. `SeatsAgree` makes the two the same set,
so a step that pushes a message lengthens exactly the queues of those who are owed it;
`Accounted` (owed = received followed by queued) is then inductive with `QueuesLive`, that
only open connections have a batch. The refinement of `GroupChat` follows step by step:
refused requests, readers and ticks are stutters, and `gc` forgets rooms nobody sits in.
`pushBatchMs = 0` is a value of the constant `Batching`, so both theorems cover it.

*Retention.* `Aged` says that the broker's stamp is the observer's, which rests on a leaver
being alone exactly when the roster empties (`AloneIsEmpty`, from `SeatsAgree`).
`ReadersKeepUp` rests on ids being positions: a page starts right after the last id seen.
The theorems about quotas assume `OneProject`, that all clients ask for the same room:
`shared_name` shows that they fail without. Then a name has one holder, whose slots are
what the limiter granted, and `Limited` carries the limiter's invariant over. For
`ThrottledSpokeLately`, `ActiveSince` adds that a member's activity stamp is as late as each of its
slots; a refused sender has one within the window.

*Connection.* `LinkInductive` carries the types, that the socket's end and the broker's
agree (`SocketsAgree`), and what the two queues hold in terms of the calls that wait
(`CallsInv`): the ids in the queue towards the client, then those towards the broker,
rise, stay below `nextCallId` and belong to waiting calls, and on an open socket every
waiting call has one. That is `CallsAccounted`. It also shows that whatever a request
does at the broker is a step of `Broker` (`LinkImplementsBroker`), so the theorems
above hold behind sockets too, and the next ones rest on them:
`SeatsKnown` (the last answer under way that moves the client, or else what it was told,
says where it sits), `JoinsKnown` (whoever has a seat has been answered, or its
answer is ahead of every notification) and `StreamsInOrder`: what an agent has heard, followed by the
batches on the wire and the batch that waits at the broker, is one rising sequence of
ids of messages of its own room, all below the room's next id. The last one is inductive
because a client sits only in the room of its project, and that room's ids never start
again as long as nothing calls `gc()`, which no step of `Connection` does.
`AllSentHeard` compares the same stream with the history of `send`.

*End to end.* `GroupChat` knows no socket, so its `HandOver` has to be what an agent hears
and not what the broker sends. `OwedInv` says where a message is in between: what is owed
to a session starts with what its agent has heard; on an open socket the contents of each
item under way follow at consecutive places (`LaidAt` names the place of every item), and
last comes the batch that waits at the broker; a session that is not open is owed nothing.
It is stated with places because the concatenation of a queue of batches is a recursion
a proof could not use. It rests on `SeatsAgree`, by which the recipients the broker
finds are the sessions that are owed a message (`RightRecipients`, as for `Delivery`).
The refinement then maps `Serve` of a granted `join`, `leave` or `speak` to `TakeSeat`,
`GiveUpSeat` and `Say`, `Receive` of a batch to `HandOver`, `CloseSeen` to `Vanish`, and
every other step to a stutter: opening and closing a socket, calling, refusals, readers,
batch timers, answers and the clock. A client whose socket has closed hears nothing more,
which `GroupChat` allows: what is due need not be handed over.

*Start-up.* `PortHeld` (port and processes agree on who is bound) and `OneToken`: as long
as the token has not been contended, a daemon makes a token alone and while there is none,
and once there is one, the file and all who read or wrote it agree.

*Mentions.* `Segmented` says that the scan stands at a cut, or inside the block or
span its flag stands for; `FoundSoFar` that it has found what is mentioned before
that place. Least sets of cuts replace the recursion a proof could not use.

Only model-checked: liveness (`EveryMessageArrives`, `AnsweredUnlessCut`, `AddressedWake`,
`GoneLeaveRoom`, `EverySessionConnects`, `DaemonsSettle`), which is out of the prover's
reach. Every invariant and action property of a passing run, and every refinement, is proved, those about
quotas for one project, as the table says.

## Not modelled

- A clock that steps back, outside the limiter. What it does to engagement and to the age
  of an empty room is a wrong number until the clock catches up; nothing is kept
  in order of time there.
- Hashing of port and room ids, the permissions of files, environment variables and
  their defaults: no state, no interleaving.
- The schemas of the protocol, except that requests may fail them, and the wording of
  messages, tools, instructions and errors.
- MCP itself, WebSockets below their order and their closing, and a receiver so slow that
  a socket's buffer overflows.
- Build, bundles and packaging: `bin/` is generated from the packages.
