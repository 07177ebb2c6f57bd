# Comrux.Plan chat service: TLA+ models, checks and proofs

The repository is the chat service of Comrux: a FastAPI/FastStream process that
keeps live chat rooms in memory, the messages sent in them in Redis, and their
durable history, the chats and the memberships in PostgreSQL. Paths below are
relative to the repository's `src/` directory.

## 1. The system

| Component | State | Operations | Talks to |
|---|---|---|---|
| `ChatRoomSaver` (`application/services/chat_room_saver.py`) | one `asyncio.Lock` per chat, kept weakly | `save_if_dirty` | registry, room, Redis (through the room), durable gateway |
| `LiveChatRoom` (`infrastructure/chat_session/room.py`) | `_dirty`, `_connections`, `_connection_owners`, a lock | `serve` (`_join`, receive loop, `_leave`), `_handle_command`, `disconnect_actor`, `pending_messages`, `mark_persisted`, `mark_clean` | Redis, the sockets of its peers, the event publisher |
| `InMemoryChatRoomRegistry`, `LiveChatRoomFactory` | chat -> room | `get`, `register`, `remove`, `get_all`; `create` | - |
| `RedisChatRuntimeStore` | pending order list, payload hash, presence set per chat | append, list, delete, clear, add/remove member | Redis |
| Durable message gateway (`adapters/gateways/message.py`, lower class) | `messages` table | `add_many` in a transaction of its own | PostgreSQL |
| Event publisher and listeners (`events.py`, `chat_room_lifecycle.py`, `chat_room_presence.py`) | list of listeners | client joined / left, room modified | registry, saver, policies, Redis |
| Save policies (`save_policies/`) | debounce: last modification and watcher task per chat; periodic: a loop and a semaphore | modified, closed, start, stop | saver, registry |
| WebSocket session (`presentation/ws`, `handlers/chat_session.py`, `join_chat_room.py`, `require_chat_access.py`, `serve_chat_connection.py`) | one coroutine per socket | authenticate, check access, find room, send history, serve | all of the above |
| Compositions and use cases (`application/compositions`, `application/usecases`) | none; one `UnitOfWork` per request | create actor, chat, project chat; add, remove member; system messages; history | PostgreSQL, saver, rooms |
| Kafka subscribers (`infrastructure/subscribers`) | none | user / project / member / task events | compositions |
| History (`get_chat_history.py`, `handlers/chat_history.py`, `cursor.py`) | none; an encrypted cursor at the client | a page of history | PostgreSQL, Redis |
| Database pool (`setup/db_helper.py`, `providers/database_provider.py`) | the pooled connections | check out, give back | sessions, requests, the durable gateway |

A message's life: a session appends it to Redis (`append_pending_message`),
sets the room dirty, broadcasts it, and tells the policies. One of four
callers later runs `save_if_dirty` for the chat: the debounce watcher, the
periodic sweep, the closing of the room after its last client, or the removal
of a member. The save reads Redis, inserts into PostgreSQL, deletes from
Redis and marks the room clean, with an await at each point, under one lock
per chat. Closing a room then deletes the chat's Redis keys and unregisters the
room.

All of it runs on one asyncio loop: code between two awaits is atomic, and at
each await any other coroutine may run. What is hard here is what happens at
these awaits: flags and lookups used after them, four callers of the same
save, tasks cancelled in the middle, requests that fail before or after they
took effect, a process that dies while two stores disagree, sockets that die
while a room is broadcasting. The list, line by line, is under `hazards` in
PROJECT.json.

What would make each part correct: the saver stores every accepted message
once and loses none; the policies never forget a modification and never stop;
a room has one instance that all sessions of the chat share; leaving always
ends, and takes the actor off the presence list; a removed member is
disconnected and kept out; a context has one chat and a member one row in it,
and the chat is told of each change once; who is in a room sees all that is
said in it, from the history or as an event; the pages of the history add up to
all of it; connections, permits and locks come back and whoever waits for one
stops waiting; identifiers increase.

## 2. Modules

| Module | Models | Uses |
|---|---|---|
| `MessageDurability` | the promise of persistence: held, orphaned, stored, lost messages | - |
| `ChatRoomSaver` | `save_if_dirty`, Redis, the table, and everything other code does to them | - |
| `SavePolicies` | debounce and periodic, and stopping them | EXTENDS `ChatRoomSaver` |
| `ChatSession` | WebSocket sessions, rooms, lifecycle and presence listeners, removal of a member | EXTENDS `SavePolicies` |
| `ChatRoomSaver_proofs` | the saver's invariants and the refinement, proved | EXTENDS `ChatRoomSaver` |
| `SavePolicies_proofs` | the policies' invariants, and that they implement the saver's specification, proved | EXTENDS `SavePolicies`, `ChatRoomSaver_proofs` |
| `ChatSession_proofs` | the same for the composition of everything live, proved | EXTENDS `ChatSession`, `SavePolicies_proofs` |
| `MembershipLedger` | the promise of the membership requests: each is one step or none | - |
| `ChatMembership` | creation of actors and chats, addition and removal of members, as READ COMMITTED transactions | INSTANCE `MembershipLedger` |
| `ChatMembership_proofs` | its invariants and the refinement, proved | EXTENDS `ChatMembership` |
| `ChatDelivery` | what each client of a room gets to see: history, messages, arrivals, departures | - |
| `ChatDelivery_proofs` | what clients miss and what they know of the room, proved | EXTENDS `ChatDelivery` |
| `DatabasePool` | pooled connections, the sweep's permits and the chats' locks, and who waits for them | - |
| `DatabasePool_proofs` | nothing is leaked, proved | EXTENDS `DatabasePool` |
| `ChatHistory` | a client that reads the history page by page while messages are sent and saved | - |
| `ChatHistory_proofs` | pages do not overlap and leave nothing out, proved | EXTENDS `ChatHistory` |
| `Uuid7` | the generator of chat identifiers | - |
| `Uuid7_proofs` | identifiers fit, increase and give their stamps back, proved | EXTENDS `Uuid7` |
| `MC*` | instances for TLC | the module they are named after |

**One chat.** Rooms, locks, Redis keys, watchers and the registry are keyed by
the chat, and no code relates the entries of two chats except the sweep's
semaphore and the pool, so the modules model one chat, and `DatabasePool`,
which is about these two, several.

**Grain.** One action per stretch of code between two suspension points.
A request's effect on Redis or PostgreSQL happens in the action named after
it. Where the code after the reply touches memory that other tasks touch too
(`mark_clean`, `_dirty = True`), that is an action
of its own, because other tasks run between the effect and the reply.
`registry.get`, `registry.register`, `_connections` updates and `on_room_*`
of the policies never suspend although they are coroutines, and are part of
the action that calls them.

**`ChatRoomSaver`.** `call[s]` is the state of task s's call: `waiting` for
the lock; `listing`, `loading` (LRANGE, HMGET); `inserting`; `deleting`;
and the two instants before `mark_clean` (`empty`, `deleted`). `pending` is
both Redis keys, which only change together (MULTI, or one DEL). `rows`
counts a message's rows: a count, so that storing twice would show. `dirty`
is per room object since a save holds on to the object it found, whatever the
registry holds by then. `accepted` and `wiped` are history variables. A
failing request has two outcomes, with and without effect; a rejected insert
(reply to a message that is not there, `Dangling`) has one and needs no
fault. A cancelled task may leave its request in flight, to be carried out or
not. `Restart` keeps Redis and PostgreSQL and forgets all memory.
`MaxFaults` bounds injected failures and crashes together.

**`SavePolicies`.** A time stamp is represented by its age: none, recent,
old. `watcher` is debounce's `_watchers[chat]`, `watch` the tasks themselves:
the difference matters, because a cancelled task lives until it is scheduled
and then pops the entry of whoever is there. `stop` is where the shutdown
stands: debounce's `stop` cancels the tracked watchers and gathers them
(`StopDebounce`, `gathering`), then periodic's cancels the loop and awaits it
(`StopPeriodic`, `awaiting`, `SweepCancelled`). The lifespan awaits both when
sessions and requests are over, so `EnvironmentStep` is not possible any more.
`strays` remembers the watchers whose entry another one popped.

**`ChatSession`.** `client[c]` walks through access check, room lookup,
presence, `_join` with its broadcast, serving, posting, `_leave`, and the two
listeners of `client_left`. A broadcast goes peer by peer over the list
copied at its start. `socket` says what a send meets: `open`; `hungup` (the
first send raises WebSocketDisconnect, which becomes ConnectionClosedError
and is swallowed); `shut` (Starlette raises a RuntimeError, which is not).
The library's part is modelled from how `presentation/ws/connection.py` uses
it and marked external.

**`ChatDelivery`.** The same sessions, seen by the clients. A session reads
PostgreSQL (`querying`), the order of the pending messages (`listing`) and
their payloads (`loading`), sends that (`sending`), announces itself and enters
the room; from then on it is told what others do. `seen` and `roster` are what
the client knows: the messages it was sent in either way, and the members, if it
applies the arrivals and departures it is sent to who was there when it
entered. Broadcasts interleave, each one peer by peer over a list copied at its
start. Three history variables say why a message may be missing: `late`
(broadcast after the pending messages were listed and before the session
entered), `crossing` (inserted by a save between the reads) and `deprived`
(a broadcast raised before the client's turn). The saver is what its readers
can tell of it, `SaveInserts` and `SaveEnds`. The room keeps a client: what the
last one to leave sets off is `ChatSession`'s subject. System messages are
rows that are broadcast to nobody, and are left out.

**`DatabasePool`.** `at[c]` is the await of a session, a request, a
watcher, or the task the sweep starts for a chat (which goes by the chat's
name). A session checks a connection out with its first statement and, since
it never commits, gives it back when the provider's scope ends, after the
closing save; a request gives it back with its unit of work, before the save
of a removal. A save takes the chat's lock, reads Redis, checks out a
connection of its own, inserts, gives it back, deletes. A check-out that finds
nothing waits and at some point times out (SQLAlchemy's `pool_timeout`); until
then the lock is held. `EndSave` is every way out of a save for every caller.
What is read and stored is `ChatRoomSaver`'s subject: here a save finds
nothing, something, or something the table refuses. A chat in `dangling` has a
pending reply to a row that does not exist, until its room is closed and
cleared; a save that has read it (`refused`) ends at the foreign key
(`InsertRejected`), which is no fault and costs none of `MaxFaults`.

**`ChatMembership`.** All requests of one chat context, each a composition in
one unit of work, each unit of work one PostgreSQL transaction. A request's
stage is the await it has reached: `chat` (by_context), `creating`, `actor`,
`registering`, `member`, `inserting`, `removing`, `deleting`, `committing`.
`wrote` holds its uncommitted rows. A statement reads what is committed and
what its own transaction wrote; an insert waits for an uncommitted row of the
same key, and for an uncommitted deletion of a row it would clash with; a
delete first finds its row (`BeginDelete`), then waits for it
(`DeleteMember`), and affects nothing if the row is gone by then. A member
row carries the request that inserted it, so that a row deleted and inserted
again is another row, as it is in the table. System messages have no key to
clash on, so which ones a request writes is decided at its commit
(`Announced`). A unit of work that fails rolls back; a commit may fail
before or after it took effect (`Fails`, `CommitFails`). There is one chat
context, because no code relates two; the self-join endpoint takes the context
from the caller and is the same sequence of statements as
`project.member_added`. The save and the disconnect that follow a committed
removal are in `ChatSession`.

**`ChatHistory`.** The two stores of the saver again, seen by a reader: only
what a page depends on is kept, a message's time stamp, its row's id, and
whether it is pending. Both time stamp and id are drawn long before the message is
visible, the id from a sequence that knows nothing of transactions, so the
model lets rows appear in any order of both; only the rows of one batch keep
theirs. `reader` is one request, its stages its reads: PostgreSQL
(`QueryFirst`), the pending order (`ListPending`), the payloads
(`LoadPending`, which skips payloads deleted in between, as the store does);
with a cursor, PostgreSQL alone (`QueryNext`). Saves run between them
(`SaveInserts`, `SaveDeletes`, `SaveFails`, which summarise `ChatRoomSaver`).
`walk` is a history variable: what was stored when the first page was read,
whether pending messages were on it, and what the client has seen. It counts
pages up to two. Each request has a limit of its own, `reader.limit`, which
stands for `min(max(limit, 1), history_limit)`; `Limit` is `history_limit`.

**`Uuid7`.** One action, one call; a reading of the clock may be anything.
The fields' sizes are constants, so that TLC can use small ones; `Pack` and
`Extract` are the arithmetic of the code with a product or a quotient for a
shift and a remainder for a mask. A size need not be a power of two; the code's
are 2^36, 2^12, 2^12, 2^6 and 2^56, with gaps of 2^4 and 2^2.

## 3. What is checked

One run per component, and one more per question that needs an instance of
its own.

| Run | Instance | Shows |
|---|---|---|
| `saver` | 2 watchers and the sweep, 2 rooms, 2 messages (one dangling), 2 faults; symmetry of watchers and of rooms | `SaverTypeOK`, `SaveMutex`, `StoredAtMostOnce`, `LossOnlyByClearing`, `CleanMeansSaved`, `PolicyTypeOK`, `TrackedWatcherRuns`, `ModificationIsWatched`, `StopEndsSaves`, and `KeepsMessageDurability`: every behaviour is one of `MessageDurability` |
| `session_safety` | 2 sessions of 2 actors, 2 rooms, no fault | `SessionTypeOK`, `NoGhostPresence`, `KeepsSaverSpec` |
| `session_liveness` | 1 session, removal, a watcher and the sweep, 1 fault or crash; fair | `NoGhostPresence`, `KeepsSaverSpec`, `DepartureCompletes`, `SaveCallReturns`, `DebounceSettles`, `DirtyRoomGetsClean`, `StopReturns` |
| `delivery` | 2 clients in the room, 1 that joins, 1 message; symmetry of the two | `DeliveryTypeOK`, `NothingElseIsMissed`, `RosterFollowsRoom` |
| `pool` | 2 chats with a session each, a request, a watcher, 1 connection, 1 permit, refused replies in one chat, 1 fault; fair | `PoolTypeOK`, `ResourcesAccounted`, `WaitsEnd`, `DirtyIfStarvedOrRefused` |
| `membership` | 2 registrations with one e-mail address, join and leave of one actor delivered twice each, a task event; nothing there at first; any failure; fair | `MembershipTypeOK`, `OneChat`, `ArrivalsToldOnce`, `JoinedUnlessLeft`, `KeepsMembershipLedger`, `RequestsEnd` |
| `history` | 3 messages, 2 time stamps, pages of 1 or 2; fair | `HistoryTypeOK`, `PagesDescend`, `WalkShowsRows`, `WalkEnds` |
| `uuid7` | fields of 2 or 4 values, 13 units to a second, a clock that runs past the overflow of the seconds | `UuidTypeOK`, `StampExtracted`, `IdsIncrease` |
| `session_loss`, `session_split`, `session_late_joiner`, `history_repeat` | as small as shows it | violations, see 5 |

Three callers of the saver let one hold the lock, one queue, and one come
behind the queue. Two faults let a retry fail as well. Two watchers let a
cancelled one pop the entry of the one that took its place, and be created
again behind it: a task that ended is free to stand for the next one. Two rooms
are one registered and one dropped by the registry but still in use. Messages
are interchangeable except for `Dangling`, and no action relates more than the
two that a batch and a late append need; the theorems of section 4 have no
bound. In `session_safety` two sessions meet in every stage without a fault;
`session_liveness` adds the removal, a fault and the fair behaviours for one;
there the closing save, the watcher, the sweep and the removal compete for the
lock. No message is dangling in it: that saves which the table refuses end, and
give back what they hold, is shown by `pool`.

In `delivery`, three clients are one to send, one to get it, and one whose
dead socket cuts the broadcast in between; two of them can be leaving while the
third joins. One message is enough because broadcasts of different messages
share nothing but the sockets. In `pool`, one connection and one permit
are the code's proportion, where the sweep may use as many connections as there
are (20 and 20): one task of the sweep takes everything, or a session does, and
the other task, the other session, the request and the watcher wait. A session
can hold the connection while the sweep holds the lock it needs to close its
room, the circle that `WaitsEnd` is about. What this instance has not is a
closing save that gets its connection, which takes a second one; what such a
save holds and gives back is part of the theorem `PoolAccountsResources`, and
what it stores is `ChatRoomSaver`'s. A chat with refused replies shares the pool
with one without.

Requests of `ChatMembership` need no bound on failures, because a request that
failed is over; a retry is one more request. Seven requests put one of
most kinds against each other, and the two that can undo each other, join and
leave, against themselves as well. The kinds `project` and `chat`, whose
statements are those of the others in another order, are not in the instance;
the theorems cover them. Two time stamps give equal and different ones among three
messages; three messages fill a page of one or two, leave a row for `has_more` and
one to arrive late. Pages of one make the longest walks, and pages of two are
the smallest that mix rows and pending messages. 13 units to a second do not
fill the 16 values of their fields, as 10^9 do not fill 2^30.

`WalkShowsRows` excepts walks that ended on a first page with pending messages
in it, for a reason given at the end of section 5.

`KeepsSaverSpec` is `SaverSpec` checked as a property of the composed
`ChatSession`: whatever sessions, policies and removals do to the saver's
variables is a step `ChatRoomSaver` allows. It is what carries every invariant
and theorem of the saver over to the whole.

Deadlock is checked in every run but these. In the session runs, once each
session of the instance has left a dead connection in a room (see `EnterFails`)
nobody is left to act. In the code new clients would come. In `delivery`
the last client stays and messages run out. A completed stop is a state in
which `SavePolicies` may stay (`Stopped`).

Every property of a passing run is exercised by a mutant listed in
PROJECT.json: the definition of the code it is about is replaced by one with a
plausible mistake, defined right before it (comments begin with "Mutant:"), and
the property fails.

### Fairness

Weak fairness of a task's next step says: the event loop runs ready tasks,
timers fire and requests are answered (redis-py and asyncpg answer or raise).
Strong fairness of entering the lock says that its queue is FIFO, which
asyncio.Lock guarantees and the model does not keep; it is asked only of tasks
that already wait. Nothing is asked of users (posting, hanging up, joining), of
failures, of cancellation other than the delivery of one already requested, or
of crashes, and stop() may never be called. In `FairSpec` a removed member's
composition is a task as well.

In `DatabasePool`, strong fairness of a waiting caller's next step: the lock's
and the semaphore's queues are FIFO, so who could go on again and again does;
a check-out is answered or times out; the loop of the sweep wakes. A session may
use its connection, and a request may keep its own, for ever: the pool bounds
the wait for a connection and nothing bounds its use.

In `ChatMembership`, weak fairness of each request's next step: statements are
answered, and a wait for a row ends when its holder's transaction does.
Failures are not fair. In `ChatHistory`, weak fairness of the reader alone:
requests are answered and the client keeps asking, while nothing has to be
sent or saved.

## 4. What is proved

For any finite or infinite number of tasks, rooms and messages and any
`MaxFaults`, from `SaverAssumption` alone (the sentinels are not elements,
dangling messages are messages, the bound is a natural number):

* `SaverTypeCorrect`, `SaverMutualExclusion`, `SaverStoresOnce`,
  `SaverLosesOnlyByClearing`, `SaverCleansAfterSaving`: the five invariants of
  the run `saver`.
* `SaverImplementsDurability`: its refinement.

The invariants are not inductive. `SaveMutex` follows from `LockInv`: the lock
names exactly the tasks in the critical section. `CleanMeansSaved` needs
`BatchInv`, which says of every stage what the batch is by now (dangling
messages cannot be past the insert; after it the batch is stored; after the
delete it is not pending), and that needs the lock, since another task in the
section could change the stores under it. `LossOnlyByClearing` needs
`TraceInv`: also a message whose append has not returned yet is pending, stored
or wiped. `RowInv` bounds the rows. `SaverInv` is the conjunction. The proof is
split by who steps: the calls (one lemma for the lock, one for the stores, one
for the batch), the rooms, the restart.

The refinement adds `ReadInv`: what an inserting call has read is pending,
stored or wiped. Then each step is mapped: Insert is `Store` of the part of the
batch not yet stored; clear_room is `Close`, orphaning what is being saved;
a call that dies at its insert is `GiveUp`; appends are `Hold`; all else
stutters.

From `PolicyAssumption` (watchers and the sweep are different savers) besides,
for any number of watchers:

* `PoliciesKeepSaver`: the policies, their stop() and the rooms implement
  `SaverSpec`, so the results above are results about `PolicySpec`.
* `PolicyTypeCorrect`, `PolicyTracksLiveWatcher`, `PolicyWatchesModification`,
  `PolicyStopEndsSaves`: the four invariants of the run `saver` that are about
  the policies.

From `SessionAssumption` (sessions, watchers, the sweep and the removal are
different savers) besides, for any number of sessions, actors and rooms:

* `SessionKeepsSaver`: `Spec => KeepsSaverSpec`. What sessions, closings of
  rooms, removals, policies and stop() do, at every await and with every
  failure, is a step of `ChatRoomSaver` or none. With it, `SessionSavesSafely`
  and `SessionKeepsDurability` state of the whole live side what was proved of
  the saver: saves exclude each other, store once, lose only what clear_room
  deletes, and keep the promise of `MessageDurability`.
* `SessionTypeCorrect`, `SessionLeavesNoGhost`: the invariants of the run
  `session_safety`.
* `SessionKeepsPolicies`: the policies' four invariants, under everything that
  sessions and removals do.

`ModificationIsWatched` is inductive only with `WatchInv`: the entry of
`_watchers` is a live task, and every other live task was cancelled or is a
stray, one whose entry another one popped. It excepts chats with a message that
the table refuses. A watcher that a refused insert ends must therefore mean such
a message, and that needs `SavingInv`: what an insert has read is pending,
stored or wiped (`ReadInv`), and no refused message is ever stored
(`PoisonInv`). `StopEndsSaves` needs `StopInv`, what stop() has done by
each of its stages, and `SweepInv`, that the loop knows whether its task is in
the saver. In the composition, stop() happens while no session is left
(`QuietInv`), and a session past its lookup has a room (`RoomInv`). `SystemInv`
is the conjunction, `NoGhostPresence` included; its step is shown once for each
kind of task that steps.

From `MembershipAssumption` (requests have a kind and an actor, registered
actors have different e-mail addresses), for any set of requests and actors:

* `MembershipTypeCorrect`, `MembershipHasOneChat`, `JoiningMakesMember`,
  `ArrivalsAreToldOnce`: the invariants of the run `membership`.
* `MembershipImplementsLedger`: its refinement.

`OneChat` speaks of committed rows, and racing requests are kept apart by
uncommitted ones. `MembershipInv` therefore says of every request what it may
have written at its stage and what it has seen (`Sound`), of the tables that
their rows belong together (`TablesInv`), and of every two requests that their
uncommitted rows do not clash (`Apart`): no two inserted chats, no two
members with one key, no two deletions of one row. Each action's lemma shows
`Sound` of the request that steps, of the others, and `Apart` of the two. For
the refinement a commit is mapped to the ledger's step for the request's kind,
and `Sound` supplies the step's conditions; every other action stutters.
`ArrivalsToldOnce` is about numbers: for each actor, the arrivals told are at
most the departures told plus the rows in the table (`CountInv`). A commit
that tells an arrival inserts a row, and one that deletes a row tells a
departure (`CountsOn`, from `Sound`); the rest is `Counting`, about the
cardinalities of sets that gain or lose one member.

From `HistoryAssumption` (messages are finitely many numbers, a page has room
for one entry, there is a time), for any messages, page sizes and interleaving
with sends and saves:

* `HistoryTypeCorrect`, `HistoryPagesDescend`, `HistoryShowsRows`: the
  invariants of the run `history`.

That pages do not overlap: `StoreInv` says that a row never changes its time
stamp or its id, `CursorInv` that the cursor of an answer that has more is the
least row shown so far; a query with a cursor returns only rows strictly below
it. That they leave nothing out takes the order of a page. `Before` is a strict
total order of entries whose rows are there (`PageOrder`), so the number of
entries behind an entry numbers a page from 0 (`Ranking`), and `Newest(S, n)` has
n elements or all of S (`NewestBound`, `NewestFull`) and with an entry all that
follow it (`NewestUpward`). `PageCovers` draws the consequence for a page cut
twice, with one row read ahead: what it leaves out lies before its first
row, and if there is nothing more, it leaves out nothing. `WalkInv` is the
invariant: each row that was stored when the walk began has been shown or is
still below the cursor. It needs unique ids (`StoreTypeOK`), because the
comparison with a cursor stops at the id, where the order of the page goes on.

From `PoolAssumption` (finitely many callers, each of one kind), for any number
of chats, sessions, requests, watchers, connections and permits:

* `PoolTypeCorrect`, `PoolAccountsResources`: the invariants of the run `pool`.

`ResourcesAccounted` counts who holds what; it is inductive with `PlaceInv`, by
which only sessions and requests stand at a connection of their own, only
tasks of the sweep at its semaphore, and all of these are back when the loop
sleeps: a task that was started again while it held a permit would lose it.
`Moved` says what a caller's move from one await to another changes in the
three counts, `PaidMove` that a move that takes from the pool and the semaphore
just this difference keeps the accounts, and the accounts the upper bounds;
the lower ones are the guards of the check-outs. `EndSaveKeeps` is the
common end of a save by return, timeout, failure or cancellation.

From `DeliveryAssumption` (residents are clients, and clients are not
messages), for any set of clients and of messages:

* `DeliveryTypeCorrect`, `DeliveryMissesNothingElse`, `DeliveryKeepsRoster`: the
  invariants of the run `delivery`.

`NothingElseIsMissed` judges a client only once it is in the room, and the
loss, if there is one, happened while it was joining. `HistoryInv` says for
each stage of a joining session how far its history must go: every row up to
the first read, every accepted message up to the second, except what has been
noted as crossing or late. Between the two reads that takes `Kept`: an
accepted message is pending or stored whatever a save does, so what a read of
Redis does not find was inserted before or by the save that crosses.
`RosterFollowsRoom` needs `Placed`, the connections a session has at its stage:
one who is leaving is no longer among them, so its last broadcasts and its
absence agree. `DeliveryInv` is the conjunction, `TypeStep` to `RosterStep`
the step of each conjunct, action by action. A broadcast under way is followed
peer by peer: a send ends the wait of one peer and leaves the others waiting.

From `Uuid7Assumption` (fields and gaps have a size, and the three below the
seconds have room for the units of a second, as 2^30 has for 10^9), for fields of
any sizes, any clock and any random bits:

* `UuidFits`, `UuidStampExtracted`, `UuidsIncrease`: the properties of the run
  `uuid7`.

An identifier is a number in a mixed radix. `Below` says that what stands below a
unit stays below it, `ReadBack` that a digit is read with its unit and its
size, `Pieces` and `Fields` that the code's shifts and masks take a stamp apart
into such digits and lose nothing. `LaterIsLarger` follows the first digit two
stamps differ in. `UuidInv` adds that the newest identifier was packed from
the last stamp. The sizes are constants instead of powers of two because
the laws of `2^x` are an induction, beyond these provers, and because they do not
compute with numbers as large as 2^92.

So every safety and action property of the passing runs is a theorem, and every
refinement. Liveness is checked by TLC only (`DepartureCompletes`,
`SaveCallReturns`, `DebounceSettles`, `DirtyRoomGetsClean`, `StopReturns`,
`RequestsEnd`, `WalkEnds`, `WaitsEnd`, `DirtyIfStarvedOrRefused`): fairness and ENABLED are beyond the prover.

## 5. Where code and tests disagree

Four properties that the tests state or imply of the program do not hold of the
code.

1. `AcceptedStaysInHistory` (`session_loss`). A save reads the pending
   messages; a message is posted; the save inserts, deletes its batch and calls
   `mark_clean`. The new message is pending in a clean room. If the next thing
   is the last client leaving, `save_if_dirty` skips the clean room and
   `clear_room` deletes the message. The debounce policy has forgotten it too.
   The theorem `SaverLosesOnlyByClearing` says that this, a closing save that
   fails, and a crash before it, are the only kinds of loss.
2. `JoinersShareRoom` (`session_split`). `on_client_left` looks at the room
   before its awaits and unregisters after them.
3. `RemovedActorKeptOut` (`session_late_joiner`). The membership check of a
   joining session is not repeated when it enters the room.
4. `MergedOnce` (`history_repeat`). The merge does not compare runtime ids; a
   message between the insert and the delete of a save is in both stores.

The models also have behaviours that no test speaks about and that a reader of
the code may want to know:

* The save between the commit of a removal and the disconnect is unguarded
  (`remove_chat_member.py:95`): when it raises, the removed member stays
  connected, and the removal, already committed, is not repeated.
* `RemoveChatMemberUsecase` reports a removal without asking how many rows
  its delete affected. Two removals that both read the membership before either
  commits both report one, and the chat is told twice that the member left:
  the ledger's `DepartAgain`.
* The page is cut after the merge. When pending messages fill it, it
  has no row, and the code sets `has_more` to False although the query had
  just returned more rows than a page holds. A client that trusts it never
  sees them on this walk; they come back when the pending messages are saved.
  This is what `WalkShowsRows` excepts.
* A client that is in the room can lack a message for three reasons, each
  without any failure of a store. It was broadcast after the session listed
  the pending messages and before it entered the room (`handlers/
  chat_session.py:55`). A save moved it between the two reads of the history. Or
  the broadcast met a dead socket for the second time: `_broadcast` swallows
  ConnectionClosedError only, and the RuntimeError ends the loop, and the session
  of the sender with it, before the peers that come later. A join whose
  broadcast raises this way leaves one more dead connection behind, and every
  broadcast of the room is cut from then on. `NothingElseIsMissed` says that
  there is no fourth reason; `RosterFollowsRoom` says the same of arrivals and
  departures.
* Broadcasts are not serialised: two messages posted at the same time may reach
  two clients in different orders.
* stop() does not save. What is dirty stays pending in Redis, for a new room
  that does not know it is dirty. A watcher whose entry was popped by another
  one is not in the table stop() looks at and may still be saving when Redis
  and the engine are closed: this is what `StopEndsSaves` excepts.
* A save needs a second connection while its session holds the first, and a
  lock while it waits for it. When open sockets hold every connection no save
  succeeds, and what ends the wait is the pool's timeout. A session that closes
  its room in that state fails to save and clears the room's messages all the
  same. By default the sweep alone may use as many connections as there are.
* Any integer is accepted as `reply_to_message_id`. One that names no row makes
  every save of the chat fail at the foreign key, however many connections are
  free, until the room is closed and its messages are cleared.
  `DirtyIfStarvedOrRefused` says that this and saves that find the pool exhausted
  are the only reasons for which a chat stays dirty: locks, permits, cancelled
  watchers, a failure now and then and another chat's refused saves are none.
* PostgreSQL is read first, so a message that a save moves between the two
  reads is in neither. Reading Redis first would turn this into a case of 4,
  which the runtime id can resolve.

## 6. Not modelled

Listed with reasons under `components` in PROJECT.json. The finalizer and the
flush composition are not wired to any provider. Tokens, encryption, JSON and
HTTP shapes are pure functions of libraries. `ChatHistory` leaves out the access
check, which `ChatSession` has, and treats the cursor's encryption as what it
is to an honest client, a box with a time stamp and an id in it.

## 7. Plan

Done: `ChatRoomSaver`, `MessageDurability`, `SavePolicies`, `ChatSession`,
`MembershipLedger`, `ChatMembership`, `ChatHistory`, `ChatDelivery`,
`DatabasePool`, `Uuid7`, and the proofs of all of them.

1. Proofs: that a chat's saves in `DatabasePool` are saves of `ChatRoomSaver`
   seen from the resources they take, so that the two modules say one thing.
2. An abstract history, a sequence that only grows, that the walk implements
   when nothing is pending.
3. An order of events: what two clients may see in different orders and what
   they may not.
