--------------------------- MODULE ChatRoomSaver ---------------------------
(***************************************************************************)
(* Write-behind persistence of one chat: messages sent in the chat live in *)
(* Redis until ChatRoomSaver.save_if_dirty moves them to PostgreSQL.  Any  *)
(* number of asyncio tasks may call the saver; the rooms, the registry and *)
(* the lifecycle handler appear only through the calls they make.          *)
(*                                                                         *)
(* Code between two suspension points of a coroutine is one action.  A     *)
(* remote call takes effect in the action named after it; where the code   *)
(* after the reply touches memory that other tasks touch too, that code is *)
(* an action of its own.                                                   *)
(***************************************************************************)
EXTENDS Naturals

CONSTANTS
    Savers,     \* the tasks that call save_if_dirty for this chat
    Rooms,      \* LiveChatRoom objects that may exist for this chat
    Messages,   \* runtime messages, named by their runtime_id (uuid4)
    Dangling,   \* the messages whose reply_to_message_id names no row
    NoRoom,     \* registry.get(chat_id) is None
    Nobody,     \* the saver's lock is free
    MaxFaults   \* bound on injected failures and process crashes

ASSUME SaverAssumption ==
    /\ NoRoom \notin Rooms
    /\ Nobody \notin Savers
    /\ Dangling \subseteq Messages
    /\ MaxFaults \in Nat

VARIABLES
    registered, \* the room the in-memory registry holds for the chat
    dirty,      \* LiveChatRoom._dirty of every room object
    sending,    \* for a message whose append is being awaited, its room
    pending,    \* Redis: the chat's pending order list and payload hash
    rows,       \* PostgreSQL: number of rows with the message's runtime_id
    lock,       \* holder of the per-chat asyncio.Lock of the saver
    call,       \* per task, where its save_if_dirty call stands
    accepted,   \* history: messages whose append returned to the sender
    wiped,      \* history: messages some clear_room deleted from Redis
    faults      \* failures injected so far

storeVars == <<pending, rows>>
roomVars  == <<registered, dirty, sending>>
callVars  == <<lock, call>>
histVars  == <<accepted, wiped>>
saverVars == <<storeVars, roomVars, callVars, histVars, faults>>

Idle == [pc |-> "idle", room |-> NoRoom, batch |-> {}]

\* Inside `async with lock`, at the await of the stage's name; "empty" and
\* "deleted" are the instants before mark_clean.
Critical == {"listing", "loading", "empty", "inserting", "deleting", "deleted"}
Stages   == Critical \union {"idle", "waiting"}

Stored   == {m \in Messages : rows[m] > 0}
Saveable == registered # NoRoom /\ dirty[registered]

SaverTypeOK ==
    /\ registered \in Rooms \union {NoRoom}
    /\ dirty \in [Rooms -> BOOLEAN]
    /\ sending \in [Messages -> Rooms \union {NoRoom}]
    /\ pending \in SUBSET Messages
    /\ rows \in [Messages -> Nat]
    /\ lock \in Savers \union {Nobody}
    /\ call \in [Savers -> [pc : Stages, room : Rooms \union {NoRoom},
                            batch : SUBSET Messages]]
    /\ accepted \in SUBSET Messages
    /\ wiped \in SUBSET Messages
    /\ faults \in 0..MaxFaults

SaverInit ==
    /\ registered = NoRoom
    /\ dirty = [r \in Rooms |-> FALSE]
    /\ sending = [m \in Messages |-> NoRoom]
    /\ pending = {}
    /\ rows = [m \in Messages |-> 0]
    /\ lock = Nobody
    /\ call = [s \in Savers |-> Idle]
    /\ accepted = {}
    /\ wiped = {}
    /\ faults = 0

-----------------------------------------------------------------------------
(* One call of save_if_dirty.                                              *)

Fault == faults < MaxFaults /\ faults' = faults + 1

Goto(s, stage, msgs) ==
    call' = [call EXCEPT ![s].pc = stage, ![s].batch = msgs]

\* Leaving the `async with` block, by return or by exception.
Leave(s) ==
    /\ call' = [call EXCEPT ![s] = Idle]
    /\ lock' = IF lock = s THEN Nobody ELSE lock

\* An asyncio.Lock lets a newcomer in only past an empty queue.  Which
\* waiter is next is left open: the order of the queue is not modelled.
CanAcquire(s) ==
    /\ lock = Nobody
    /\ \/ call[s].pc = "waiting"
       \/ call[s].pc = "idle" /\ \A t \in Savers : call[t].pc # "waiting"

Wait(s) ==
    /\ call[s].pc = "idle"
    /\ ~CanAcquire(s)
    /\ Goto(s, "waiting", {})
    /\ UNCHANGED <<storeVars, roomVars, lock, histVars, faults>>

\* No room, or a clean one: the call returns False at once.
SkipClean(s) ==
    /\ CanAcquire(s)
    /\ ~Saveable
    /\ Leave(s)
    /\ UNCHANGED <<storeVars, roomVars, histVars, faults>>

\* Mutant: a lock of its own for every call.
BeginSaveUnlocked(s) ==
    /\ call[s].pc \in {"idle", "waiting"}
    /\ Saveable
    /\ call' = [call EXCEPT ![s] = [pc |-> "listing", room |-> registered,
                                    batch |-> {}]]
    /\ UNCHANGED <<storeVars, roomVars, lock, histVars, faults>>

BeginSave(s) ==
    /\ CanAcquire(s)
    /\ Saveable
    /\ lock' = s
    /\ call' = [call EXCEPT ![s] = [pc |-> "listing", room |-> registered,
                                    batch |-> {}]]
    /\ UNCHANGED <<storeVars, roomVars, histVars, faults>>

\* LRANGE of the order list.
ListPending(s) ==
    /\ call[s].pc = "listing"
    /\ Goto(s, IF pending = {} THEN "empty" ELSE "loading", pending)
    /\ UNCHANGED <<storeVars, roomVars, lock, histVars, faults>>

\* HMGET of the listed ids: ids whose payload has gone meanwhile are skipped.
LoadPayloads(s) ==
    LET found == call[s].batch \intersect pending IN
    /\ call[s].pc = "loading"
    /\ Goto(s, IF found = {} THEN "empty" ELSE "inserting", found)
    /\ UNCHANGED <<storeVars, roomVars, lock, histVars, faults>>

\* Nothing to save: mark_clean, return False.
FindNothing(s) ==
    /\ call[s].pc = "empty"
    /\ dirty' = [dirty EXCEPT ![call[s].room] = FALSE]
    /\ Leave(s)
    /\ UNCHANGED <<storeVars, registered, sending, histVars, faults>>

\* Mutant: no ON CONFLICT clause, no unique index.
InsertedAgain(msgs) ==
    [m \in Messages |-> IF m \in msgs THEN rows[m] + 1 ELSE rows[m]]

\* INSERT ... ON CONFLICT (runtime_id) DO NOTHING, committed.
Inserted(msgs) ==
    [m \in Messages |-> IF m \in msgs /\ rows[m] = 0 THEN 1 ELSE rows[m]]

Insert(s) ==
    /\ call[s].pc = "inserting"
    /\ call[s].batch \intersect Dangling = {}
    /\ rows' = Inserted(call[s].batch)
    /\ Goto(s, "deleting", call[s].batch)
    /\ UNCHANGED <<pending, roomVars, lock, histVars, faults>>

\* Mutant: the whole pending list goes, not the batch.
DeleteAll(s) ==
    /\ call[s].pc = "deleting"
    /\ pending' = {}
    /\ Goto(s, "deleted", call[s].batch)
    /\ UNCHANGED <<rows, roomVars, lock, histVars, faults>>

\* LREM and HDEL of the batch in one MULTI.
Delete(s) ==
    /\ call[s].pc = "deleting"
    /\ pending' = pending \ call[s].batch
    /\ Goto(s, "deleted", call[s].batch)
    /\ UNCHANGED <<rows, roomVars, lock, histVars, faults>>

\* mark_clean, return True.
MarkClean(s) ==
    /\ call[s].pc = "deleted"
    /\ dirty' = [dirty EXCEPT ![call[s].room] = FALSE]
    /\ Leave(s)
    /\ UNCHANGED <<storeVars, registered, sending, histVars, faults>>

\* Mutant: a failed read leaves without releasing the lock.
ReadFailsLocked(s) ==
    /\ call[s].pc \in {"listing", "loading"}
    /\ Fault
    /\ call' = [call EXCEPT ![s] = Idle]
    /\ UNCHANGED <<storeVars, roomVars, lock, histVars>>

ReadFails(s) ==
    /\ call[s].pc \in {"listing", "loading"}
    /\ Fault
    /\ Leave(s)
    /\ UNCHANGED <<storeVars, roomVars, histVars>>

\* Mutant: the rejected statement is taken for a success.
InsertSwallowed(s) ==
    /\ call[s].pc = "inserting"
    /\ call[s].batch \intersect Dangling # {}
    /\ Goto(s, "deleting", call[s].batch)
    /\ UNCHANGED <<storeVars, roomVars, lock, histVars, faults>>

\* The foreign key of reply_to_message_id rejects the whole statement.
InsertRejected(s) ==
    /\ call[s].pc = "inserting"
    /\ call[s].batch \intersect Dangling # {}
    /\ Leave(s)
    /\ UNCHANGED <<storeVars, roomVars, histVars, faults>>

\* The database fails before or after the commit took effect.
InsertFails(s) ==
    /\ call[s].pc = "inserting"
    /\ Fault
    /\ \/ rows' = rows
       \/ /\ call[s].batch \intersect Dangling = {}
          /\ rows' = Inserted(call[s].batch)
    /\ Leave(s)
    /\ UNCHANGED <<pending, roomVars, histVars>>

\* Redis fails before or after the transaction was applied.
DeleteFails(s) ==
    /\ call[s].pc = "deleting"
    /\ Fault
    /\ pending' \in {pending, pending \ call[s].batch}
    /\ Leave(s)
    /\ UNCHANGED <<rows, roomVars, histVars>>

\* Mutant: the cancelled call does not release the lock.
CancelledLocked(s) ==
    /\ call[s].pc # "idle"
    /\ \/ UNCHANGED storeVars
       \/ /\ call[s].pc = "inserting"
          /\ call[s].batch \intersect Dangling = {}
          /\ rows' = Inserted(call[s].batch)
          /\ UNCHANGED pending
       \/ /\ call[s].pc = "deleting"
          /\ pending' = pending \ call[s].batch
          /\ UNCHANGED rows
    /\ call' = [call EXCEPT ![s] = Idle]
    /\ UNCHANGED <<lock, roomVars, histVars, faults>>

\* CancelledError at the await the task is suspended in; the request in
\* flight may or may not have been carried out.
Cancelled(s) ==
    /\ call[s].pc # "idle"
    /\ \/ UNCHANGED storeVars
       \/ /\ call[s].pc = "inserting"
          /\ call[s].batch \intersect Dangling = {}
          /\ rows' = Inserted(call[s].batch)
          /\ UNCHANGED pending
       \/ /\ call[s].pc = "deleting"
          /\ pending' = pending \ call[s].batch
          /\ UNCHANGED rows
    /\ Leave(s)
    /\ UNCHANGED <<roomVars, histVars, faults>>

\* The step of s leaves its call running, makes it return, or makes it raise.
Proceeds(s) ==
    \/ Wait(s)
    \/ BeginSave(s)
    \/ ListPending(s)
    \/ LoadPayloads(s)
    \/ Insert(s)
    \/ Delete(s)

Completes(s) == SkipClean(s) \/ FindNothing(s) \/ MarkClean(s)

Raises(s) ==
    \/ ReadFails(s)
    \/ InsertRejected(s)
    \/ InsertFails(s)
    \/ DeleteFails(s)
-----------------------------------------------------------------------------
(* What the rest of the process does to the state the saver works on.      *)

Fresh(m) ==
    /\ m \notin pending \union wiped
    /\ rows[m] = 0
    /\ sending[m] = NoRoom

\* Mutant: the room's key is pushed instead of the runtime id.
AppendRoomKey(r, m) ==
    /\ Fresh(m)
    /\ pending' = pending \union {r}
    /\ sending' = [sending EXCEPT ![m] = r]
    /\ UNCHANGED <<rows, registered, dirty, callVars, histVars, faults>>

\* handle_command of room r: HSET and RPUSH in one MULTI.
AppendPending(r, m) ==
    /\ Fresh(m)
    /\ pending' = pending \union {m}
    /\ sending' = [sending EXCEPT ![m] = r]
    /\ UNCHANGED <<rows, registered, dirty, callVars, histVars, faults>>

\* The append returned to handle_command.
MarkDirty(m) ==
    /\ sending[m] # NoRoom
    /\ dirty' = [dirty EXCEPT ![sending[m]] = TRUE]
    /\ sending' = [sending EXCEPT ![m] = NoRoom]
    /\ accepted' = accepted \union {m}
    /\ UNCHANGED <<storeVars, registered, callVars, wiped, faults>>

\* The append took effect in Redis, the reply was lost: the sender fails.
AppendFails(m) ==
    /\ sending[m] # NoRoom
    /\ Fault
    /\ sending' = [sending EXCEPT ![m] = NoRoom]
    /\ UNCHANGED <<storeVars, registered, dirty, callVars, histVars>>

\* An object nobody refers to stands for one the factory has just built.
Unreferenced(r) ==
    /\ registered # r
    /\ ~dirty[r]
    /\ \A m \in Messages : sending[m] # r
    /\ \A s \in Savers : call[s].room # r

\* registry.register: setdefault, so an entry that is there already stays.
RegisterRoom(r) ==
    /\ registered = NoRoom
    /\ Unreferenced(r)
    /\ registered' = r
    /\ UNCHANGED <<storeVars, dirty, sending, callVars, histVars, faults>>

\* registry.remove: drops whichever room is registered now.
RemoveRoom ==
    /\ registered' = NoRoom
    /\ UNCHANGED <<storeVars, dirty, sending, callVars, histVars, faults>>

\* runtime_store.clear_room: DEL of the chat's keys.
ClearRoom ==
    /\ wiped' = wiped \union pending
    /\ pending' = {}
    /\ UNCHANGED <<rows, roomVars, callVars, accepted, faults>>

\* Redis fails before or after the keys were deleted.
ClearFails ==
    /\ Fault
    /\ \/ UNCHANGED <<pending, wiped>>
       \/ /\ wiped' = wiped \union pending
          /\ pending' = {}
    /\ UNCHANGED <<rows, roomVars, callVars, accepted>>

\* Mutant: the start of the process flushes the runtime state.
RestartFlushing ==
    /\ Fault
    /\ registered' = NoRoom
    /\ dirty' = [r \in Rooms |-> FALSE]
    /\ sending' = [m \in Messages |-> NoRoom]
    /\ lock' = Nobody
    /\ call' = [s \in Savers |-> Idle]
    /\ pending' = {}
    /\ UNCHANGED <<rows, histVars>>

\* The process dies and is started again: Redis and PostgreSQL survive.
Restart ==
    /\ Fault
    /\ registered' = NoRoom
    /\ dirty' = [r \in Rooms |-> FALSE]
    /\ sending' = [m \in Messages |-> NoRoom]
    /\ lock' = Nobody
    /\ call' = [s \in Savers |-> Idle]
    /\ UNCHANGED <<storeVars, histVars>>

SaveStep(s) == Proceeds(s) \/ Completes(s) \/ Raises(s) \/ Cancelled(s)

RoomStep ==
    \/ \E r \in Rooms, m \in Messages : AppendPending(r, m)
    \/ \E m \in Messages : MarkDirty(m) \/ AppendFails(m)
    \/ \E r \in Rooms : RegisterRoom(r)
    \/ RemoveRoom
    \/ ClearRoom
    \/ ClearFails

SaverNext == (\E s \in Savers : SaveStep(s)) \/ RoomStep \/ Restart

SaverSpec == SaverInit /\ [][SaverNext]_saverVars
-----------------------------------------------------------------------------
(* Properties.                                                             *)

\* save_if_dirty is a critical section per chat: two calls never read, insert
\* or delete the chat's pending messages at the same time.
SaveMutex ==
    \A s, t \in Savers :
        call[s].pc \in Critical /\ call[t].pc \in Critical => s = t

\* A message becomes at most one row, although a save that failed after its
\* commit, or died before its delete, inserts the same message again.
StoredAtMostOnce == \A m \in Messages : rows[m] <= 1

\* The saver itself loses nothing: a message the room accepted is pending or
\* stored, unless a clear_room found it pending and deleted it.
LossOnlyByClearing == accepted \subseteq pending \union Stored \union wiped

\* When a call that deleted its batch marks the room clean, everything it
\* read is stored and gone from Redis; what is pending then arrived later.
CleanMeansSaved ==
    \A s \in Savers : call[s].pc = "deleted" =>
        /\ call[s].batch \subseteq Stored
        /\ call[s].batch \intersect pending = {}

\* Every call of save_if_dirty comes back: no failure keeps the chat's lock.
SaveCallReturns ==
    \A s \in Savers : call[s].pc = "waiting" ~> call[s].pc = "idle"

\* The messages a save has read and may yet store.
Saving == {m \in Messages : \E s \in Savers :
               call[s].pc = "inserting" /\ m \in call[s].batch}

Durability == INSTANCE MessageDurability WITH
    held     <- pending \ Stored,
    stored   <- Stored,
    orphaned <- (wiped \intersect Saving) \ (pending \union Stored),
    lost     <- wiped \ (pending \union Stored \union Saving)

\* The saver, the rooms and the stores together keep the promise that
\* MessageDurability states: what is stored stays stored, and a message is
\* only ever lost by clear_room, at once or when the save that had already
\* read it fails.
KeepsMessageDurability == Durability!Spec
=============================================================================
