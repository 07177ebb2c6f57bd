------------------------ MODULE ChatRoomSaver_proofs ------------------------
(***************************************************************************)
(* What ChatRoomSaver guarantees for any number of tasks, rooms, messages  *)
(* and failures, whoever registers, removes and clears the rooms.          *)
(***************************************************************************)
EXTENDS ChatRoomSaver, TLAPS

\* The lock is held by the one task inside the critical section.
LockInv == \A s \in Savers : call[s].pc \in Critical <=> lock = s

\* What a save has read is known to some store; what it has inserted is
\* stored; what it has deleted is gone from Redis.
BatchInv ==
    \A s \in Savers :
        /\ call[s].pc \in {"deleting", "deleted"} => call[s].batch \subseteq Stored
        /\ call[s].pc = "deleted" => call[s].batch \intersect pending = {}

\* No message whose append took effect has vanished.
TraceInv ==
    /\ accepted \subseteq pending \union Stored \union wiped
    /\ \A m \in Messages : sending[m] # NoRoom => m \in pending \union Stored \union wiped

RowInv == \A m \in Messages : rows[m] <= 1

SaverInv == SaverTypeOK /\ LockInv /\ BatchInv /\ TraceInv /\ RowInv

-----------------------------------------------------------------------------
(* Type correctness.                                                       *)

\* A process that has just started is well typed.
LEMMA InitTyped == SaverInit => SaverTypeOK
  BY SaverAssumption DEF SaverInit, SaverTypeOK, Idle, Stages, Critical

\* Leaving the critical section keeps the lock and the calls well typed.
LEMMA LeaveTyped ==
  ASSUME SaverTypeOK, NEW s \in Savers, Leave(s)
  PROVE  /\ lock' \in Savers \union {Nobody}
         /\ call' \in [Savers -> [pc : Stages, room : Rooms \union {NoRoom},
                                  batch : SUBSET Messages]]
  BY DEF SaverTypeOK, Leave, Idle, Stages, Critical

\* So does moving on to another stage with another batch.
LEMMA GotoTyped ==
  ASSUME SaverTypeOK, NEW s \in Savers, NEW stage \in Stages,
         NEW msgs \in SUBSET Messages, Goto(s, stage, msgs)
  PROVE  call' \in [Savers -> [pc : Stages, room : Rooms \union {NoRoom},
                               batch : SUBSET Messages]]
  BY DEF SaverTypeOK, Goto

\* The table stays a count per message.
LEMMA InsertedTyped ==
  ASSUME SaverTypeOK, NEW msgs
  PROVE  Inserted(msgs) \in [Messages -> Nat]
  BY DEF SaverTypeOK, Inserted

\* The budget of injected failures is never exceeded.
LEMMA FaultTyped ==
  ASSUME SaverTypeOK, Fault
  PROVE  faults' \in 0..MaxFaults
  BY SaverAssumption DEF SaverTypeOK, Fault

\* No step of a call of save_if_dirty breaks a type.
LEMMA SaveStepTyped ==
  ASSUME SaverTypeOK, NEW s \in Savers, SaveStep(s)
  PROVE  SaverTypeOK'
<1> USE DEF storeVars, roomVars, callVars, histVars
<1>1. CASE Wait(s)
  <2>1. Goto(s, "waiting", {}) /\ "waiting" \in Stages
    BY <1>1 DEF Wait, Stages
  <2>2. QED BY <1>1, <2>1, GotoTyped DEF Wait, SaverTypeOK
<1>2. CASE BeginSave(s)
  BY <1>2, SaverAssumption DEF BeginSave, Saveable, SaverTypeOK, Stages, Critical
<1>3. CASE ListPending(s)
  <2>1. PICK stage \in Stages : Goto(s, stage, pending)
    BY <1>3 DEF ListPending, Stages, Critical
  <2>2. QED BY <1>3, <2>1, GotoTyped DEF ListPending, SaverTypeOK
<1>4. CASE LoadPayloads(s)
  <2>1. PICK stage \in Stages, found \in SUBSET Messages : Goto(s, stage, found)
    BY <1>4 DEF LoadPayloads, Stages, Critical, SaverTypeOK
  <2>2. QED BY <1>4, <2>1, GotoTyped DEF LoadPayloads, SaverTypeOK
<1>5. CASE Insert(s)
  <2>1. /\ Goto(s, "deleting", call[s].batch)
        /\ "deleting" \in Stages
        /\ call[s].batch \in SUBSET Messages
    BY <1>5 DEF Insert, Stages, Critical, SaverTypeOK
  <2>2. QED BY <1>5, <2>1, GotoTyped, InsertedTyped DEF Insert, SaverTypeOK
<1>6. CASE Delete(s)
  <2>1. /\ Goto(s, "deleted", call[s].batch)
        /\ "deleted" \in Stages
        /\ call[s].batch \in SUBSET Messages
    BY <1>6 DEF Delete, Stages, Critical, SaverTypeOK
  <2>2. QED BY <1>6, <2>1, GotoTyped DEF Delete, SaverTypeOK
<1>7. CASE Completes(s)
  BY <1>7, LeaveTyped DEF Completes, SkipClean, FindNothing, MarkClean, SaverTypeOK
<1>8. CASE Raises(s)
  BY <1>8, LeaveTyped, InsertedTyped, FaultTyped
     DEF Raises, ReadFails, InsertRejected, InsertFails, DeleteFails, SaverTypeOK
<1>9. CASE Cancelled(s)
  BY <1>9, LeaveTyped, InsertedTyped DEF Cancelled, SaverTypeOK
<1>10. QED
  BY <1>1, <1>2, <1>3, <1>4, <1>5, <1>6, <1>7, <1>8, <1>9 DEF SaveStep, Proceeds

\* Nor does a step of the rooms, or a restart.
LEMMA OtherStepTyped ==
  ASSUME SaverTypeOK, RoomStep \/ Restart
  PROVE  SaverTypeOK'
<1> USE DEF storeVars, roomVars, callVars, histVars
<1>1. ASSUME NEW r \in Rooms, NEW m \in Messages, AppendPending(r, m)
      PROVE  SaverTypeOK'
  BY <1>1 DEF AppendPending, SaverTypeOK
<1>2. ASSUME NEW m \in Messages, MarkDirty(m)
      PROVE  SaverTypeOK'
  BY <1>2 DEF MarkDirty, SaverTypeOK
<1>3. ASSUME NEW m \in Messages, AppendFails(m)
      PROVE  SaverTypeOK'
  BY <1>3, FaultTyped DEF AppendFails, SaverTypeOK
<1>4. ASSUME NEW r \in Rooms, RegisterRoom(r)
      PROVE  SaverTypeOK'
  BY <1>4 DEF RegisterRoom, SaverTypeOK
<1>5. CASE RemoveRoom
  BY <1>5 DEF RemoveRoom, SaverTypeOK
<1>6. CASE ClearRoom
  BY <1>6 DEF ClearRoom, SaverTypeOK
<1>7. CASE ClearFails
  BY <1>7, FaultTyped DEF ClearFails, SaverTypeOK
<1>8. CASE Restart
  BY <1>8, FaultTyped DEF Restart, SaverTypeOK, Idle, Stages, Critical
<1>9. QED
  BY <1>1, <1>2, <1>3, <1>4, <1>5, <1>6, <1>7, <1>8 DEF RoomStep

\* Type correctness of every reachable state of the saver and the stores.
THEOREM SaverTypeCorrect == SaverSpec => []SaverTypeOK
<1>1. SaverTypeOK /\ [SaverNext]_saverVars => SaverTypeOK'
  <2> SUFFICES ASSUME SaverTypeOK, [SaverNext]_saverVars
               PROVE  SaverTypeOK'
    OBVIOUS
  <2>1. CASE UNCHANGED saverVars
    BY <2>1 DEF saverVars, storeVars, roomVars, callVars, histVars, SaverTypeOK
  <2>2. QED
    BY <2>1, SaveStepTyped, OtherStepTyped DEF SaverNext
<1>2. QED
  BY InitTyped, <1>1, PTL DEF SaverSpec

-----------------------------------------------------------------------------
(* The inductive invariant.                                                *)

\* The inductive invariant holds when the process starts: no call is running
\* and nothing has been accepted.
LEMMA InitInv == SaverInit => SaverInv
  BY InitTyped, SaverAssumption
     DEF SaverInit, SaverInv, LockInv, BatchInv, TraceInv, RowInv, SaverTypeOK,
         Critical, Idle, Stored

\* Entering, staying in and leaving the critical section.
LEMMA SaveStepLock ==
  ASSUME SaverInv, NEW s \in Savers, SaveStep(s)
  PROVE  LockInv'
<1> USE SaverAssumption DEF SaverInv, LockInv, SaverTypeOK, Critical
<1>1. CASE Wait(s)
  BY <1>1 DEF Wait, Goto
<1>2. CASE BeginSave(s)
  BY <1>2 DEF BeginSave, CanAcquire
<1>3. CASE ListPending(s)
  BY <1>3 DEF ListPending, Goto
<1>4. CASE LoadPayloads(s)
  BY <1>4 DEF LoadPayloads, Goto
<1>5. CASE Insert(s)
  BY <1>5 DEF Insert, Goto
<1>6. CASE Delete(s)
  BY <1>6 DEF Delete, Goto
<1>7. ASSUME Leave(s) PROVE LockInv'
  BY <1>7 DEF Leave, Idle
<1>8. CASE Completes(s) \/ Raises(s) \/ Cancelled(s)
  BY <1>7, <1>8
     DEF Completes, SkipClean, FindNothing, MarkClean, Raises, ReadFails,
         InsertRejected, InsertFails, DeleteFails, Cancelled
<1>9. QED
  BY <1>1, <1>2, <1>3, <1>4, <1>5, <1>6, <1>8 DEF SaveStep, Proceeds

\* An insert leaves one row for each message of its batch, and every row
\* that was there.
LEMMA InsertedStores ==
  ASSUME SaverTypeOK, RowInv, NEW msgs \in SUBSET Messages, rows' = Inserted(msgs)
  PROVE  /\ RowInv'
         /\ Stored' = Stored \union msgs
  BY DEF SaverTypeOK, RowInv, Inserted, Stored

\* Whatever a call does to the stores, it removes nothing that is not stored.
LEMMA SaveStepStores ==
  ASSUME SaverInv, NEW s \in Savers, SaveStep(s)
  PROVE  /\ RowInv'
         /\ Stored \subseteq Stored'
         /\ pending' \subseteq pending
         /\ pending \ pending' \subseteq Stored
         /\ UNCHANGED <<accepted, wiped, sending>>
<1> USE DEF SaverInv, storeVars, roomVars, histVars
<1>1. call[s].batch \in SUBSET Messages
  BY DEF SaverTypeOK
<1>2. CASE rows' = Inserted(call[s].batch) /\ UNCHANGED <<pending, accepted, wiped, sending>>
  BY <1>1, <1>2, InsertedStores
<1>3. CASE /\ call[s].pc = "deleting"
           /\ pending' \in {pending, pending \ call[s].batch}
           /\ UNCHANGED <<rows, accepted, wiped, sending>>
  BY <1>3 DEF RowInv, BatchInv, Stored
<1>4. CASE UNCHANGED <<rows, pending, accepted, wiped, sending>>
  BY <1>4 DEF RowInv, Stored
<1>5. CASE Proceeds(s)
  BY <1>2, <1>3, <1>4, <1>5
     DEF Proceeds, Wait, BeginSave, ListPending, LoadPayloads, Insert, Delete
<1>6. CASE Completes(s)
  BY <1>4, <1>6 DEF Completes, SkipClean, FindNothing, MarkClean
<1>7. CASE Raises(s)
  BY <1>2, <1>3, <1>4, <1>7
     DEF Raises, ReadFails, InsertRejected, InsertFails, DeleteFails
<1>8. CASE Cancelled(s)
  BY <1>2, <1>3, <1>4, <1>8 DEF Cancelled
<1>9. QED BY <1>5, <1>6, <1>7, <1>8 DEF SaveStep

\* The batch of every call stays in step with the stores.
LEMMA SaveStepBatch ==
  ASSUME SaverInv, NEW s \in Savers, SaveStep(s)
  PROVE  BatchInv'
<1> USE DEF SaverInv, BatchInv
<1>1. Stored \subseteq Stored' /\ pending' \subseteq pending
  BY SaveStepStores
<1>2. call \in [Savers -> [pc : Stages, room : Rooms \union {NoRoom}, batch : SUBSET Messages]]
  BY DEF SaverTypeOK
<1>3. ASSUME NEW t \in Savers, t # s
      PROVE  call'[t] = call[t]
  <2>1. CASE Proceeds(s)
    BY <1>2, <1>3, <2>1
       DEF Proceeds, Wait, BeginSave, ListPending, LoadPayloads, Insert, Delete, Goto
  <2>2. CASE Completes(s) \/ Raises(s) \/ Cancelled(s)
    BY <1>2, <1>3, <2>2
       DEF Completes, SkipClean, FindNothing, MarkClean, Raises, ReadFails,
           InsertRejected, InsertFails, DeleteFails, Cancelled, Leave
  <2>3. QED BY <2>1, <2>2 DEF SaveStep
<1>4. /\ call'[s].pc \in {"deleting", "deleted"} => call'[s].batch \subseteq Stored'
      /\ call'[s].pc = "deleted" => call'[s].batch \intersect pending' = {}
  <2>1. CASE Insert(s)
    <3>1. Stored' = Stored \union call[s].batch
      BY <1>2, <2>1, InsertedStores DEF Insert
    <3>2. QED BY <1>2, <2>1, <3>1 DEF Insert, Goto
  <2>2. CASE Delete(s)
    BY <1>1, <1>2, <2>2 DEF Delete, Goto
  <2>3. CASE Wait(s) \/ BeginSave(s) \/ ListPending(s) \/ LoadPayloads(s)
    BY <1>2, <2>3 DEF Wait, BeginSave, ListPending, LoadPayloads, Goto
  <2>4. CASE Completes(s) \/ Raises(s) \/ Cancelled(s)
    BY <1>2, <2>4
       DEF Completes, SkipClean, FindNothing, MarkClean, Raises, ReadFails,
           InsertRejected, InsertFails, DeleteFails, Cancelled, Leave, Idle
  <2>5. QED BY <2>1, <2>2, <2>3, <2>4 DEF SaveStep, Proceeds
<1>5. QED BY <1>1, <1>3, <1>4

\* Every step of a call of save_if_dirty preserves the inductive invariant.
LEMMA SaveStepInv ==
  ASSUME SaverInv, NEW s \in Savers, SaveStep(s)
  PROVE  SaverInv'
<1>1. SaverTypeOK' /\ LockInv' /\ BatchInv'
  BY SaveStepTyped, SaveStepLock, SaveStepBatch DEF SaverInv
<1>2. RowInv' /\ TraceInv'
  BY SaveStepStores DEF SaverInv, TraceInv
<1>3. QED BY <1>1, <1>2 DEF SaverInv

\* A step of the rooms touches neither the lock nor the rows; it takes
\* messages out of Redis only into `wiped`.
LEMMA RoomStepInv ==
  ASSUME SaverInv, RoomStep
  PROVE  SaverInv'
<1> USE DEF SaverInv, storeVars, roomVars, callVars, histVars
<1>1. SaverTypeOK'
  BY OtherStepTyped
<1>2. LockInv' /\ RowInv'
  <2>1. UNCHANGED <<rows, lock, call>>
    BY DEF RoomStep, AppendPending, MarkDirty, AppendFails, RegisterRoom, RemoveRoom,
           ClearRoom, ClearFails
  <2>2. QED BY <2>1 DEF LockInv, RowInv
<1>3. BatchInv' /\ TraceInv'
  <2>1. ASSUME NEW r \in Rooms, NEW m \in Messages, AppendPending(r, m)
        PROVE  BatchInv' /\ TraceInv'
    <3>1. m \notin Stored
      BY <2>1 DEF AppendPending, Fresh, Stored
    <3>2. BatchInv'
      BY <2>1, <3>1 DEF AppendPending, BatchInv, Stored
    <3>3. TraceInv'
      BY <2>1 DEF AppendPending, TraceInv, Stored, SaverTypeOK
    <3>4. QED BY <3>2, <3>3
  <2>2. ASSUME NEW m \in Messages, MarkDirty(m) \/ AppendFails(m)
        PROVE  BatchInv' /\ TraceInv'
    BY <2>2 DEF MarkDirty, AppendFails, BatchInv, TraceInv, Stored, SaverTypeOK
  <2>3. CASE (\E r \in Rooms : RegisterRoom(r)) \/ RemoveRoom
    BY <2>3 DEF RegisterRoom, RemoveRoom, BatchInv, TraceInv, Stored
  <2>4. CASE ClearRoom \/ ClearFails
    BY <2>4 DEF ClearRoom, ClearFails, BatchInv, TraceInv, Stored, SaverTypeOK
  <2>5. QED BY <2>1, <2>2, <2>3, <2>4 DEF RoomStep
<1>4. QED BY <1>1, <1>2, <1>3

\* A restart keeps the stores and forgets every call.
LEMMA RestartInv ==
  ASSUME SaverInv, Restart
  PROVE  SaverInv'
<1> USE DEF SaverInv, storeVars, histVars
<1>1. SaverTypeOK'
  BY OtherStepTyped
<1>2. LockInv' /\ BatchInv'
  BY SaverAssumption DEF Restart, LockInv, BatchInv, Idle, Critical
<1>3. TraceInv' /\ RowInv'
  BY DEF Restart, TraceInv, RowInv, Stored
<1>4. QED BY <1>1, <1>2, <1>3

\* The inductive invariant holds in every reachable state.
LEMMA SaverInductive == SaverSpec => []SaverInv
<1>1. SaverInv /\ [SaverNext]_saverVars => SaverInv'
  <2> SUFFICES ASSUME SaverInv, [SaverNext]_saverVars
               PROVE  SaverInv'
    OBVIOUS
  <2>1. CASE UNCHANGED saverVars
    BY <2>1 DEF saverVars, storeVars, roomVars, callVars, histVars, SaverInv,
       SaverTypeOK, LockInv, BatchInv, TraceInv, RowInv, Stored
  <2>2. QED
    BY <2>1, SaveStepInv, RoomStepInv, RestartInv DEF SaverNext
<1>2. QED
  BY InitInv, <1>1, PTL DEF SaverSpec

-----------------------------------------------------------------------------
(* The safety properties, for every value of the constants.                *)

\* Mutual exclusion of the calls of save_if_dirty for the chat.
THEOREM SaverMutualExclusion == SaverSpec => []SaveMutex
<1>1. SaverInv => SaveMutex
  BY DEF SaverInv, LockInv, SaveMutex
<1>2. QED BY SaverInductive, <1>1, PTL

\* No retry, crash or pair of racing saves stores a message twice.
THEOREM SaverStoresOnce == SaverSpec => []StoredAtMostOnce
<1>1. SaverInv => StoredAtMostOnce
  BY DEF SaverInv, RowInv, StoredAtMostOnce
<1>2. QED BY SaverInductive, <1>1, PTL

\* Accepted messages are pending, stored, or were deleted by clear_room.
THEOREM SaverLosesOnlyByClearing == SaverSpec => []LossOnlyByClearing
<1>1. SaverInv => LossOnlyByClearing
  BY DEF SaverInv, TraceInv, LossOnlyByClearing
<1>2. QED BY SaverInductive, <1>1, PTL

\* A room is marked clean only when what the save read is out of Redis and
\* in PostgreSQL.
THEOREM SaverCleansAfterSaving == SaverSpec => []CleanMeansSaved
<1>1. SaverInv => CleanMeansSaved
  BY DEF SaverInv, BatchInv, CleanMeansSaved
<1>2. QED BY SaverInductive, <1>1, PTL

-----------------------------------------------------------------------------
(* ChatRoomSaver implements MessageDurability: every step of the saver,    *)
(* the rooms and the stores is a step or a stutter of the promise.         *)

\* What a save is about to insert was pending when it was read.
ReadInv ==
    \A s \in Savers : call[s].pc = "inserting" =>
        call[s].batch \subseteq pending \union wiped \union Stored

\* While s is inserting, the messages being saved are its batch: the lock
\* keeps every other call out.
LEMMA SavingIsBatch ==
  ASSUME SaverInv, NEW s \in Savers, call[s].pc = "inserting"
  PROVE  Saving = call[s].batch
  BY DEF SaverInv, SaverTypeOK, LockInv, Critical, Saving

\* A step of s outside "inserting" and not into it leaves Saving alone.
LEMMA OthersSaving ==
  ASSUME SaverInv, NEW s \in Savers, NEW c,
         call' = [call EXCEPT ![s] = c],
         call[s].pc # "inserting", c.pc # "inserting"
  PROVE  Saving' = Saving
  BY DEF SaverInv, SaverTypeOK, Saving

\* After s has left "inserting" nothing is being saved.
LEMMA NothingSaving ==
  ASSUME SaverInv, NEW s \in Savers, NEW c,
         call' = [call EXCEPT ![s] = c],
         call[s].pc = "inserting", c.pc # "inserting"
  PROVE  Saving' = {}
  BY DEF SaverInv, SaverTypeOK, LockInv, Critical, Saving

\* When the process starts no call has read anything.
LEMMA ReadInitially == SaverInit => ReadInv
  BY DEF SaverInit, ReadInv, Idle

\* What an inserting call has read stays pending, stored or wiped, whichever
\* step is taken.
LEMMA ReadInductive ==
  ASSUME SaverInv, ReadInv, [SaverNext]_saverVars
  PROVE  ReadInv'
<1> USE DEF SaverInv, ReadInv, storeVars, roomVars, callVars, histVars
<1>1. call \in [Savers -> [pc : Stages, room : Rooms \union {NoRoom}, batch : SUBSET Messages]]
  BY DEF SaverTypeOK
<1>2. CASE UNCHANGED saverVars
  BY <1>2 DEF saverVars, Stored
<1>3. ASSUME NEW s \in Savers, SaveStep(s)
      PROVE  ReadInv'
  <2>1. pending \union wiped \union Stored \subseteq (pending \union wiped \union Stored)'
    BY <1>3, SaveStepStores
  <2>2. CASE LoadPayloads(s)
    BY <1>1, <2>1, <2>2 DEF LoadPayloads, Goto
  <2>3. CASE Wait(s) \/ BeginSave(s) \/ ListPending(s) \/ Insert(s) \/ Delete(s)
    BY <1>1, <2>1, <2>3 DEF Wait, BeginSave, ListPending, Insert, Delete, Goto
  <2>4. CASE Completes(s) \/ Raises(s) \/ Cancelled(s)
    BY <1>1, <2>1, <2>4
       DEF Completes, SkipClean, FindNothing, MarkClean, Raises, ReadFails,
           InsertRejected, InsertFails, DeleteFails, Cancelled, Leave, Idle
  <2>5. QED BY <1>3, <2>2, <2>3, <2>4 DEF SaveStep, Proceeds
<1>4. CASE RoomStep
  BY <1>4 DEF RoomStep, AppendPending, MarkDirty, AppendFails, RegisterRoom, RemoveRoom,
              ClearRoom, ClearFails, Stored
<1>5. CASE Restart
  BY <1>5 DEF Restart, Idle
<1>6. QED BY <1>2, <1>3, <1>4, <1>5 DEF SaverNext

-----------------------------------------------------------------------------
(* The ways a step can change the stores, each a step of the promise.      *)

\* Removing stored messages from Redis changes nothing.
LEMMA TrimIsStutter ==
  ASSUME SaverInv, UNCHANGED <<rows, wiped>>, Saving' = Saving,
         pending' \subseteq pending, pending \ pending' \subseteq Stored
  PROVE  UNCHANGED Durability!vars
  BY DEF Durability!vars, Stored

\* A save that inserts its batch stores the part that was not stored yet.
LEMMA InsertIsStore ==
  ASSUME SaverInv, ReadInv, NEW s \in Savers, call[s].pc = "inserting",
         rows' = Inserted(call[s].batch), UNCHANGED <<pending, wiped>>, Saving' = {}
  PROVE  Durability!Next
<1> DEFINE batch == call[s].batch \ Stored
<1>1. call[s].batch \in SUBSET Messages
  BY DEF SaverInv, SaverTypeOK
<1>2. Stored' = Stored \union call[s].batch
  BY <1>1, InsertedStores DEF SaverInv
<1>3. Saving = call[s].batch
  BY SavingIsBatch
<1>4. call[s].batch \subseteq pending \union wiped \union Stored
  BY DEF ReadInv
<1>5. batch \in SUBSET ((pending \ Stored) \union ((wiped \intersect Saving) \ (pending \union Stored)))
  BY <1>3, <1>4
<1>6. Durability!Store(batch)
  BY <1>2, <1>3 DEF Durability!Store
<1>7. QED BY <1>5, <1>6 DEF Durability!Next

\* A save that ends, or dies, without storing gives up the orphans.
LEMMA EndIsGiveUp ==
  ASSUME UNCHANGED <<rows, pending, wiped>>, Saving' = {}
  PROVE  Durability!Next
<1>1. Durability!GiveUp
  BY DEF Durability!GiveUp, Stored
<1>2. QED BY <1>1 DEF Durability!Next

\* clear_room closes: it orphans what is being saved and loses the rest.
LEMMA ClearIsClose ==
  ASSUME wiped' = wiped \union pending, pending' = {}, rows' = rows, Saving' = Saving
  PROVE  Durability!Next
<1> DEFINE saved == (pending \ Stored) \intersect Saving
<1>1. Durability!Close(saved)
  BY DEF Durability!Close, Stored
<1>2. saved \in SUBSET (pending \ Stored)
  OBVIOUS
<1>3. QED BY <1>1, <1>2 DEF Durability!Next

-----------------------------------------------------------------------------
(* The steps.                                                              *)

\* The calls that end: by return, by exception or by cancellation.
LEMMA EndOfCall ==
  ASSUME SaverInv, ReadInv, NEW s \in Savers,
         Completes(s) \/ Raises(s) \/ Cancelled(s)
  PROVE  Durability!Next \/ UNCHANGED Durability!vars
<1> USE DEF storeVars, roomVars, histVars
<1>1. Leave(s) /\ wiped' = wiped
  BY DEF Completes, SkipClean, FindNothing, MarkClean, Raises, ReadFails,
         InsertRejected, InsertFails, DeleteFails, Cancelled
<1>2. call' = [call EXCEPT ![s] = Idle] /\ Idle.pc # "inserting"
  BY <1>1 DEF Leave, Idle
<1>3. CASE call[s].pc = "inserting"
  <2>1. Saving' = {}
    BY <1>2, <1>3, NothingSaving
  <2>2. pending' = pending /\ (rows' = rows \/ rows' = Inserted(call[s].batch))
    BY <1>3 DEF Completes, SkipClean, CanAcquire, FindNothing, MarkClean, Raises,
                ReadFails, InsertRejected, InsertFails, DeleteFails, Cancelled
  <2>3. QED
    BY <1>1, <1>3, <2>1, <2>2, InsertIsStore, EndIsGiveUp
<1>4. CASE call[s].pc # "inserting"
  <2>1. Saving' = Saving
    BY <1>2, <1>4, OthersSaving
  <2>2. rows' = rows
    BY <1>4 DEF Completes, SkipClean, FindNothing, MarkClean, Raises,
                ReadFails, InsertRejected, InsertFails, DeleteFails, Cancelled
  <2>3. pending' \subseteq pending /\ pending \ pending' \subseteq Stored
    BY SaveStepStores DEF SaveStep
  <2>4. QED
    BY <1>1, <2>1, <2>2, <2>3, TrimIsStutter
<1>5. QED BY <1>3, <1>4

\* The calls that go on.
LEMMA CallGoesOn ==
  ASSUME SaverInv, ReadInv, NEW s \in Savers, Proceeds(s)
  PROVE  Durability!Next \/ UNCHANGED Durability!vars
<1> USE DEF storeVars, roomVars, histVars
<1>1. call \in [Savers -> [pc : Stages, room : Rooms \union {NoRoom}, batch : SUBSET Messages]]
  BY DEF SaverInv, SaverTypeOK
<1>2. CASE Wait(s) \/ BeginSave(s) \/ ListPending(s) \/ Delete(s)
  <2>1. Saving' = Saving
    <3>1. PICK c : call' = [call EXCEPT ![s] = c] /\ c.pc # "inserting"
      BY <1>1, <1>2 DEF Wait, BeginSave, ListPending, Delete, Goto
    <3>2. call[s].pc # "inserting"
      BY <1>2 DEF Wait, BeginSave, CanAcquire, ListPending, Delete
    <3>3. QED BY <3>1, <3>2, OthersSaving
  <2>2. UNCHANGED <<rows, wiped>>
    BY <1>2 DEF Wait, BeginSave, ListPending, Delete
  <2>3. pending' \subseteq pending /\ pending \ pending' \subseteq Stored
    BY SaveStepStores DEF SaveStep
  <2>4. QED
    BY <2>1, <2>2, <2>3, TrimIsStutter
<1>3. CASE LoadPayloads(s)
  <2>1. UNCHANGED <<rows, pending, wiped>>
    BY <1>3 DEF LoadPayloads
  <2>2. Saving \subseteq Saving' /\ Saving' \ Saving \subseteq pending
    BY <1>1, <1>3 DEF LoadPayloads, Goto, Saving
  <2>3. QED
    BY <2>1, <2>2 DEF Durability!vars, Stored
<1>4. CASE Insert(s)
  <2> DEFINE c == [call[s] EXCEPT !.pc = "deleting"]
  <2>1. call' = [call EXCEPT ![s] = c] /\ c.pc # "inserting"
    BY <1>1, <1>4 DEF Insert, Goto
  <2>2. Saving' = {}
    BY <1>4, <2>1, NothingSaving DEF Insert
  <2>3. QED
    BY <1>4, <2>2, InsertIsStore DEF Insert
<1>5. QED BY <1>2, <1>3, <1>4 DEF Proceeds

\* The rooms and the lifecycle handler.
LEMMA RoomStepPromise ==
  ASSUME SaverInv, RoomStep
  PROVE  Durability!Next \/ UNCHANGED Durability!vars
<1> USE DEF storeVars, roomVars, callVars, histVars
<1>1. Saving' = Saving
  BY DEF RoomStep, AppendPending, MarkDirty, AppendFails, RegisterRoom, RemoveRoom,
         ClearRoom, ClearFails, Saving
<1>2. ASSUME NEW r \in Rooms, NEW m \in Messages, AppendPending(r, m)
      PROVE  Durability!Next
  <2>1. /\ m \notin pending \union wiped \union Stored
        /\ pending' = pending \union {m}
        /\ UNCHANGED <<rows, wiped>>
    BY <1>2 DEF AppendPending, Fresh, Stored
  <2>2. Durability!Hold(m)
    BY <1>1, <2>1 DEF Durability!Hold, Stored
  <2>3. QED BY <2>2 DEF Durability!Next
<1>3. CASE ClearRoom
  BY <1>1, <1>3, ClearIsClose DEF ClearRoom
<1>4. CASE ClearFails
  <2>1. CASE UNCHANGED <<pending, wiped>>
    BY <1>1, <1>4, <2>1 DEF ClearFails, Durability!vars, Stored
  <2>2. CASE wiped' = wiped \union pending /\ pending' = {}
    BY <1>1, <1>4, <2>2, ClearIsClose DEF ClearFails
  <2>3. QED BY <1>4, <2>1, <2>2 DEF ClearFails
<1>5. CASE \/ \E m \in Messages : MarkDirty(m) \/ AppendFails(m)
           \/ \E r \in Rooms : RegisterRoom(r)
           \/ RemoveRoom
  BY <1>1, <1>5 DEF MarkDirty, AppendFails, RegisterRoom, RemoveRoom, Durability!vars, Stored
<1>6. QED BY <1>2, <1>3, <1>4, <1>5 DEF RoomStep

\* A restart keeps the promise: it gives up what was being saved.
LEMMA RestartPromise ==
  ASSUME Restart
  PROVE  Durability!Next
<1>1. Saving' = {}
  BY DEF Restart, Saving, Idle
<1>2. UNCHANGED <<rows, pending, wiped>>
  BY DEF Restart, storeVars, histVars
<1>3. QED BY <1>1, <1>2, EndIsGiveUp

\* The saver implements the promise of MessageDurability.
THEOREM SaverImplementsDurability == SaverSpec => KeepsMessageDurability
<1>1. SaverInit => Durability!Init
  BY DEF SaverInit, Durability!Init, Stored, Saving, Idle
<1>2. SaverInv /\ ReadInv /\ [SaverNext]_saverVars => [Durability!Next]_(Durability!vars)
  <2> SUFFICES ASSUME SaverInv, ReadInv, [SaverNext]_saverVars
               PROVE  Durability!Next \/ UNCHANGED Durability!vars
    OBVIOUS
  <2>1. CASE UNCHANGED saverVars
    BY <2>1 DEF saverVars, storeVars, callVars, histVars, Durability!vars, Stored, Saving
  <2>2. ASSUME NEW s \in Savers, SaveStep(s)
        PROVE  Durability!Next \/ UNCHANGED Durability!vars
    BY <2>2, EndOfCall, CallGoesOn DEF SaveStep
  <2>3. QED
    BY <2>1, <2>2, RoomStepPromise, RestartPromise DEF SaverNext
<1>3. SaverSpec => []ReadInv
  <2>1. ReadInv /\ SaverInv /\ [SaverNext]_saverVars => ReadInv'
    BY ReadInductive
  <2>2. QED BY ReadInitially, <2>1, SaverInductive, PTL DEF SaverSpec
<1>4. QED
  BY <1>1, <1>2, <1>3, SaverInductive, PTL DEF SaverSpec, KeepsMessageDurability, Durability!Spec
=============================================================================
