------------------------- MODULE SavePolicies_proofs -------------------------
(***************************************************************************)
(* What debounce, the periodic sweep and stop() guarantee, for any number  *)
(* of watchers, callers, rooms, messages and failures.  The lemmas speak   *)
(* of single steps of the policies and not of PolicyNext, so that they can *)
(* be cited for a system in which other components take the other steps.   *)
(***************************************************************************)
EXTENDS SavePolicies, ChatRoomSaver_proofs

\* Only live tasks are being cancelled, and a live task is tracked, or was
\* cancelled, or has lost its entry to another one.
WatchInv ==
    /\ \A w \in cancelling : watch[w] # "none"
    /\ TrackedWatcherRuns
    /\ \A w \in Watchers : watch[w] # "none" => w = watcher \/ w \in cancelling \union strays

\* Where stop() has come to, nothing starts again.
StopInv ==
    /\ stop.stage = "gathering" => stop.task \in Watchers /\ watcher \in {stop.task, Nobody}
    /\ stop.stage \in {"awaiting", "done"} => watcher = Nobody /\ lastModified = "none"
    /\ stop.stage = "done" => sweep = "ended"

\* The sweep knows whether its task is in the saver.
SweepInv == sweep # "saving" => call[Periodic].pc = "idle"

\* No row was ever inserted whose reply is to no row.
PoisonInv == Dangling \intersect Stored = {}

\* The saver's invariant, with what the policies rely on.
SavingInv == SaverInv /\ ReadInv /\ PoisonInv

PolicyInv ==
    /\ PolicyTypeOK
    /\ WatchInv
    /\ StopInv
    /\ SweepInv
    /\ ModificationIsWatched

\* What the room events do to debounce, while nobody has called stop().
RoomEvent == stop.stage = "no" /\ (RoomModified \/ RoomClosed)

-----------------------------------------------------------------------------
(* The steps of the policies, seen by the saver.                           *)

\* A policy's step is one of the saver's, or none.
LEMMA PolicyStepOfSaver ==
  ASSUME PolicyStep \/ StopStep
  PROVE  \/ \E s \in Watchers \union {Periodic} : SaveStep(s)
         \/ UNCHANGED saverVars
<1> USE DEF SaveStep
<1>1. ASSUME NEW w \in Watchers, WatcherStep(w)
      PROVE  SaveStep(w) \/ UNCHANGED saverVars
  BY <1>1 DEF WatcherStep, StartWatching, WakeIdle, WakeSave, WatcherSaves, WatcherCancelled,
              Proceeds, Completes
<1>2. CASE DelayPasses \/ SweepSpawn
  BY <1>2 DEF DelayPasses, SweepSpawn
<1>3. CASE SweepSaves
  BY <1>3 DEF SweepSaves
<1>4. CASE StopStep
  BY <1>4 DEF StopStep, StopDebounce, StopPeriodic, SweepCancelled
<1> QED
  BY <1>1, <1>2, <1>3, <1>4 DEF PolicyStep

\* A step of one call leaves the others where they are.
LEMMA OthersStay ==
  ASSUME SaverTypeOK, NEW s \in Savers, NEW t \in Savers \ {s}, SaveStep(s)
  PROVE  call'[t] = call[t]
<1>1. CASE Proceeds(s)
  BY <1>1 DEF SaverTypeOK, Proceeds, Wait, BeginSave, ListPending, LoadPayloads, Insert,
              Delete, Goto
<1>2. CASE Completes(s) \/ Raises(s) \/ Cancelled(s)
  BY <1>2 DEF SaverTypeOK, Completes, SkipClean, FindNothing, MarkClean, Raises, ReadFails,
              InsertRejected, InsertFails, DeleteFails, Cancelled, Leave
<1> QED
  BY <1>1, <1>2 DEF SaveStep

\* A call that is over is idle.
LEMMA OverIsIdle ==
  ASSUME SaverTypeOK, NEW s \in Savers, Completes(s) \/ Raises(s) \/ Cancelled(s)
  PROVE  call'[s] = Idle
  BY DEF SaverTypeOK, Completes, SkipClean, FindNothing, MarkClean, Raises, ReadFails,
         InsertRejected, InsertFails, DeleteFails, Cancelled, Leave

\* No step takes back a failure.
LEMMA FaultsGrow ==
  ASSUME SaverTypeOK, [SaverNext]_saverVars
  PROVE  faults' = 0 => faults = 0
<1> USE SaverAssumption DEF Fault, SaverTypeOK
<1>1. ASSUME NEW s \in Savers, SaveStep(s)
      PROVE  faults' = 0 => faults = 0
  BY <1>1 DEF SaveStep, Proceeds, Wait, BeginSave, ListPending, LoadPayloads, Insert, Delete,
     Completes, SkipClean, FindNothing, MarkClean, Raises, ReadFails, InsertRejected,
     InsertFails, DeleteFails, Cancelled
<1>2. CASE RoomStep
  BY <1>2 DEF RoomStep, AppendPending, MarkDirty, AppendFails, RegisterRoom, RemoveRoom,
     ClearRoom, ClearFails
<1>3. CASE Restart
  BY <1>3 DEF Restart
<1>4. CASE UNCHANGED saverVars
  BY <1>4 DEF saverVars
<1> QED
  BY <1>1, <1>2, <1>3, <1>4 DEF SaverNext

\* No step stores a message whose reply is to no row.
LEMMA DanglingNeverStored ==
  ASSUME SaverInv, PoisonInv, [SaverNext]_saverVars
  PROVE  PoisonInv'
<1> USE DEF SaverInv, PoisonInv, storeVars, roomVars, histVars
<1>1. ASSUME UNCHANGED rows
      PROVE  PoisonInv'
  BY <1>1 DEF Stored
<1>2. ASSUME NEW s \in Savers, rows' = Inserted(call[s].batch),
             call[s].batch \intersect Dangling = {}
      PROVE  PoisonInv'
  <2>1. call[s].batch \in SUBSET Messages
    BY DEF SaverTypeOK
  <2>2. Stored' = Stored \union call[s].batch
    BY <1>2, <2>1, InsertedStores
  <2> QED
    BY <1>2, <2>2
<1>3. ASSUME NEW s \in Savers, SaveStep(s)
      PROVE  PoisonInv'
  <2>1. CASE Proceeds(s)
    BY <1>1, <1>2, <2>1
       DEF Proceeds, Wait, BeginSave, ListPending, LoadPayloads, Insert, Delete
  <2>2. CASE Completes(s) \/ Raises(s) \/ Cancelled(s)
    BY <1>1, <1>2, <2>2
       DEF Completes, SkipClean, FindNothing, MarkClean, Raises, ReadFails,
           InsertRejected, InsertFails, DeleteFails, Cancelled
  <2> QED
    BY <1>3, <2>1, <2>2 DEF SaveStep
<1>4. CASE RoomStep
  BY <1>1, <1>4 DEF RoomStep, AppendPending, MarkDirty, AppendFails, RegisterRoom, RemoveRoom,
     ClearRoom, ClearFails
<1>5. CASE Restart
  BY <1>1, <1>5 DEF Restart
<1>6. CASE UNCHANGED saverVars
  BY <1>1, <1>6 DEF saverVars
<1> QED
  BY <1>3, <1>4, <1>5, <1>6 DEF SaverNext

\* Such a message stays in Redis until a clear_room deletes it.
LEMMA PoisonStays ==
  ASSUME SaverInv, PoisonInv, [SaverNext]_saverVars, Poisoned
  PROVE  Poisoned'
<1> USE DEF Poisoned, storeVars, roomVars, histVars
<1>1. ASSUME NEW s \in Savers, SaveStep(s)
      PROVE  Poisoned'
  <2>1. pending \ pending' \subseteq Stored /\ wiped' = wiped
    BY <1>1, SaveStepStores
  <2> QED
    BY <2>1 DEF PoisonInv
<1>2. CASE RoomStep
  BY <1>2 DEF RoomStep, AppendPending, MarkDirty, AppendFails, RegisterRoom, RemoveRoom,
     ClearRoom, ClearFails
<1>3. CASE Restart
  BY <1>3 DEF Restart
<1>4. CASE UNCHANGED saverVars
  BY <1>4 DEF saverVars
<1> QED
  BY <1>1, <1>2, <1>3, <1>4 DEF SaverNext

\* A call raises for a failure, or for such a message.
LEMMA RaisesForReason ==
  ASSUME SavingInv, NEW s \in Savers, Raises(s)
  PROVE  faults' # 0 \/ Poisoned'
<1> USE DEF SavingInv, SaverInv
<1>1. CASE InsertRejected(s)
  <2>1. call[s].batch \subseteq pending \union wiped \union Stored
    BY <1>1 DEF InsertRejected, ReadInv
  <2>2. Poisoned
    BY <1>1, <2>1 DEF InsertRejected, PoisonInv, Poisoned
  <2> QED
    BY <1>1, <2>2 DEF InsertRejected, Poisoned, storeVars, histVars
<1>2. CASE ReadFails(s) \/ InsertFails(s) \/ DeleteFails(s)
  BY <1>2, SaverAssumption DEF ReadFails, InsertFails, DeleteFails, Fault, SaverTypeOK
<1> QED
  BY <1>1, <1>2 DEF Raises

\* What the policies rely on is kept by every step of the saver's world.
LEMMA SavingStep ==
  ASSUME SavingInv, [SaverNext]_saverVars
  PROVE  SavingInv'
<1>1. SaverInv'
  <2>1. CASE UNCHANGED saverVars
    BY <2>1 DEF saverVars, storeVars, roomVars, callVars, histVars, SavingInv, SaverInv,
       SaverTypeOK, LockInv, BatchInv, TraceInv, RowInv, Stored
  <2> QED
    BY <2>1, SaveStepInv, RoomStepInv, RestartInv DEF SaverNext, SavingInv
<1> QED
  BY <1>1, ReadInductive, DanglingNeverStored DEF SavingInv

-----------------------------------------------------------------------------
(* The steps of the policies, on what the policies keep.                   *)

\* Nothing of a policy is left over when its process starts.
LEMMA PolicyInitially ==
  ASSUME SaverInit, PolicyInit
  PROVE  PolicyInv
<1> USE PolicyAssumption, SaverAssumption DEF SaverInit, PolicyInit, Running, Idle
<1>1. PolicyTypeOK
  BY DEF PolicyTypeOK
<1>2. WatchInv /\ StopInv /\ SweepInv /\ ModificationIsWatched
  BY DEF WatchInv, TrackedWatcherRuns, StopInv, SweepInv, ModificationIsWatched
<1> QED
  BY <1>1, <1>2 DEF PolicyInv

\* A watcher's step.
LEMMA WatcherKeepsWatch ==
  ASSUME PolicyTypeOK, WatchInv, StopInv, NEW w \in Watchers, WatcherStep(w)
  PROVE  PolicyTypeOK' /\ WatchInv' /\ StopInv'
<1> USE SaverAssumption, PolicyAssumption
    DEF PolicyTypeOK, WatchInv, TrackedWatcherRuns, StopInv, watchVars
<1>1. CASE StartWatching(w)
  BY <1>1 DEF StartWatching
<1>2. CASE WakeIdle(w)
  BY <1>2 DEF WakeIdle, EndWatch
<1>3. CASE WakeSave(w)
  BY <1>3 DEF WakeSave, EndWatch
<1>4. CASE WatcherSaves(w)
  BY <1>4 DEF WatcherSaves, EndWatch
<1>5. CASE WatcherCancelled(w)
  BY <1>5 DEF WatcherCancelled, EndWatch
<1> QED
  BY <1>1, <1>2, <1>3, <1>4, <1>5 DEF WatcherStep

\* Every other step of the policies, a room event, or a restart.
LEMMA PolicyKeepsWatch ==
  ASSUME PolicyTypeOK, WatchInv, StopInv,
         \/ PolicyStep \/ StopStep
         \/ RoomEvent
         \/ PolicyRestart
         \/ UNCHANGED policyVars
  PROVE  PolicyTypeOK' /\ WatchInv' /\ StopInv'
<1> USE SaverAssumption, PolicyAssumption
    DEF PolicyTypeOK, WatchInv, TrackedWatcherRuns, StopInv, watchVars
<1>1. CASE DelayPasses \/ SweepSpawn \/ SweepSaves
  BY <1>1 DEF DelayPasses, SweepSpawn, SweepSaves
<1>2. CASE StopDebounce
  BY <1>2 DEF StopDebounce
<1>3. CASE StopPeriodic
  BY <1>3 DEF StopPeriodic
<1>4. CASE SweepCancelled
  BY <1>4 DEF SweepCancelled
<1>5. CASE RoomEvent
  BY <1>5 DEF RoomEvent, RoomModified, RoomClosed
<1>6. CASE PolicyRestart
  BY <1>6 DEF PolicyRestart, Running
<1>7. CASE UNCHANGED policyVars
  BY <1>7 DEF policyVars
<1> QED
  BY <1>1, <1>2, <1>3, <1>4, <1>5, <1>6, <1>7, WatcherKeepsWatch DEF PolicyStep, StopStep

\* The sweep's task is in the saver exactly while the sweep says so.
LEMMA PolicyKeepsSweep ==
  ASSUME SaverTypeOK, SweepInv, PolicyStep \/ StopStep
  PROVE  SweepInv'
<1> USE PolicyAssumption DEF SweepInv
<1>1. ASSUME NEW w \in Watchers, WatcherStep(w)
      PROVE  SweepInv'
  <2>1. w \in Savers /\ w # Periodic /\ sweep' = sweep
    BY <1>1 DEF WatcherStep, StartWatching, WakeIdle, WakeSave, WatcherSaves, WatcherCancelled
  <2>2. SaveStep(w) \/ UNCHANGED saverVars
    BY <1>1 DEF WatcherStep, StartWatching, WakeIdle, WakeSave, WatcherSaves,
                WatcherCancelled, SaveStep, Proceeds, Completes
  <2>3. call'[Periodic] = call[Periodic]
    BY <2>1, <2>2, OthersStay DEF saverVars, callVars
  <2> QED
    BY <2>1, <2>3
<1>2. CASE DelayPasses \/ SweepSpawn
  BY <1>2 DEF DelayPasses, SweepSpawn, saverVars, callVars
<1>3. CASE SweepSaves
  BY <1>3, OverIsIdle DEF SweepSaves, Idle
<1>4. CASE StopDebounce \/ StopPeriodic
  BY <1>4 DEF StopDebounce, StopPeriodic, saverVars, callVars
<1>5. CASE SweepCancelled
  BY <1>5, OverIsIdle DEF SweepCancelled, Idle, saverVars, callVars
<1> QED
  BY <1>1, <1>2, <1>3, <1>4, <1>5 DEF PolicyStep, StopStep

Watched == \E w \in Watchers : watch[w] # "none" /\ w \notin cancelling

\* Debounce forgets a watcher's modification only when it was saved, unless
\* the save failed.
LEMMA WatcherKeepsModification ==
  ASSUME SavingInv, PolicyTypeOK, NEW w \in Watchers, WatcherStep(w), Watched
  PROVE  Watched' \/ lastModified' = "none" \/ faults' # 0 \/ Poisoned'
<1> USE PolicyAssumption DEF PolicyTypeOK, Watched
<1>1. CASE StartWatching(w)
  BY <1>1 DEF StartWatching
<1>2. CASE WakeIdle(w)
  BY <1>2 DEF WakeIdle
<1>3. CASE WakeSave(w)
  BY <1>3 DEF WakeSave
<1>4. CASE WatcherSaves(w)
  BY <1>4, RaisesForReason DEF WatcherSaves
<1>5. CASE WatcherCancelled(w)
  BY <1>5 DEF WatcherCancelled, EndWatch
<1> QED
  BY <1>1, <1>2, <1>3, <1>4, <1>5 DEF WatcherStep

\* ModificationIsWatched is kept by each step of the policies and of the
\* rooms, whatever the saver does in it.
LEMMA ModificationKept ==
  ASSUME SavingInv, PolicyInv, [SaverNext]_saverVars,
         \/ PolicyStep \/ StopStep
         \/ RoomEvent
         \/ PolicyRestart
         \/ UNCHANGED policyVars
  PROVE  ModificationIsWatched'
<1> SUFFICES ASSUME lastModified' # "none", faults' = 0, ~Poisoned', stop.stage' # "gathering"
             PROVE  Watched'
  BY DEF ModificationIsWatched, Watched
<1>1. faults = 0 /\ ~Poisoned
  BY FaultsGrow, PoisonStays DEF SavingInv, SaverInv
<1>2. lastModified # "none" /\ stop.stage # "gathering" => Watched
  BY <1>1 DEF PolicyInv, ModificationIsWatched, Watched
<1>3. ASSUME NEW w \in Watchers, WatcherStep(w)
      PROVE  Watched'
  <2>1. lastModified # "none" /\ stop' = stop
    BY <1>3 DEF WatcherStep, StartWatching, WakeIdle, WakeSave, WatcherSaves,
                WatcherCancelled
  <2> QED
    BY <1>2, <1>3, <2>1, WatcherKeepsModification DEF PolicyInv
<1>4. CASE DelayPasses \/ SweepSpawn \/ SweepSaves
  BY <1>2, <1>4 DEF DelayPasses, SweepSpawn, SweepSaves, watchVars, Watched
<1>5. CASE StopDebounce \/ StopPeriodic \/ SweepCancelled
  BY <1>2, <1>5 DEF StopDebounce, StopPeriodic, SweepCancelled, watchVars, Watched,
                    PolicyInv, PolicyTypeOK
<1>6. CASE RoomEvent
  BY <1>6, SaverAssumption, PolicyAssumption
     DEF RoomEvent, RoomModified, RoomClosed, Watched, PolicyInv, PolicyTypeOK, WatchInv,
         TrackedWatcherRuns
<1>7. CASE PolicyRestart
  BY <1>7 DEF PolicyRestart
<1>8. CASE UNCHANGED policyVars
  BY <1>2, <1>8 DEF policyVars, watchVars, Watched
<1> QED
  BY <1>3, <1>4, <1>5, <1>6, <1>7, <1>8 DEF PolicyStep, StopStep

\* Stopping ends the saves, by what the policies keep.
LEMMA StopEnds == PolicyInv => StopEndsSaves
  BY SaverAssumption, PolicyAssumption
     DEF PolicyInv, PolicyTypeOK, WatchInv, StopInv, SweepInv, StopEndsSaves

-----------------------------------------------------------------------------
(* The policies in their environment.                                      *)

\* Every step of the policies' world is one of the saver's, or none.
LEMMA PolicyNextOfSaver == [PolicyNext]_allVars => [SaverNext]_saverVars
<1> SUFFICES ASSUME [PolicyNext]_allVars PROVE [SaverNext]_saverVars
  OBVIOUS
<1>1. Watchers \union {Periodic} \subseteq Savers
  BY PolicyAssumption
<1>2. CASE PolicyStep \/ StopStep
  BY <1>1, <1>2, PolicyStepOfSaver DEF SaverNext
<1>3. CASE EnvironmentStep
  BY <1>3 DEF EnvironmentStep, SaverNext
<1>4. CASE Restart
  BY <1>4 DEF SaverNext
<1>5. CASE UNCHANGED allVars
  BY <1>5 DEF allVars
<1> QED
  BY <1>2, <1>3, <1>4, <1>5 DEF PolicyNext, Stopped

\* Every step keeps what the policies keep.
LEMMA PolicyInductive ==
  ASSUME SavingInv, PolicyInv, [PolicyNext]_allVars
  PROVE  PolicyInv'
<1>1. [SaverNext]_saverVars
  BY PolicyNextOfSaver
<1>2. CASE PolicyStep \/ StopStep
  BY <1>1, <1>2, PolicyKeepsWatch, PolicyKeepsSweep, ModificationKept
     DEF PolicyInv, SavingInv, SaverInv
<1>3. CASE EnvironmentStep
  <2>1. RoomEvent \/ UNCHANGED policyVars
    BY <1>3 DEF EnvironmentStep, RoomEvent
  <2>2. SweepInv'
    <3>1. CASE RoomStep /\ UNCHANGED policyVars
      BY <3>1 DEF RoomStep, AppendPending, MarkDirty, AppendFails, RegisterRoom, RemoveRoom,
         ClearRoom, ClearFails, callVars, roomVars, policyVars, PolicyInv, SweepInv
    <3>2. ASSUME NEW s \in Savers \ (Watchers \union {Periodic}), SaveStep(s),
                 UNCHANGED policyVars
          PROVE  SweepInv'
      BY <3>2, OthersStay, PolicyAssumption
         DEF policyVars, PolicyInv, SweepInv, SavingInv, SaverInv
    <3>3. CASE (RoomModified \/ RoomClosed) /\ UNCHANGED saverVars
      BY <3>3 DEF RoomModified, RoomClosed, saverVars, callVars, PolicyInv, SweepInv
    <3> QED
      BY <1>3, <3>1, <3>2, <3>3 DEF EnvironmentStep
  <2> QED
    BY <1>1, <2>1, <2>2, PolicyKeepsWatch, ModificationKept DEF PolicyInv
<1>4. CASE Restart /\ PolicyRestart
  <2>1. SweepInv'
    BY <1>4, PolicyAssumption DEF Restart, SweepInv, Idle
  <2> QED
    BY <1>1, <1>4, <2>1, PolicyKeepsWatch, ModificationKept DEF PolicyInv
<1>5. CASE UNCHANGED allVars
  <2>1. SweepInv'
    BY <1>5 DEF allVars, policyVars, saverVars, callVars, PolicyInv, SweepInv
  <2>2. UNCHANGED policyVars
    BY <1>5 DEF allVars
  <2> QED
    BY <1>1, <2>1, <2>2, PolicyKeepsWatch, ModificationKept DEF PolicyInv
<1> QED
  BY <1>2, <1>3, <1>4, <1>5 DEF PolicyNext, Stopped

\* The saver's invariants, where the process starts.
LEMMA SavingInitially == SaverInit => SavingInv
  BY InitInv, ReadInitially, SaverAssumption DEF SavingInv, PoisonInv, SaverInit, Stored

\* The inductive invariant of the policies and of the saver under them.
LEMMA PolicyInvariant == PolicySpec => [](SavingInv /\ PolicyInv)
<1>1. Start => SavingInv /\ PolicyInv
  BY SavingInitially, PolicyInitially DEF Start
<1>2. SavingInv /\ PolicyInv /\ [PolicyNext]_allVars => (SavingInv /\ PolicyInv)'
  BY PolicyNextOfSaver, SavingStep, PolicyInductive
<1> QED
  BY <1>1, <1>2, PTL DEF PolicySpec

\* Debounce, the sweep and stop() use the saver only as its specification
\* says: all that is proved of the saver and its stores holds under them.
THEOREM PoliciesKeepSaver == PolicySpec => SaverSpec
<1>1. Start => SaverInit
  BY DEF Start
<1> QED
  BY <1>1, PolicyNextOfSaver, PTL DEF PolicySpec, SaverSpec

\* Type correctness of the policies' state.
THEOREM PolicyTypeCorrect == PolicySpec => []PolicyTypeOK
<1>1. PolicyInv => PolicyTypeOK
  BY DEF PolicyInv
<1> QED
  BY <1>1, PolicyInvariant, PTL

\* The entry of _watchers is a live task nobody but stop() cancelled:
\* debounce never stays switched off for a chat (save_policies/debounce.py).
THEOREM PolicyTracksLiveWatcher == PolicySpec => []TrackedWatcherRuns
<1>1. PolicyInv => TrackedWatcherRuns
  BY DEF PolicyInv, WatchInv
<1> QED
  BY <1>1, PolicyInvariant, PTL

\* A modification debounce remembers has a live watcher, until a save fails.
THEOREM PolicyWatchesModification == PolicySpec => []ModificationIsWatched
<1>1. PolicyInv => ModificationIsWatched
  BY DEF PolicyInv
<1> QED
  BY <1>1, PolicyInvariant, PTL

\* After stop() no policy saves, but for watchers it could not see.
THEOREM PolicyStopEndsSaves == PolicySpec => []StopEndsSaves
  BY StopEnds, PolicyInvariant, PTL
=============================================================================
