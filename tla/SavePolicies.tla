---------------------------- MODULE SavePolicies ----------------------------
(***************************************************************************)
(* The two policies that call the saver for one chat: debounce, a watcher  *)
(* task that saves once the chat has been quiet for a while, and periodic, *)
(* a loop that sweeps the dirty rooms.  CompositeChatSessionSavePolicy     *)
(* hands room events to both; periodic ignores them.                       *)
(*                                                                         *)
(* Time is the order of events: a modification is "recent" until the       *)
(* debounce delay has passed, then "old".  The process ends by Restart, or  *)
(* in good order by stop(), which the lifespan of the app awaits when every *)
(* session and request is over.                                            *)
(***************************************************************************)
EXTENDS ChatRoomSaver

CONSTANTS
    Watchers,   \* debounce watcher tasks that may be alive at once
    Periodic    \* the task the periodic loop spawns for the chat

ASSUME PolicyAssumption ==
    /\ Watchers \subseteq Savers
    /\ Periodic \in Savers \ Watchers

VARIABLES
    lastModified,   \* debounce._last_modified[chat_id], as an age
    watcher,        \* debounce._watchers[chat_id]
    watch,          \* where each watcher task stands
    cancelling,     \* the watchers whose cancel() was called
    sweep,          \* where the periodic loop stands
    stop,           \* where CompositeChatSessionSavePolicy.stop stands
    strays          \* history: the watchers whose entry another one popped

watchVars  == <<watcher, watch, cancelling, strays>>
policyVars == <<lastModified, watchVars, sweep, stop>>
allVars    == <<saverVars, policyVars>>

PolicyTypeOK ==
    /\ lastModified \in {"none", "recent", "old"}
    /\ watcher \in Watchers \union {Nobody}
    /\ watch \in [Watchers -> {"none", "created", "sleeping", "saving"}]
    /\ cancelling \in SUBSET Watchers
    /\ sweep \in {"sleeping", "spawned", "saving", "ended"}
    /\ stop \in [stage : {"no", "gathering", "awaiting", "done"},
                task : Watchers \union {Nobody}]
    /\ strays \in SUBSET Watchers

Running == [stage |-> "no", task |-> Nobody]

PolicyInit ==
    /\ lastModified = "none"
    /\ watcher = Nobody
    /\ watch = [w \in Watchers |-> "none"]
    /\ cancelling = {}
    /\ sweep = "sleeping"
    /\ stop = Running
    /\ strays = {}

-----------------------------------------------------------------------------
(* Debounce.                                                               *)

\* on_room_modified: the watcher that is there is left alone.
RoomModified ==
    /\ lastModified' = "recent"
    /\ IF watcher # Nobody
       THEN UNCHANGED <<watcher, watch>>
       ELSE \E w \in Watchers :
                /\ watch[w] = "none"
                /\ watcher' = w
                /\ watch' = [watch EXCEPT ![w] = "created"]
    /\ UNCHANGED <<cancelling, sweep, stop, strays>>

\* Mutant: cancels the entry without looking whether there is one.
RoomClosedBlindly ==
    /\ lastModified' = "none"
    /\ watcher' = Nobody
    /\ cancelling' = cancelling \union {watcher}
    /\ UNCHANGED <<watch, sweep, stop, strays>>

\* Mutant: the modification is not forgotten.
RoomClosedRemembering ==
    /\ watcher' = Nobody
    /\ cancelling' = cancelling \union ({watcher} \ {Nobody})
    /\ UNCHANGED <<lastModified, watch, sweep, stop, strays>>

\* on_room_closed: forget the modification, cancel the tracked watcher.
RoomClosed ==
    /\ lastModified' = "none"
    /\ watcher' = Nobody
    /\ cancelling' = cancelling \union ({watcher} \ {Nobody})
    /\ UNCHANGED <<watch, sweep, stop, strays>>

DelayPasses ==
    /\ lastModified = "recent"
    /\ lastModified' = "old"
    /\ UNCHANGED <<saverVars, watchVars, sweep, stop>>

StartWatching(w) ==
    /\ watch[w] = "created"
    /\ w \notin cancelling
    /\ watch' = [watch EXCEPT ![w] = "sleeping"]
    /\ UNCHANGED <<saverVars, lastModified, watcher, cancelling, sweep, stop, strays>>

\* Mutant: no finally, the entry of the finished task stays.
EndWatchKeepingEntry(w) ==
    /\ watch' = [watch EXCEPT ![w] = "none"]
    /\ UNCHANGED <<watcher, strays>>

\* The task ends through its finally, which pops the chat's entry of
\* _watchers, whoever it belongs to by now.
EndWatch(w) ==
    /\ watch' = [watch EXCEPT ![w] = "none"]
    /\ watcher' = Nobody
    /\ strays' = (strays \union {watcher}) \ {w, Nobody}

\* The check finds no modification time.
WakeIdle(w) ==
    /\ watch[w] = "sleeping"
    /\ w \notin cancelling
    /\ lastModified = "none"
    /\ EndWatch(w)
    /\ UNCHANGED <<saverVars, lastModified, cancelling, sweep, stop>>

\* The check finds the chat quiet: call the saver.
WakeSave(w) ==
    /\ watch[w] = "sleeping"
    /\ w \notin cancelling
    /\ lastModified = "old"
    /\ \/ /\ Wait(w) \/ BeginSave(w)
          /\ watch' = [watch EXCEPT ![w] = "saving"]
          /\ UNCHANGED <<lastModified, watcher, strays>>
       \/ /\ SkipClean(w)
          /\ lastModified' = "none"
          /\ EndWatch(w)
    /\ UNCHANGED <<cancelling, sweep, stop>>

\* Mutant: the modification stays after the save.
WatcherSavesRemembering(w) ==
    /\ watch[w] = "saving"
    /\ w \notin cancelling
    /\ \/ Proceeds(w) /\ UNCHANGED <<watcher, watch, strays>>
       \/ (Completes(w) \/ Raises(w)) /\ EndWatch(w)
    /\ UNCHANGED <<lastModified, cancelling, sweep, stop>>

WatcherSaves(w) ==
    /\ watch[w] = "saving"
    /\ w \notin cancelling
    /\ \/ /\ Proceeds(w)
          /\ UNCHANGED <<lastModified, watcher, watch, strays>>
       \/ /\ Completes(w)
          /\ lastModified' = "none"
          /\ EndWatch(w)
       \/ /\ Raises(w)
          /\ EndWatch(w)
          /\ UNCHANGED lastModified
    /\ UNCHANGED <<cancelling, sweep, stop>>

\* The cancellation reaches the task; one that never ran has no finally.
WatcherCancelled(w) ==
    /\ w \in cancelling
    /\ cancelling' = cancelling \ {w}
    /\ \/ /\ watch[w] = "created"
          /\ watch' = [watch EXCEPT ![w] = "none"]
          /\ strays' = strays \ {w}
          /\ UNCHANGED <<saverVars, watcher>>
       \/ /\ watch[w] = "sleeping"
          /\ EndWatch(w)
          /\ UNCHANGED saverVars
       \/ /\ watch[w] = "saving"
          /\ Cancelled(w)
          /\ EndWatch(w)
    /\ UNCHANGED <<lastModified, sweep, stop>>

WatcherStep(w) ==
    \/ StartWatching(w)
    \/ WakeIdle(w)
    \/ WakeSave(w)
    \/ WatcherSaves(w)
    \/ WatcherCancelled(w)
-----------------------------------------------------------------------------
(* Periodic.                                                               *)

\* Mutant: the sweep leaves alone what debounce remembers.
SweepSpawnForgotten ==
    /\ sweep = "sleeping"
    /\ Saveable
    /\ lastModified = "none"
    /\ stop.stage # "awaiting"
    /\ sweep' = "spawned"
    /\ UNCHANGED <<saverVars, lastModified, watchVars, stop>>

\* The loop wakes and finds the room dirty: it spawns a task that saves it.
\* Waking to a clean room changes nothing.
SweepSpawn ==
    /\ sweep = "sleeping"
    /\ Saveable
    /\ stop.stage # "awaiting"
    /\ sweep' = "spawned"
    /\ UNCHANGED <<saverVars, lastModified, watchVars, stop>>

\* The gather of the spawned task swallows what it raises.
SweepSaves ==
    /\ sweep \in {"spawned", "saving"}
    /\ stop.stage # "awaiting"
    /\ \/ Proceeds(Periodic) /\ sweep' = "saving"
       \/ (Completes(Periodic) \/ Raises(Periodic)) /\ sweep' = "sleeping"
    /\ UNCHANGED <<lastModified, watchVars, stop>>

PolicyStep == (\E w \in Watchers : WatcherStep(w)) \/ DelayPasses \/ SweepSpawn \/ SweepSaves
-----------------------------------------------------------------------------
(* Stopping: debounce, then periodic.                                      *)

\* Mutant: the watcher is dropped without being cancelled.
StopDropsWatcher ==
    /\ stop.stage = "no"
    /\ watcher' = Nobody
    /\ lastModified' = "none"
    /\ stop' = [stop EXCEPT !.stage = "awaiting"]
    /\ UNCHANGED <<saverVars, watch, cancelling, sweep, strays>>

\* Cancel the tracked watcher and gather it.  With none there is nothing to
\* wait for, and stop goes on to cancel the periodic loop.
StopDebounce ==
    /\ stop.stage = "no"
    /\ IF watcher # Nobody
       THEN /\ cancelling' = cancelling \union {watcher}
            /\ stop' = [stage |-> "gathering", task |-> watcher]
            /\ UNCHANGED lastModified
       ELSE /\ lastModified' = "none"
            /\ stop' = [stop EXCEPT !.stage = "awaiting"]
            /\ UNCHANGED cancelling
    /\ UNCHANGED <<saverVars, watcher, watch, sweep, strays>>

\* The watcher has ended: forget the chat and cancel the periodic loop.
StopPeriodic ==
    /\ stop.stage = "gathering"
    /\ watch[stop.task] = "none"
    /\ watcher' = Nobody
    /\ lastModified' = "none"
    /\ stop' = [stage |-> "awaiting", task |-> Nobody]
    /\ UNCHANGED <<saverVars, watch, cancelling, sweep, strays>>

\* Mutant: the loop is awaited without being cancelled.
SweepAwaited ==
    /\ stop.stage = "awaiting"
    /\ sweep = "ended"
    /\ stop' = [stop EXCEPT !.stage = "done"]
    /\ UNCHANGED <<saverVars, lastModified, watchVars, sweep>>

\* The cancellation reaches the loop, and through its gather the save.
SweepCancelled ==
    /\ stop.stage = "awaiting"
    /\ IF sweep = "saving" THEN Cancelled(Periodic) ELSE UNCHANGED saverVars
    /\ sweep' = "ended"
    /\ stop' = [stop EXCEPT !.stage = "done"]
    /\ UNCHANGED <<lastModified, watchVars>>

StopStep == StopDebounce \/ StopPeriodic \/ SweepCancelled

-----------------------------------------------------------------------------
(* The policies with every other caller of the saver left open.            *)

\* Memory of the process that a restart resets besides the saver's.
PolicyRestart ==
    /\ lastModified' = "none"
    /\ watcher' = Nobody
    /\ watch' = [w \in Watchers |-> "none"]
    /\ cancelling' = {}
    /\ sweep' = "sleeping"
    /\ stop' = Running
    /\ strays' = {}

\* Sessions and requests are over before stop() is called.
EnvironmentStep ==
    /\ stop.stage = "no"
    /\ \/ /\ \/ RoomStep
             \/ \E s \in Savers \ (Watchers \union {Periodic}) : SaveStep(s)
          /\ UNCHANGED policyVars
       \/ RoomModified /\ UNCHANGED saverVars
       \/ RoomClosed /\ UNCHANGED saverVars

Stopped == stop.stage = "done" /\ UNCHANGED allVars

PolicyNext ==
    \/ PolicyStep
    \/ StopStep
    \/ Stopped
    \/ EnvironmentStep
    \/ Restart /\ PolicyRestart

Start == SaverInit /\ PolicyInit

PolicySpec == Start /\ [][PolicyNext]_allVars
-----------------------------------------------------------------------------
(* Properties.                                                             *)

\* The entry debounce keeps for the chat is a live task nobody cancelled,
\* unless stop() did.  An entry left behind by a finished task would switch
\* debounce off for the chat: on_room_modified starts a watcher only when
\* there is none.
TrackedWatcherRuns ==
    watcher # Nobody /\ stop.stage # "gathering" =>
        watch[watcher] # "none" /\ watcher \notin cancelling

\* A message whose reply is to no row makes every save that reads it raise.
Poisoned == Dangling \intersect (pending \union wiped) # {}

\* Until a save fails, a modification debounce remembers is being watched by
\* a live task, although a cancelled watcher pops its successor's entry.
ModificationIsWatched ==
    lastModified # "none" /\ faults = 0 /\ ~Poisoned /\ stop.stage # "gathering" =>
        \E w \in Watchers : watch[w] # "none" /\ w \notin cancelling

\* When stop() has returned, and Redis and the database are about to be
\* closed, no policy is saving: the sweep is over and a watcher that is still
\* alive was cancelled before, or had its entry popped by another watcher, so
\* that stop() could not see it.
StopEndsSaves ==
    stop.stage = "done" =>
        /\ call[Periodic].pc = "idle"
        /\ \A w \in Watchers : watch[w] # "none" => w \in cancelling \union strays

\* stop() returns: what it gathers and awaits ends, whatever it was doing.
StopReturns == stop.stage # "no" ~> stop.stage \in {"no", "done"}

\* Once the chat stays quiet, debounce settles the last modification, unless
\* a save fails: it saves, or the room closes, or it finds nothing to do.
\* While messages keep coming only the periodic sweep saves.
DebounceSettles ==
    <>[](lastModified # "recent") =>
        (lastModified # "none" ~> lastModified = "none" \/ faults > 0 \/ Poisoned)

\* A dirty registered room does not stay so for ever, although saves fail: the
\* sweep survives them, until stop() ends it.  A message that the table refuses
\* is excepted: it fails every save of its chat.
DirtyRoomGetsClean == Saveable ~> ~Saveable \/ Poisoned \/ stop.stage # "no"
=============================================================================
