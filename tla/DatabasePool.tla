---------------------------- MODULE DatabasePool ----------------------------
(***************************************************************************)
(* The connections of the database pool and who waits for them.  A         *)
(* WebSocket session takes one at its first statement and, since nothing   *)
(* commits, keeps it until the socket is closed; closing the chat's room   *)
(* it needs another one for the save.  A request keeps one until its unit  *)
(* of work is over, and may save after that.  The periodic sweep saves all *)
(* dirty chats at once, as many as its semaphore lets in.  A save holds    *)
(* the chat's lock while it waits for its connection.                      *)
(*                                                                         *)
(* What a save reads and writes is in ChatRoomSaver; here it finds         *)
(* nothing, something, or something with a reply to a row that does not    *)
(* exist, for which the table refuses all of it at the foreign key.  Its   *)
(* steps are the resources it takes.                                       *)
(***************************************************************************)
EXTENDS Integers, FiniteSets

CONSTANTS
    Chats,
    Sessions,       \* WebSocket sessions
    Requests,       \* HTTP and Kafka requests
    Watchers,       \* debounce watcher tasks
    Careless,       \* the sessions whose clients may reply to what has no row
    ChatOf,         \* the chat that each of them is about
    Nobody,         \* a chat's lock is free
    Capacity,       \* pool_size + max_overflow
    MaxConcurrent,  \* periodic_max_concurrency
    MaxFaults       \* bound on failed reads, inserts and deletes

\* The task the sweep starts for a chat goes by the name of the chat.
Callers == Chats \union Sessions \union Requests \union Watchers

ASSUME PoolAssumption ==
    /\ IsFiniteSet(Callers)
    /\ Chats \intersect (Sessions \union Requests \union Watchers) = {}
    /\ Sessions \intersect (Requests \union Watchers) = {}
    /\ Requests \intersect Watchers = {}
    /\ ChatOf \in [Sessions \union Requests \union Watchers -> Chats]
    /\ Careless \subseteq Sessions
    /\ Nobody \notin Callers
    /\ Capacity \in Nat \ {0}
    /\ MaxConcurrent \in Nat \ {0}
    /\ MaxFaults \in Nat

VARIABLES
    free,       \* connections the pool can hand out
    permits,    \* the value of the periodic policy's semaphore
    lock,       \* per chat, the holder of the saver's lock
    at,         \* the await at which each caller stands
    sweep,      \* whether the periodic loop sleeps or gathers its tasks
    dirty,      \* the chats whose registered room is dirty
    dangling,   \* the chats with a pending reply to a row that does not exist
    refused,    \* the callers that have read such a reply and are saving it
    faults      \* failures injected so far

vars == <<free, permits, lock, at, sweep, dirty, dangling, refused, faults>>

messages == <<dirty, dangling, refused>>

\* Before save_if_dirty, inside its lock, and in save_if_dirty altogether.
Critical == {"listing", "checkout", "inserting", "deleting"}
Saving   == {"locking"} \union Critical
Stages   == {"idle", "connecting", "using", "permit"} \union Saving

ChatFor(c) == IF c \in Chats THEN c ELSE ChatOf[c]

\* Who holds a connection of its own, and who one of the saver's.
Owners  == {c \in Callers : at[c] = "using" \/ (c \in Sessions /\ at[c] \in Saving)}
Savers  == {c \in Callers : at[c] = "inserting"}
Allowed == {t \in Chats : at[t] \in Saving}

PoolTypeOK ==
    /\ free \in 0..Capacity
    /\ permits \in 0..MaxConcurrent
    /\ lock \in [Chats -> Callers \union {Nobody}]
    /\ at \in [Callers -> Stages]
    /\ sweep \in {"sleeping", "gathering"}
    /\ dirty \in SUBSET Chats
    /\ dangling \in SUBSET Chats
    /\ refused \in SUBSET Callers
    /\ faults \in 0..MaxFaults

Init ==
    /\ free = Capacity
    /\ permits = MaxConcurrent
    /\ lock = [ch \in Chats |-> Nobody]
    /\ at = [c \in Callers |-> "idle"]
    /\ sweep = "sleeping"
    /\ dirty = {}
    /\ dangling = {}
    /\ refused = {}
    /\ faults = 0

Goto(c, stage) == at' = [at EXCEPT ![c] = stage]

Fault == faults < MaxFaults /\ faults' = faults + 1

-----------------------------------------------------------------------------
(* A session's or a request's own connection.                              *)

\* The first statement checks a connection out.
Connect(c) ==
    /\ c \in Sessions \union Requests
    /\ at[c] \in {"idle", "connecting"}
    /\ free > 0
    /\ free' = free - 1
    /\ Goto(c, "using")
    /\ UNCHANGED <<permits, lock, sweep, messages, faults>>

AwaitConnection(c) ==
    /\ c \in Sessions \union Requests
    /\ at[c] = "idle"
    /\ free = 0
    /\ Goto(c, "connecting")
    /\ UNCHANGED <<free, permits, lock, sweep, messages, faults>>

\* pool_timeout: the session or the request ends with an error.
ConnectTimesOut(c) ==
    /\ at[c] = "connecting"
    /\ free = 0
    /\ Goto(c, "idle")
    /\ UNCHANGED <<free, permits, lock, sweep, messages, faults>>

Post(c) ==
    /\ c \in Sessions
    /\ at[c] = "using"
    /\ dirty' = dirty \union {ChatOf[c]}
    /\ \/ UNCHANGED dangling
       \/ c \in Careless /\ dangling' = dangling \union {ChatOf[c]}
    /\ UNCHANGED <<free, permits, lock, at, sweep, refused, faults>>

\* The request is over, or a session that never entered the room or leaves
\* somebody else in it.
EndUse(c) ==
    /\ at[c] = "using"
    /\ free' = free + 1
    /\ Goto(c, "idle")
    /\ UNCHANGED <<permits, lock, sweep, messages, faults>>

\* The last client of the room left: save, with the session still open.
CloseRoom(c) ==
    /\ c \in Sessions
    /\ at[c] = "using"
    /\ Goto(c, "locking")
    /\ UNCHANGED <<free, permits, lock, sweep, messages, faults>>

\* RemoveChatMember saves once its unit of work has returned the connection.
SaveAfterUse(c) ==
    /\ c \in Requests
    /\ at[c] = "using"
    /\ free' = free + 1
    /\ Goto(c, "locking")
    /\ UNCHANGED <<permits, lock, sweep, messages, faults>>

WatcherSaves(c) ==
    /\ c \in Watchers
    /\ at[c] = "idle"
    /\ ChatOf[c] \in dirty
    /\ Goto(c, "locking")
    /\ UNCHANGED <<free, permits, lock, sweep, messages, faults>>
-----------------------------------------------------------------------------
(* The sweep.                                                              *)

SweepStarts ==
    /\ sweep = "sleeping"
    /\ dirty # {}
    /\ sweep' = "gathering"
    /\ at' = [c \in Callers |-> IF c \in dirty THEN "permit" ELSE at[c]]
    /\ UNCHANGED <<free, permits, lock, messages, faults>>

Permit(t) ==
    /\ at[t] = "permit"
    /\ permits > 0
    /\ permits' = permits - 1
    /\ Goto(t, "locking")
    /\ UNCHANGED <<free, lock, sweep, messages, faults>>

SweepEnds ==
    /\ sweep = "gathering"
    /\ \A t \in Chats : at[t] = "idle"
    /\ sweep' = "sleeping"
    /\ UNCHANGED <<free, permits, lock, at, messages, faults>>
-----------------------------------------------------------------------------
(* save_if_dirty.                                                          *)

Take(c) ==
    /\ at[c] = "locking"
    /\ lock[ChatFor(c)] = Nobody
    /\ ChatFor(c) \in dirty
    /\ lock' = [lock EXCEPT ![ChatFor(c)] = c]
    /\ Goto(c, "listing")
    /\ UNCHANGED <<free, permits, sweep, messages, faults>>

\* save_if_dirty is left, by return or by exception, and its caller goes on:
\* a task returns its permit, a session clears and unregisters the room and
\* is over.
LeaveSave(c, permitBack, clean) ==
    /\ Goto(c, "idle")
    /\ lock' = [lock EXCEPT ![ChatFor(c)] = IF @ = c THEN Nobody ELSE @]
    /\ free' = free + (IF at[c] = "inserting" THEN 1 ELSE 0)
                    + (IF c \in Sessions THEN 1 ELSE 0)
    /\ permits' = permits + (IF permitBack THEN 1 ELSE 0)
    /\ dirty' = IF clean THEN dirty \ {ChatFor(c)} ELSE dirty
    /\ dangling' = IF c \in Sessions THEN dangling \ {ChatFor(c)} ELSE dangling
    /\ refused' = refused \ {c}

\* Mutant: the exception of the save passes by the release of the permit.
EndSaveKeepingPermit(c, returned) ==
    LeaveSave(c, c \in Chats /\ returned, returned \/ c \in Sessions)

\* Mutant: mark_clean is forgotten.
EndSaveUnmarked(c, returned) == LeaveSave(c, c \in Chats, c \in Sessions)

\* A save that did its work, or found nothing, marks the room clean.
EndSave(c, returned) == LeaveSave(c, c \in Chats, returned \/ c \in Sessions)

FindClean(c) ==
    /\ at[c] = "locking"
    /\ lock[ChatFor(c)] = Nobody
    /\ ChatFor(c) \notin dirty
    /\ EndSave(c, TRUE)
    /\ UNCHANGED <<sweep, faults>>

\* The pending messages are listed.
List(c) ==
    /\ at[c] = "listing"
    /\ Goto(c, "checkout")
    /\ refused' = IF ChatFor(c) \in dangling THEN refused \union {c} ELSE refused
    /\ UNCHANGED <<free, permits, lock, sweep, dirty, dangling, faults>>

\* Mutant: the overflow of the pool is not limited.
CheckOutOverflowing(c) ==
    /\ at[c] = "checkout"
    /\ free' = free - 1
    /\ Goto(c, "inserting")
    /\ UNCHANGED <<permits, lock, sweep, messages, faults>>

\* The save's session checks its connection out.
CheckOut(c) ==
    /\ at[c] = "checkout"
    /\ free > 0
    /\ free' = free - 1
    /\ Goto(c, "inserting")
    /\ UNCHANGED <<permits, lock, sweep, messages, faults>>

\* Mutant: the pool lets callers wait for ever.
CheckOutWaits(c) == FALSE

CheckOutTimesOut(c) ==
    /\ at[c] = "checkout"
    /\ free = 0
    /\ EndSave(c, FALSE)
    /\ UNCHANGED <<sweep, faults>>

\* Committed; the session gives its connection back.
Insert(c) ==
    /\ at[c] = "inserting"
    /\ c \notin refused
    /\ free' = free + 1
    /\ Goto(c, "deleting")
    /\ UNCHANGED <<permits, lock, sweep, messages, faults>>

\* The foreign key refuses the whole batch: no failure of a store, and the
\* next save reads the same reply again.
InsertRejected(c) ==
    /\ at[c] = "inserting"
    /\ c \in refused
    /\ EndSave(c, FALSE)
    /\ UNCHANGED <<sweep, faults>>

\* The batch is deleted from Redis, or nothing had been found.
Delete(c) ==
    /\ at[c] = "deleting" \/ (at[c] = "listing" /\ ChatFor(c) \notin dangling)
    /\ EndSave(c, TRUE)
    /\ UNCHANGED <<sweep, faults>>

SaveFails(c) ==
    /\ at[c] \in {"listing", "inserting", "deleting"}
    /\ Fault
    /\ EndSave(c, FALSE)
    /\ UNCHANGED sweep

\* on_room_closed cancels the watcher, at whichever await it is.
Cancel(c) ==
    /\ c \in Watchers
    /\ at[c] \in Saving
    /\ EndSave(c, FALSE)
    /\ UNCHANGED <<sweep, faults>>
-----------------------------------------------------------------------------
\* What a caller that waits does when it is scheduled, answered or timed out.
Proceeds(c) ==
    \/ at[c] = "connecting" /\ (Connect(c) \/ ConnectTimesOut(c))
    \/ c \in Chats /\ Permit(c)
    \/ Take(c)
    \/ FindClean(c)
    \/ List(c)
    \/ CheckOut(c)
    \/ CheckOutTimesOut(c)
    \/ Insert(c)
    \/ InsertRejected(c)
    \/ Delete(c)

Next ==
    \/ \E c \in Callers :
          \/ Proceeds(c)
          \/ Connect(c)
          \/ AwaitConnection(c)
          \/ Post(c)
          \/ EndUse(c)
          \/ CloseRoom(c)
          \/ SaveAfterUse(c)
          \/ WatcherSaves(c)
          \/ SaveFails(c)
          \/ Cancel(c)
    \/ SweepStarts
    \/ SweepEnds

Spec == Init /\ [][Next]_vars

\* Requests are answered or time out, the loop wakes, and the queues of the
\* locks and of the semaphore are FIFO: who is let in again and again gets in.
\* Nothing is asked of users: a socket may stay open for ever.
FairSpec ==
    /\ Spec
    /\ \A c \in Callers : SF_vars(Proceeds(c))
    /\ WF_vars(SweepStarts \/ SweepEnds)
-----------------------------------------------------------------------------
(* Properties.                                                             *)

\* Connections, permits and locks are never leaked nor given back twice: what
\* is not free is held by a caller that will return it, on every path out of
\* a save, exceptions, timeouts and cancellations included.
ResourcesAccounted ==
    /\ free + Cardinality(Owners) + Cardinality(Savers) = Capacity
    /\ permits + Cardinality(Allowed) = MaxConcurrent
    /\ \A ch \in Chats : \A c \in Callers :
          lock[ch] = c <=> ChatFor(c) = ch /\ at[c] \in Critical

\* Whoever waits for a connection, a permit or a lock stops waiting, and the
\* sweep gets to the end of its round.  Sessions that hold every connection
\* may wait for the locks of saves that wait for their connections; it is the
\* pool's timeout that breaks the circle.
WaitsEnd ==
    /\ \A c \in Callers \ Chats : at[c] \notin {"idle", "using"} ~> at[c] \in {"idle", "using"}
    /\ sweep = "gathering" ~> sweep = "sleeping"

\* A save of the chat finds the pool exhausted.
Starved(ch) == free = 0 /\ \E c \in Callers : ChatFor(c) = ch /\ at[c] = "checkout"

\* A chat does not stay dirty for ever unless its saves find the pool exhausted
\* again and again, or the table refuses a pending reply of the chat.  Neither
\* locks nor permits, cancellations nor failures that come to an end, nor what
\* another chat's saves meet, keep the sweep from it.
DirtyIfStarvedOrRefused ==
    \A ch \in Chats : ch \in dirty ~> ch \notin dirty \/ Starved(ch) \/ ch \in dangling
=============================================================================
