---------------------------- MODULE ChatSession ----------------------------
(***************************************************************************)
(* The live side of one chat: WebSocket sessions that join a room, post    *)
(* into it and leave; the handlers of the room's events, one that closes   *)
(* the room after the last client and one that keeps the presence set; and *)
(* the composition that removes a member and disconnects its sockets.      *)
(* They share the registry, the rooms, Redis and the saver with each other *)
(* and with the save policies.                                             *)
(***************************************************************************)
EXTENDS SavePolicies

CONSTANTS
    Clients,    \* WebSocket sessions; each calls the saver if it closes the room
    Actors,
    ActorOf,    \* the actor a session's token names
    Removable,  \* the actors that may be removed from the chat
    Remover,    \* the request that removes a member
    NoMessage

ASSUME SessionAssumption ==
    /\ Clients \subseteq Savers \ (Watchers \union {Periodic})
    /\ Remover \in Savers \ (Clients \union Watchers \union {Periodic})
    /\ ActorOf \in [Clients -> Actors]
    /\ Removable \subseteq Actors
    /\ NoMessage \notin Messages

VARIABLES
    members,    \* PostgreSQL: the actors with a membership of the chat
    presence,   \* Redis: the set of active members
    conns,      \* LiveChatRoom._connections of every room object
    socket,     \* what a send on the session's socket meets
    client,     \* where each session stands
    remover     \* where the removal of a member stands

sessionVars == <<members, presence, conns, socket, client, remover>>
vars        == <<allVars, sessionVars>>

Away == [stage |-> "away", room |-> NoRoom, msg |-> NoMessage, peers |-> {}]

NoRemoval == [stage |-> "idle", actors |-> {}, targets |-> {}]

Joining == {"checked", "admitted", "announced", "entering"}
Posting == {"serving", "appending", "posting", "broken"}
Parting == {"leaving", "closing", "clearing", "cleared", "unlisting"}

SessionTypeOK ==
    /\ members \in SUBSET Actors
    /\ presence \in SUBSET Actors
    /\ conns \in [Rooms -> SUBSET Clients]
    /\ socket \in [Clients -> {"open", "hungup", "shut"}]
    /\ client \in [Clients -> [stage : {"away"} \union Joining \union Posting \union Parting,
                               room : Rooms \union {NoRoom},
                               msg : Messages \union {NoMessage},
                               peers : SUBSET Clients]]
    /\ remover \in [stage : {"idle", "removed", "saving", "closing", "over"},
                   actors : SUBSET Actors, targets : SUBSET Clients]

SessionInit ==
    /\ members = Actors
    /\ presence = {}
    /\ conns = [r \in Rooms |-> {}]
    /\ socket = [c \in Clients |-> "shut"]
    /\ client = [c \in Clients |-> Away]
    /\ remover = NoRemoval

Stage(c, stage) == client' = [client EXCEPT ![c].stage = stage]

\* A broadcast to the connections `peers` is about to begin.
Broadcast(c, stage, peers) ==
    client' = [client EXCEPT ![c].stage = stage, ![c].peers = peers]

-----------------------------------------------------------------------------
(* Joining.                                                                *)

\* JoinChatRoom finds the chat, the actor and its membership.  A session
\* whose connection a room still holds cannot stand for a new one.
CheckAccess(c) ==
    /\ client[c].stage = "away"
    /\ \A r \in Rooms : c \notin conns[r]
    /\ ActorOf[c] \in members
    /\ stop.stage = "no"
    /\ Stage(c, "checked")
    /\ socket' = [socket EXCEPT ![c] = "open"]
    /\ UNCHANGED <<allVars, members, presence, conns, remover>>

\* registry.get and, if there is no room, register: one uninterrupted piece.
GetRoom(c) ==
    /\ client[c].stage = "checked"
    /\ \/ registered # NoRoom /\ UNCHANGED saverVars
       \/ \E r \in Rooms :
            /\ conns[r] = {}
            /\ \A d \in Clients : client[d].room # r
            /\ RegisterRoom(r)
    /\ client' = [client EXCEPT ![c].stage = "admitted", ![c].room = registered']
    /\ UNCHANGED <<policyVars, members, presence, conns, socket, remover>>

\* Loading the history, accept or sending the history fails, or the peer is
\* gone: nothing undoes the registration.
JoinFails(c) ==
    /\ client[c].stage = "admitted"
    /\ client' = [client EXCEPT ![c] = Away]
    /\ socket' = [socket EXCEPT ![c] = "shut"]
    /\ UNCHANGED <<allVars, members, presence, conns, remover>>

\* Mutant: lists the session instead of its actor.
AnnounceSession(c) ==
    /\ client[c].stage = "admitted"
    /\ Stage(c, "announced")
    /\ presence' = presence \union {c}
    /\ UNCHANGED <<allVars, members, conns, socket, remover>>

\* publish_client_joined: SADD; a failure is logged and the join goes on.
Announce(c) ==
    /\ client[c].stage = "admitted"
    /\ Stage(c, "announced")
    /\ \/ /\ presence' = presence \union {ActorOf[c]}
          /\ UNCHANGED saverVars
       \/ /\ Fault
          /\ UNCHANGED <<storeVars, roomVars, callVars, histVars, presence>>
    /\ UNCHANGED <<policyVars, members, conns, socket, remover>>

\* LiveChatRoom._join.
Enter(c) ==
    LET r == client[c].room IN
    /\ client[c].stage = "announced"
    /\ conns' = [conns EXCEPT ![r] = @ \union {c}]
    /\ Broadcast(c, "entering", conns[r] \union {c})
    /\ UNCHANGED <<allVars, members, presence, socket, remover>>

\* One send of a broadcast.  To a peer that hung up it raises
\* ConnectionClosedError, which is swallowed; from then on, as after close,
\* Starlette raises a RuntimeError, which is not (see ShutPeer).
SendTo(c, p) ==
    /\ client[c].stage \in {"entering", "posting", "leaving"}
    /\ p \in client[c].peers
    /\ socket[p] # "shut"
    /\ client' = [client EXCEPT ![c].peers = @ \ {p}]
    /\ socket' = [socket EXCEPT ![p] = IF @ = "hungup" THEN "shut" ELSE @]
    /\ UNCHANGED <<allVars, members, presence, conns, remover>>

ShutPeer(c) == \E p \in client[c].peers : socket[p] = "shut"

StartServing(c) ==
    /\ client[c].stage = "entering"
    /\ client[c].peers = {}
    /\ Stage(c, "serving")
    /\ UNCHANGED <<allVars, members, presence, conns, socket, remover>>

HangUp(c) ==
    /\ socket[c] = "open"
    /\ socket' = [socket EXCEPT ![c] = "hungup"]
    /\ UNCHANGED <<allVars, members, presence, conns, client, remover>>
-----------------------------------------------------------------------------
(* Posting: _handle_command of a non-empty message.                        *)

Post(c, m) ==
    /\ client[c].stage = "serving"
    /\ socket[c] # "shut"
    /\ AppendPending(client[c].room, m)
    /\ client' = [client EXCEPT ![c].stage = "appending", ![c].msg = m]
    /\ UNCHANGED <<policyVars, members, presence, conns, socket, remover>>

\* Mutant: the room is not marked dirty.
PostedUnmarked(c) ==
    /\ client[c].stage = "appending"
    /\ sending' = [sending EXCEPT ![client[c].msg] = NoRoom]
    /\ accepted' = accepted \union {client[c].msg}
    /\ client' = [client EXCEPT ![c].stage = "posting", ![c].msg = NoMessage,
                                ![c].peers = conns[client[c].room]]
    /\ UNCHANGED <<storeVars, registered, dirty, callVars, wiped, faults, policyVars,
                   members, presence, conns, socket, remover>>

Posted(c) ==
    /\ client[c].stage = "appending"
    /\ MarkDirty(client[c].msg)
    /\ client' = [client EXCEPT ![c].stage = "posting", ![c].msg = NoMessage,
                                ![c].peers = conns[client[c].room]]
    /\ UNCHANGED <<policyVars, members, presence, conns, socket, remover>>

\* The append raises, with or without effect in Redis.
PostFails(c) ==
    /\ \/ /\ client[c].stage = "appending"
          /\ AppendFails(client[c].msg)
       \/ /\ client[c].stage = "serving"
          /\ Fault
          /\ UNCHANGED <<storeVars, roomVars, callVars, histVars>>
    /\ client' = [client EXCEPT ![c].stage = "broken", ![c].msg = NoMessage]
    /\ UNCHANGED <<policyVars, members, presence, conns, socket, remover>>

\* publish_room_modified, once the message has been broadcast.
PublishModified(c) ==
    /\ client[c].stage = "posting"
    /\ client[c].peers = {}
    /\ RoomModified
    /\ Stage(c, "serving")
    /\ UNCHANGED <<saverVars, members, presence, conns, socket, remover>>
-----------------------------------------------------------------------------
(* Leaving: LiveChatRoom._leave, then publish_client_left, whose listeners *)
(* are the lifecycle handler and then the presence handler.                *)

\* ChatRoomLifecycleHandler.on_client_left up to its first suspension: if
\* the registered room has no connection it is closed, whichever room c was
\* in.  conns' is the rooms' connections at that moment.
OnClientLeft(c) ==
    IF registered = NoRoom \/ conns'[registered] # {}
    THEN Broadcast(c, "unlisting", {}) /\ UNCHANGED allVars
    ELSE /\ RoomClosed
         /\ \/ (Wait(c) \/ BeginSave(c)) /\ Broadcast(c, "closing", {})
            \/ SkipClean(c) /\ Broadcast(c, "clearing", {})

\* _join's broadcast raises before the try of serve: the connection stays.
EnterFails(c) ==
    /\ client[c].stage = "entering"
    /\ ShutPeer(c)
    /\ conns' = conns
    /\ OnClientLeft(c)
    /\ UNCHANGED <<members, presence, socket, remover>>

\* The serve loop ends: receive raised, or the command raised.
Departing(c) ==
    \/ client[c].stage = "serving" /\ socket[c] # "open"
    \/ client[c].stage = "broken"
    \/ client[c].stage = "posting" /\ ShutPeer(c)

\* _leave; with no peer left nothing suspends before on_client_left.
Depart(c) ==
    LET r == client[c].room
        peers == conns[r] \ {c}
    IN
    /\ Departing(c)
    /\ conns' = [conns EXCEPT ![r] = peers]
    /\ IF peers = {} THEN OnClientLeft(c)
                     ELSE Broadcast(c, "leaving", peers) /\ UNCHANGED allVars
    /\ UNCHANGED <<members, presence, socket, remover>>

\* The broadcast of the departure is over, or raised: either way the
\* finally of ServeChatConnection publishes client_left.
Left(c) ==
    /\ client[c].stage = "leaving"
    /\ client[c].peers = {} \/ ShutPeer(c)
    /\ conns' = conns
    /\ OnClientLeft(c)
    /\ UNCHANGED <<members, presence, socket, remover>>

\* The closing save; clear_room follows whether it returns or raises.
CloseSaves(c) ==
    /\ client[c].stage = "closing"
    /\ \/ Proceeds(c) /\ UNCHANGED client
       \/ (Completes(c) \/ Raises(c)) /\ Stage(c, "clearing")
    /\ UNCHANGED <<policyVars, members, presence, conns, socket, remover>>

\* clear_room deletes the presence set together with the messages.
CloseClears(c) ==
    /\ client[c].stage = "clearing"
    /\ \/ ClearRoom /\ presence' = {} /\ Stage(c, "cleared")
       \/ ClearFails /\ presence' \in {presence, {}} /\ Stage(c, "unlisting")
    /\ UNCHANGED <<policyVars, members, conns, socket, remover>>

CloseUnregisters(c) ==
    /\ client[c].stage = "cleared"
    /\ RemoveRoom
    /\ Stage(c, "unlisting")
    /\ UNCHANGED <<policyVars, members, presence, conns, socket, remover>>

\* Mutant: the presence handler is not called.
UnlistNobody(c) ==
    /\ client[c].stage = "unlisting"
    /\ client' = [client EXCEPT ![c] = Away]
    /\ socket' = [socket EXCEPT ![c] = "shut"]
    /\ UNCHANGED <<allVars, members, presence, conns, remover>>

\* ChatRoomPresenceHandler.on_client_left: SREM; then the session is over.
Unlist(c) ==
    /\ client[c].stage = "unlisting"
    /\ \/ /\ presence' = presence \ {ActorOf[c]}
          /\ UNCHANGED saverVars
       \/ /\ Fault
          /\ UNCHANGED <<storeVars, roomVars, callVars, histVars, presence>>
    /\ client' = [client EXCEPT ![c] = Away]
    /\ socket' = [socket EXCEPT ![c] = "shut"]
    /\ UNCHANGED <<policyVars, members, conns, remover>>

PartingStep(c) ==
    \/ EnterFails(c)
    \/ Depart(c)
    \/ Left(c)
    \/ CloseSaves(c)
    \/ CloseClears(c)
    \/ CloseUnregisters(c)
    \/ Unlist(c)
-----------------------------------------------------------------------------
(* RemoveChatMember and AddProjectMember, on the one chat.                 *)

\* The unit of work that deletes the membership has committed.
RemoveMember(a) ==
    /\ remover.stage \in {"idle", "over"}
    /\ a \in members \intersect Removable
    /\ stop.stage = "no"
    /\ members' = members \ {a}
    /\ remover' = [stage |-> "removed", actors |-> {a}, targets |-> {}]
    /\ UNCHANGED <<allVars, presence, conns, socket, client>>

Targets ==
    IF registered = NoRoom
    THEN {}
    ELSE {c \in conns[registered] : ActorOf[c] \in remover.actors}

\* save_if_dirty; when it returns, the registered room's connections of the
\* actor are collected without suspending; when it raises, all is over.
RemoverSaves ==
    /\ remover.stage \in {"removed", "saving"}
    /\ \/ Proceeds(Remover) /\ remover' = [remover EXCEPT !.stage = "saving"]
       \/ /\ Completes(Remover)
          /\ remover' = [remover EXCEPT !.stage = "closing", !.targets = Targets]
       \/ Raises(Remover) /\ remover' = [remover EXCEPT !.stage = "over"]
    /\ UNCHANGED <<policyVars, members, presence, conns, socket, client>>

\* connection.close() of one target.  On a socket that is not open it may
\* raise, and does if it is shut; nothing catches that.
CloseTarget(c) ==
    /\ remover.stage = "closing"
    /\ c \in remover.targets
    /\ \/ /\ socket[c] # "shut"
          /\ socket' = [socket EXCEPT ![c] = "shut"]
          /\ remover' = [remover EXCEPT !.targets = @ \ {c}]
       \/ /\ socket[c] # "open"
          /\ socket' = [socket EXCEPT ![c] = "shut"]
          /\ remover' = [remover EXCEPT !.stage = "over", !.targets = {}]
    /\ UNCHANGED <<allVars, members, presence, conns, client>>

RemoverDone ==
    /\ remover.stage = "closing"
    /\ remover.targets = {}
    /\ remover' = [remover EXCEPT !.stage = "over"]
    /\ UNCHANGED <<allVars, members, presence, conns, socket, client>>

AddMember(a) ==
    /\ a \notin members
    /\ stop.stage = "no"
    /\ members' = members \union {a}
    /\ UNCHANGED <<allVars, presence, conns, socket, client, remover>>

RemoverStep == RemoverSaves \/ RemoverDone \/ \E c \in Clients : CloseTarget(c)
-----------------------------------------------------------------------------
(* The process ends, in good order or not.                                 *)

\* The server stops once the last session and request are over, and only
\* then does the lifespan of the app stop the policies.
StopPolicies ==
    /\ StopStep
    /\ \A c \in Clients : client[c].stage = "away"
    /\ remover.stage \in {"idle", "over"}
    /\ UNCHANGED sessionVars

SessionRestart ==
    /\ Restart
    /\ PolicyRestart
    /\ conns' = [r \in Rooms |-> {}]
    /\ socket' = [c \in Clients |-> "shut"]
    /\ client' = [c \in Clients |-> Away]
    /\ remover' = NoRemoval
    /\ UNCHANGED <<members, presence>>

\* What a session does when it is scheduled, and what its user decides.
ClientRuns(c) ==
    \/ GetRoom(c)
    \/ Announce(c)
    \/ Enter(c)
    \/ \E p \in Clients : SendTo(c, p)
    \/ StartServing(c)
    \/ Posted(c)
    \/ PublishModified(c)
    \/ PartingStep(c)

ClientStep(c) ==
    \/ ClientRuns(c)
    \/ CheckAccess(c)
    \/ JoinFails(c)
    \/ HangUp(c)
    \/ \E m \in Messages : Post(c, m)
    \/ PostFails(c)

Next ==
    \/ \E c \in Clients : ClientStep(c)
    \/ PolicyStep /\ UNCHANGED sessionVars
    \/ \E a \in Actors : RemoveMember(a) \/ AddMember(a)
    \/ RemoverStep
    \/ StopPolicies
    \/ SessionRestart

Init == SaverInit /\ PolicyInit /\ SessionInit

Spec == Init /\ [][Next]_vars

\* Tasks that can run do, timers fire, requests are answered, and a call that
\* waits for the saver's lock gets its turn.  Users owe nothing.
FairSpec ==
    /\ Spec
    /\ \A c \in Clients :
          /\ WF_vars(ClientRuns(c))
          /\ SF_vars(call[c].pc = "waiting" /\ CloseSaves(c))
    /\ \A w \in Watchers :
          /\ WF_vars(WatcherStep(w) /\ UNCHANGED sessionVars)
          /\ SF_vars(call[w].pc = "waiting" /\ WatcherSaves(w) /\ UNCHANGED sessionVars)
    /\ WF_vars(SweepSpawn /\ UNCHANGED sessionVars)
    /\ WF_vars(SweepSaves /\ UNCHANGED sessionVars)
    /\ SF_vars(call[Periodic].pc = "waiting" /\ SweepSaves /\ UNCHANGED sessionVars)
    /\ WF_vars(DelayPasses /\ UNCHANGED sessionVars)
    /\ WF_vars(stop.stage # "no" /\ StopPolicies)
    /\ WF_vars(RemoverStep)
    /\ SF_vars(call[Remover].pc = "waiting" /\ RemoverSaves)
-----------------------------------------------------------------------------
(* Properties.                                                             *)

\* An actor is listed as present only while a session of his is between its
\* SADD and its SREM, unless Redis failed or the process died: every way out
\* of a session, exceptions included, takes the actor off the list.
NoGhostPresence ==
    faults = 0 =>
        \A a \in presence : \E c \in Clients :
            /\ ActorOf[c] = a
            /\ client[c].stage \notin {"away", "checked", "admitted"}

\* The sessions, the handlers and the policies use the stores, the rooms and
\* the saver only as ChatRoomSaver allows, so what holds there holds here.
KeepsSaverSpec == SaverSpec

\* A session that began to leave ends: the closing of the room, which waits
\* for the saver, blocks nobody for ever.
DepartureCompletes ==
    \A c \in Clients : client[c].stage \in Parting ~> client[c].stage = "away"

\* A message the sender was told of stays in the chat's history: it is
\* pending or stored.
AcceptedStaysInHistory == accepted \subseteq pending \union Stored

\* Two sessions served at the same time are connected to the same room.
JoinersShareRoom ==
    \A c, d \in Clients :
        client[c].stage = "serving" /\ client[d].stage = "serving" =>
            client[c].room = client[d].room

\* When the removal of a member is over, no session serves him any more.
RemovedActorKeptOut ==
    remover.stage = "over" =>
        \A c \in Clients : client[c].stage = "serving" /\ socket[c] = "open"
                              => ActorOf[c] \in members \union (Actors \ remover.actors)
=============================================================================
