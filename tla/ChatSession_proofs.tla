------------------------- MODULE ChatSession_proofs -------------------------
(***************************************************************************)
(* What the whole live side of a chat guarantees, for any number of        *)
(* sessions, watchers, rooms, messages and failures.  The sessions, the    *)
(* removal and the policies are each shown to take only the steps that the *)
(* saver's and the policies' proofs allow for; what was proved there then  *)
(* holds of the composition.                                               *)
(***************************************************************************)
EXTENDS ChatSession, SavePolicies_proofs

\* A session that was admitted has a room; one that posts has a message.
RoomInv ==
    \A c \in Clients :
        /\ client[c].stage \notin {"away", "checked"} => client[c].room \in Rooms
        /\ client[c].stage = "appending" => client[c].msg \in Messages

\* From the call of stop() on, no session and no removal is under way.
QuietInv ==
    stop.stage # "no" =>
        /\ \A c \in Clients : client[c].stage = "away"
        /\ remover.stage \in {"idle", "over"}

StageNames == {"away"} \union Joining \union Posting \union Parting

Standings == [stage : StageNames, room : Rooms \union {NoRoom},
              msg : Messages \union {NoMessage}, peers : SUBSET Clients]

Removals == [stage : {"idle", "removed", "saving", "closing", "over"},
             actors : SUBSET Actors, targets : SUBSET Clients]

MovedFitly(c) ==
    /\ client' \in [Clients -> Standings]
    /\ \A d \in Clients \ {c} : client'[d] = client[d]
    /\ client'[c].stage \notin {"away", "checked"} => client'[c].room \in Rooms
    /\ client'[c].stage = "appending" => client'[c].msg \in Messages

SessionInv == SessionTypeOK /\ RoomInv /\ QuietInv

-----------------------------------------------------------------------------
(* The steps of the sessions and of the removal, seen by the saver.        *)

\* A failure that touches nothing is one clear_room may have met.
LEMMA LoneFault ==
  ASSUME Fault, UNCHANGED <<storeVars, roomVars, callVars, histVars>>
  PROVE  RoomStep
  BY DEF RoomStep, ClearFails, storeVars, roomVars, histVars

\* A session is no task of a policy, and calls the saver in its own name.
LEMMA ClientIsSaver ==
  ASSUME NEW c \in Clients
  PROVE  c \in Savers /\ c # Periodic /\ Remover \in Savers /\ Remover # Periodic
  BY SessionAssumption, PolicyAssumption

\* What on_client_left does before it first suspends.
LEMMA ClientLeftOfSaver ==
  ASSUME NEW c \in Clients, OnClientLeft(c)
  PROVE  /\ SaveStep(c) \/ UNCHANGED saverVars
         /\ RoomClosed \/ UNCHANGED policyVars
  BY DEF OnClientLeft, SaveStep, Proceeds, Completes, allVars

\* A session's step is one of its own call of the saver, one of the rooms, or
\* none that the saver sees.
LEMMA ClientStepOfSaver ==
  ASSUME SessionInv, SaverTypeOK, NEW c \in Clients, ClientStep(c)
  PROVE  SaveStep(c) \/ RoomStep \/ UNCHANGED saverVars
<1>1. CASE CheckAccess(c) \/ JoinFails(c) \/ Enter(c) \/ StartServing(c) \/ HangUp(c)
  BY <1>1 DEF CheckAccess, JoinFails, Enter, StartServing, HangUp, allVars
<1>2. CASE \E p \in Clients : SendTo(c, p)
  BY <1>2 DEF SendTo, allVars
<1>3. CASE GetRoom(c)
  BY <1>3 DEF GetRoom, RoomStep
<1>4. CASE Announce(c)
  BY <1>4, LoneFault DEF Announce
<1>5. ASSUME NEW m \in Messages, Post(c, m)
      PROVE  RoomStep
  BY <1>5 DEF Post, RoomStep, SessionInv, RoomInv
<1>6. CASE Posted(c)
  BY <1>6 DEF Posted, RoomStep, SessionInv, RoomInv
<1>7. CASE PostFails(c)
  BY <1>7, LoneFault DEF PostFails, RoomStep, SessionInv, RoomInv
<1>8. CASE PublishModified(c)
  BY <1>8 DEF PublishModified
<1>9. CASE EnterFails(c) \/ Depart(c) \/ Left(c)
  BY <1>9, ClientLeftOfSaver DEF EnterFails, Depart, Left, allVars
<1>10. CASE CloseSaves(c)
  BY <1>10 DEF CloseSaves, SaveStep
<1>11. CASE CloseClears(c) \/ CloseUnregisters(c)
  BY <1>11 DEF CloseClears, CloseUnregisters, RoomStep
<1>12. CASE Unlist(c)
  BY <1>12, LoneFault DEF Unlist
<1> QED
  BY <1>1, <1>2, <1>3, <1>4, <1>5, <1>6, <1>7, <1>8, <1>9, <1>10, <1>11, <1>12
     DEF ClientStep, ClientRuns, PartingStep

\* So is a step of the removal.
LEMMA RemoverStepOfSaver ==
  ASSUME RemoverStep \/ \E a \in Actors : RemoveMember(a) \/ AddMember(a)
  PROVE  /\ SaveStep(Remover) \/ UNCHANGED saverVars
         /\ UNCHANGED policyVars
  BY DEF RemoverStep, RemoveMember, AddMember, RemoverSaves, RemoverDone, CloseTarget, SaveStep,
         allVars

\* To the policies a session's step is a room event, or nothing.
LEMMA ClientStepOfPolicy ==
  ASSUME SessionInv, NEW c \in Clients, ClientStep(c)
  PROVE  RoomEvent \/ UNCHANGED policyVars
<1>1. client[c].stage # "away" => stop.stage = "no"
  BY DEF SessionInv, QuietInv
<1>2. CASE CheckAccess(c) \/ JoinFails(c) \/ Enter(c) \/ StartServing(c) \/ HangUp(c)
           \/ GetRoom(c) \/ Announce(c)
  BY <1>2 DEF CheckAccess, JoinFails, Enter, StartServing, HangUp, GetRoom, Announce, allVars
<1>3. CASE \E p \in Clients : SendTo(c, p)
  BY <1>3 DEF SendTo, allVars
<1>4. CASE (\E m \in Messages : Post(c, m)) \/ Posted(c) \/ PostFails(c)
  BY <1>4 DEF Post, Posted, PostFails
<1>5. CASE PublishModified(c)
  BY <1>1, <1>5 DEF PublishModified, RoomEvent
<1>6. CASE EnterFails(c) \/ Depart(c) \/ Left(c)
  <2>1. client[c].stage # "away"
    BY <1>6 DEF EnterFails, Depart, Departing, Left
  <2> QED
    BY <1>1, <1>6, <2>1, ClientLeftOfSaver DEF EnterFails, Depart, Left, RoomEvent, allVars
<1>7. CASE CloseSaves(c) \/ CloseClears(c) \/ CloseUnregisters(c) \/ Unlist(c)
  BY <1>7 DEF CloseSaves, CloseClears, CloseUnregisters, Unlist
<1> QED
  BY <1>2, <1>3, <1>4, <1>5, <1>6, <1>7 DEF ClientStep, ClientRuns, PartingStep

-----------------------------------------------------------------------------
(* Each step of the system is one of the saver's and one of the policies'. *)

\* The stores, the rooms and the saver are used as ChatRoomSaver allows.
LEMMA NextOfSaver ==
  ASSUME SessionInv, SaverTypeOK, [Next]_vars
  PROVE  [SaverNext]_saverVars
<1>1. ASSUME NEW c \in Clients, ClientStep(c)
      PROVE  [SaverNext]_saverVars
  BY <1>1, ClientStepOfSaver, ClientIsSaver DEF SaverNext
<1>2. CASE PolicyStep \/ StopPolicies
  <2>1. Watchers \union {Periodic} \subseteq Savers
    BY PolicyAssumption
  <2> QED
    BY <1>2, <2>1, PolicyStepOfSaver DEF SaverNext, StopPolicies
<1>3. CASE RemoverStep \/ \E a \in Actors : RemoveMember(a) \/ AddMember(a)
  BY <1>3, RemoverStepOfSaver, SessionAssumption DEF SaverNext
<1>4. CASE SessionRestart
  BY <1>4 DEF SessionRestart, SaverNext
<1>5. CASE UNCHANGED vars
  BY <1>5 DEF vars, allVars
<1> QED
  BY <1>1, <1>2, <1>3, <1>4, <1>5 DEF Next

\* Room events reach the policies while nobody has called stop().
LEMMA NextOfPolicy ==
  ASSUME SessionInv, [Next]_vars
  PROVE  \/ PolicyStep \/ StopStep
         \/ RoomEvent
         \/ PolicyRestart
         \/ UNCHANGED policyVars
<1>1. ASSUME NEW c \in Clients, ClientStep(c)
      PROVE  RoomEvent \/ UNCHANGED policyVars
  BY <1>1, ClientStepOfPolicy
<1>2. CASE PolicyStep \/ StopPolicies \/ SessionRestart
  BY <1>2 DEF StopPolicies, SessionRestart
<1>3. CASE RemoverStep \/ \E a \in Actors : RemoveMember(a) \/ AddMember(a)
  BY <1>3, RemoverStepOfSaver
<1>4. CASE UNCHANGED vars
  BY <1>4 DEF vars, allVars
<1> QED
  BY <1>1, <1>2, <1>3, <1>4 DEF Next

-----------------------------------------------------------------------------
(* What the sessions and the removal keep of their own.                    *)

\* Nobody is in the room of a process that has just started.
LEMMA SessionInitially == Init => SessionInv
  BY SessionAssumption
     DEF Init, SessionInit, PolicyInit, Running, SessionInv, SessionTypeOK, RoomInv, QuietInv,
         Away, NoRemoval

\* A broadcast leaves the session where it stands but for stage and peers.
LEMMA BroadcastStands ==
  ASSUME client \in [Clients -> Standings], NEW c \in Clients, NEW stage \in StageNames,
         NEW peers \in SUBSET Clients, Broadcast(c, stage, peers)
  PROVE  /\ client' \in [Clients -> Standings]
         /\ client'[c].stage = stage
         /\ client'[c].room = client[c].room
         /\ \A d \in Clients \ {c} : client'[d] = client[d]
<1> DEFINE k == client[c]
           m == client'[c]
<1>1. k \in Standings /\ m = [k EXCEPT !.stage = stage, !.peers = peers]
  BY DEF Broadcast
<1>2. m \in Standings /\ m.stage = stage /\ m.room = k.room
  <2> HIDE DEF k, m
  <2> QED
    BY <1>1 DEF Standings
<1> QED
  BY <1>2 DEF Broadcast

\* A session's step moves that session, to where its room and its message
\* are what its stage requires.
LEMMA ClientMoved ==
  ASSUME SessionInv, NEW c \in Clients, MovedFitly(c)
  PROVE  client' \in [Clients -> Standings] /\ RoomInv'
  BY DEF SessionInv, SessionTypeOK, RoomInv, MovedFitly, Standings, StageNames

\* on_client_left leaves the session in its room.
LEMMA ClientLeftMoves ==
  ASSUME SessionInv, NEW c \in Clients, OnClientLeft(c), client[c].room \in Rooms
  PROVE  MovedFitly(c)
<1>1. client \in [Clients -> Standings] /\ {"unlisting", "closing", "clearing"} \subseteq StageNames
  BY DEF SessionInv, SessionTypeOK, Standings, StageNames, Parting
<1>2. \E stage \in {"unlisting", "closing", "clearing"} : Broadcast(c, stage, {})
  BY DEF OnClientLeft
<1> QED
  BY <1>1, <1>2, BroadcastStands DEF MovedFitly

\* Every step of a session but its hanging up moves it so.
LEMMA ClientStepMoves ==
  ASSUME SessionInv, SaverTypeOK, NEW c \in Clients, ClientStep(c)
  PROVE  MovedFitly(c)
<1>1. /\ client \in [Clients -> Standings] /\ RoomInv
      /\ client[c].stage \notin {"away", "checked"} => client[c].room \in Rooms
  BY DEF SessionInv, SessionTypeOK, RoomInv, Standings, StageNames
<1>0. {"away", "admitted", "entering", "appending", "posting", "broken", "leaving"}
        \subseteq StageNames
  BY DEF StageNames, Joining, Posting, Parting
<1> USE <1>1 DEF MovedFitly
<1>2. CASE CheckAccess(c)
  BY <1>2 DEF CheckAccess, Stage, StageNames, Joining, Standings
<1>3. CASE JoinFails(c) \/ Unlist(c)
  BY <1>3 DEF JoinFails, Unlist, Away, StageNames, Standings
<1>4. CASE Enter(c)
  <2>1. conns[client[c].room] \union {c} \in SUBSET Clients
    BY <1>4 DEF Enter, SessionInv, SessionTypeOK
  <2> QED
    BY <1>0, <1>4, <2>1, BroadcastStands DEF Enter
<1>5. CASE StartServing(c) \/ PublishModified(c)
  BY <1>5 DEF StartServing, PublishModified, Stage, StageNames, Posting, Standings
<1>6. CASE HangUp(c)
  BY <1>6 DEF HangUp, RoomInv
<1>7. ASSUME NEW p \in Clients, SendTo(c, p)
      PROVE  MovedFitly(c)
  BY <1>7 DEF SendTo, Standings
<1>8. CASE GetRoom(c)
  <2>1. registered' \in Rooms
    BY <1>8 DEF GetRoom, RegisterRoom, SaverTypeOK, saverVars, roomVars
  <2> DEFINE k == client[c]
             m == client'[c]
  <2>2. k \in Standings /\ m = [k EXCEPT !.stage = "admitted", !.room = registered']
    BY <1>8 DEF GetRoom
  <2>3. m \in Standings
    <3> HIDE DEF k, m
    <3> QED
      BY <1>0, <2>1, <2>2 DEF Standings
  <2> QED
    BY <1>8, <2>1, <2>3 DEF GetRoom
<1>9. CASE Announce(c)
  BY <1>9 DEF Announce, Stage, StageNames, Joining, Standings
<1>10. ASSUME NEW m0 \in Messages, Post(c, m0)
      PROVE  MovedFitly(c)
  <2> DEFINE k == client[c]
             m == client'[c]
  <2>1. k \in Standings /\ m = [k EXCEPT !.stage = "appending", !.msg = m0]
    BY <1>10 DEF Post
  <2>2. m \in Standings
    <3> HIDE DEF k, m
    <3> QED
      BY <1>0, <2>1 DEF Standings
  <2> QED
    BY <1>10, <2>2 DEF Post
<1>11. CASE Posted(c)
  <2>1. conns[client[c].room] \in SUBSET Clients
    BY <1>11 DEF Posted, SessionInv, SessionTypeOK
  <2> DEFINE k == client[c]
             m == client'[c]
  <2>2. k \in Standings /\ m = [k EXCEPT !.stage = "posting", !.msg = NoMessage,
                                        !.peers = conns[client[c].room]]
    BY <1>11 DEF Posted
  <2>3. m \in Standings
    <3> HIDE DEF k, m
    <3> QED
      BY <1>0, <2>1, <2>2 DEF Standings
  <2> QED
    BY <1>11, <2>1, <2>3 DEF Posted
<1>12. CASE PostFails(c)
  <2> DEFINE k == client[c]
             m == client'[c]
  <2>1. k \in Standings /\ m = [k EXCEPT !.stage = "broken", !.msg = NoMessage]
    BY <1>12 DEF PostFails
  <2>2. m \in Standings
    <3> HIDE DEF k, m
    <3> QED
      BY <1>0, <2>1 DEF Standings
  <2> QED
    BY <1>12, <2>2 DEF PostFails
<1>13. CASE EnterFails(c) \/ Left(c)
  BY <1>13, ClientLeftMoves DEF EnterFails, Left
<1>14. CASE Depart(c)
  <2>1. conns[client[c].room] \ {c} \in SUBSET Clients /\ client[c].room \in Rooms
    BY <1>14 DEF Depart, Departing, SessionInv, SessionTypeOK
  <2>2. OnClientLeft(c) \/ Broadcast(c, "leaving", conns[client[c].room] \ {c})
    BY <1>14 DEF Depart
  <2> QED
    BY <1>0, <2>1, <2>2, ClientLeftMoves, BroadcastStands
<1>15. CASE CloseSaves(c)
  <2>1. CASE UNCHANGED client
    BY <2>1, <1>15 DEF CloseSaves, RoomInv
  <2>2. CASE Stage(c, "clearing")
    BY <1>15, <2>2 DEF CloseSaves, Stage, StageNames, Parting, Standings
  <2> QED
    BY <1>15, <2>1, <2>2 DEF CloseSaves
<1>16. CASE CloseClears(c) \/ CloseUnregisters(c)
  BY <1>16 DEF CloseClears, CloseUnregisters, Stage, StageNames, Parting, Standings
<1> QED
  BY <1>2, <1>3, <1>4, <1>5, <1>6, <1>7, <1>8, <1>9, <1>10, <1>11, <1>12, <1>13, <1>14, <1>15,
     <1>16 DEF ClientStep, ClientRuns, PartingStep

\* What the step does to the rooms' connections, the sockets and the lists.
LEMMA ClientStepShared ==
  ASSUME SessionInv, SaverTypeOK, NEW c \in Clients, ClientStep(c)
  PROVE  /\ conns' \in [Rooms -> SUBSET Clients]
         /\ socket' \in [Clients -> {"open", "hungup", "shut"}]
         /\ presence' \in SUBSET Actors
         /\ UNCHANGED <<members, remover>>
<1> USE SessionAssumption DEF SessionInv, SessionTypeOK
<1>1. CASE CheckAccess(c) \/ JoinFails(c) \/ StartServing(c) \/ HangUp(c) \/ GetRoom(c)
  BY <1>1 DEF CheckAccess, JoinFails, StartServing, HangUp, GetRoom
<1>2. CASE Enter(c)
  BY <1>2 DEF Enter
<1>3. ASSUME NEW p \in Clients, SendTo(c, p)
      PROVE  socket' \in [Clients -> {"open", "hungup", "shut"}]
             /\ UNCHANGED <<conns, presence, members, remover>>
  BY <1>3 DEF SendTo
<1>4. CASE Announce(c) \/ Unlist(c)
  BY <1>4 DEF Announce, Unlist
<1>5. CASE (\E m \in Messages : Post(c, m)) \/ Posted(c) \/ PostFails(c) \/ PublishModified(c)
  BY <1>5 DEF Post, Posted, PostFails, PublishModified
<1>6. CASE EnterFails(c) \/ Left(c)
  BY <1>6 DEF EnterFails, Left
<1>7. CASE Depart(c)
  BY <1>7 DEF Depart
<1>8. CASE CloseSaves(c) \/ CloseClears(c) \/ CloseUnregisters(c)
  BY <1>8 DEF CloseSaves, CloseClears, CloseUnregisters
<1> QED
  BY <1>1, <1>2, <1>3, <1>4, <1>5, <1>6, <1>7, <1>8 DEF ClientStep, ClientRuns, PartingStep

\* After the call of stop() no session begins.
LEMMA ClientStepQuiet ==
  ASSUME SessionInv, NEW c \in Clients, ClientStep(c)
  PROVE  QuietInv'
<1> USE DEF SessionInv, QuietInv
<1>1. CASE stop.stage # "no"
  <2>1. client[c].stage = "away"
    BY <1>1
  <2>2. HangUp(c)
    BY <1>1, <2>1 DEF ClientStep, ClientRuns, PartingStep, CheckAccess, GetRoom, JoinFails,
       Announce, Enter, SendTo, StartServing, Post, Posted, PostFails, PublishModified,
       EnterFails, Departing, Depart, Left, CloseSaves, CloseClears, CloseUnregisters, Unlist
  <2> QED
    BY <2>2 DEF HangUp, allVars, policyVars
<1>2. CASE stop.stage = "no"
  BY <1>2, ClientStepOfPolicy DEF RoomEvent, RoomModified, RoomClosed, policyVars
<1> QED
  BY <1>1, <1>2 DEF SessionTypeOK

\* The sessions' own invariant is kept by every step of the system.
LEMMA SessionInductive ==
  ASSUME SessionInv, SaverTypeOK, [Next]_vars
  PROVE  SessionInv'
<1>1. ASSUME NEW c \in Clients, ClientStep(c)
      PROVE  SessionInv'
  <2>1. MovedFitly(c)
    BY <1>1, ClientStepMoves
  <2>2. client' \in [Clients -> Standings] /\ RoomInv'
    BY <2>1, ClientMoved
  <2>3. SessionTypeOK'
    BY <1>1, <2>2, ClientStepShared DEF SessionInv, SessionTypeOK, Standings, StageNames
  <2> QED
    BY <1>1, <2>2, <2>3, ClientStepQuiet DEF SessionInv
<1>2. CASE PolicyStep /\ UNCHANGED sessionVars
  <2>2. stop.stage = stop.stage'
    BY <1>2 DEF PolicyStep, WatcherStep, StartWatching, WakeIdle, WakeSave, WatcherSaves,
       WatcherCancelled, DelayPasses, SweepSpawn, SweepSaves
  <2> QED
    BY <1>2, <2>2 DEF SessionInv, sessionVars, SessionTypeOK, RoomInv, QuietInv
<1>3. CASE StopPolicies
  BY <1>3 DEF StopPolicies, SessionInv, sessionVars, SessionTypeOK, RoomInv, QuietInv
<1>4. ASSUME NEW a \in Actors, RemoveMember(a) \/ AddMember(a)
      PROVE  SessionInv'
  BY <1>4 DEF RemoveMember, AddMember, SessionInv, SessionTypeOK, RoomInv, QuietInv, allVars,
     policyVars
<1>5. CASE RemoverStep
  <2>1. remover' \in Removals
    <3> USE DEF SessionInv, SessionTypeOK
    <3>0. remover \in Removals
      BY DEF Removals
    <3>1. CASE RemoverSaves
      <4>1. CASE remover' = [remover EXCEPT !.stage = "saving"]
        BY <3>0, <4>1 DEF Removals
      <4>2. CASE remover' = [remover EXCEPT !.stage = "closing", !.targets = Targets]
        <5>1. Targets \in SUBSET Clients
          BY DEF Targets, SaverTypeOK
        <5> QED
          BY <3>0, <4>2, <5>1 DEF Removals
      <4>3. CASE remover' = [remover EXCEPT !.stage = "over"]
        BY <3>0, <4>3 DEF Removals
      <4> QED
        BY <3>1, <4>1, <4>2, <4>3 DEF RemoverSaves
    <3>2. CASE RemoverDone
      BY <3>0, <3>2 DEF RemoverDone, Removals
    <3>3. ASSUME NEW c \in Clients, CloseTarget(c)
          PROVE  remover' \in Removals
      <4>1. CASE remover' = [remover EXCEPT !.targets = @ \ {c}]
        BY <3>0, <4>1 DEF Removals
      <4>2. CASE remover' = [remover EXCEPT !.stage = "over", !.targets = {}]
        BY <3>0, <4>2 DEF Removals
      <4> QED
        BY <3>3, <4>1, <4>2 DEF CloseTarget
    <3> QED
      BY <1>5, <3>1, <3>2, <3>3 DEF RemoverStep
  <2>2. socket' \in [Clients -> {"open", "hungup", "shut"}]
    BY <1>5 DEF RemoverStep, RemoverSaves, RemoverDone, CloseTarget, SessionInv, SessionTypeOK
  <2>3. stop.stage = "no" /\ UNCHANGED <<policyVars, members, presence, conns, client>>
    BY <1>5 DEF RemoverStep, RemoverSaves, RemoverDone, CloseTarget, SessionInv, QuietInv, allVars
  <2> QED
    BY <2>1, <2>2, <2>3 DEF Removals, policyVars, SessionInv, SessionTypeOK, RoomInv, QuietInv
<1>6. CASE SessionRestart
  BY <1>6 DEF SessionRestart, PolicyRestart, Running, Away, NoRemoval, SessionInv, SessionTypeOK,
     RoomInv, QuietInv
<1>7. CASE UNCHANGED vars
  BY <1>7 DEF vars, sessionVars, allVars, policyVars, SessionInv, SessionTypeOK, RoomInv, QuietInv
<1> QED
  BY <1>1, <1>2, <1>3, <1>4, <1>5, <1>6, <1>7 DEF Next

-----------------------------------------------------------------------------
(* The presence set.                                                       *)

\* A session between its SADD and its SREM.
Listed(c) == client[c].stage \notin {"away", "checked", "admitted"}

\* What a session's step may do to the presence set, unless Redis fails: a
\* session on the way out takes its actor along.
LEMMA ClientStepPresence ==
  ASSUME SessionInv, SaverTypeOK, NEW c \in Clients, ClientStep(c)
  PROVE  \/ presence' \subseteq presence /\ (Listed(c) => Listed(c)')
         \/ presence' \subseteq presence \union {ActorOf[c]} /\ Listed(c)'
         \/ presence' \subseteq presence \ {ActorOf[c]}
         \/ faults' # 0
<1> USE SaverAssumption DEF SessionInv, SessionTypeOK, SaverTypeOK, Fault, Listed
<1>1. CASE CheckAccess(c) \/ JoinFails(c) \/ StartServing(c)
  BY <1>1 DEF CheckAccess, JoinFails, StartServing, Stage
<1>2. CASE HangUp(c) \/ GetRoom(c)
  BY <1>2 DEF HangUp, GetRoom
<1>3. CASE Announce(c)
  BY <1>3 DEF Announce, Stage
<1>4. CASE Enter(c) \/ \E p \in Clients : SendTo(c, p)
  BY <1>4 DEF Enter, SendTo, Broadcast
<1>5. CASE (\E m \in Messages : Post(c, m)) \/ Posted(c) \/ PostFails(c) \/ PublishModified(c)
  BY <1>5 DEF Post, Posted, PostFails, PublishModified, Stage
<1>6. CASE EnterFails(c) \/ Depart(c) \/ Left(c)
  BY <1>6 DEF EnterFails, Depart, Left, OnClientLeft, Broadcast
<1>7. CASE CloseSaves(c) \/ CloseUnregisters(c)
  BY <1>7 DEF CloseSaves, CloseUnregisters, Stage
<1>8. CASE CloseClears(c)
  BY <1>8 DEF CloseClears, ClearFails
<1>9. CASE Unlist(c)
  BY <1>9 DEF Unlist
<1> QED
  BY <1>1, <1>2, <1>3, <1>4, <1>5, <1>6, <1>7, <1>8, <1>9
     DEF ClientStep, ClientRuns, PartingStep

\* No step of the system leaves a ghost on the list.
LEMMA PresenceKept ==
  ASSUME SessionInv, SaverTypeOK, NoGhostPresence, [Next]_vars
  PROVE  NoGhostPresence'
<1> SUFFICES ASSUME faults' = 0, NEW a \in presence'
             PROVE  \E c \in Clients : ActorOf[c] = a /\ Listed(c)'
  BY DEF NoGhostPresence, Listed
<1>1. \A b \in presence : \E d \in Clients : ActorOf[d] = b /\ Listed(d)
  BY NextOfSaver, FaultsGrow DEF NoGhostPresence, Listed
<1>2. ASSUME NEW c \in Clients, ClientStep(c)
      PROVE  \E d \in Clients : ActorOf[d] = a /\ Listed(d)'
  <2>1. \A d \in Clients \ {c} : Listed(d)' = Listed(d)
    BY <1>2, ClientStepMoves DEF MovedFitly, Listed
  <2>2. CASE presence' \subseteq presence /\ (Listed(c) => Listed(c)')
    BY <1>1, <2>1, <2>2
  <2>3. CASE presence' \subseteq presence \union {ActorOf[c]} /\ Listed(c)'
    BY <1>1, <2>1, <2>3
  <2>4. CASE presence' \subseteq presence \ {ActorOf[c]}
    BY <1>1, <2>1, <2>4
  <2> QED
    BY <1>2, <2>2, <2>3, <2>4, ClientStepPresence
<1>3. CASE UNCHANGED <<presence, client>>
  BY <1>1, <1>3 DEF Listed
<1>4. CASE SessionRestart
  BY <1>4, SaverAssumption DEF SessionRestart, Restart, Fault, SaverTypeOK
<1>5. ASSUME NEW b \in Actors, RemoveMember(b) \/ AddMember(b)
      PROVE  UNCHANGED <<presence, client>>
  BY <1>5 DEF RemoveMember, AddMember
<1>6. CASE RemoverStep \/ StopPolicies \/ UNCHANGED vars
  BY <1>3, <1>6 DEF RemoverStep, RemoverSaves, RemoverDone, CloseTarget, StopPolicies,
     sessionVars, vars
<1> QED
  BY <1>2, <1>3, <1>4, <1>5, <1>6 DEF Next, sessionVars

-----------------------------------------------------------------------------
(* The policies among the sessions.                                        *)

\* A session or a removal never steps for the sweep's task.
LEMMA NextKeepsSweep ==
  ASSUME SessionInv, SavingInv, PolicyInv, [Next]_vars
  PROVE  SweepInv'
<1> USE DEF SavingInv, SaverInv, PolicyInv
<1>1. ASSUME NEW s \in Savers, s # Periodic, SaveStep(s) \/ RoomStep \/ UNCHANGED saverVars
      PROVE  call'[Periodic] = call[Periodic]
  <2>1. CASE SaveStep(s)
    BY <1>1, <2>1, OthersStay, PolicyAssumption
  <2>2. CASE RoomStep
    BY <2>2 DEF RoomStep, AppendPending, MarkDirty, AppendFails, RegisterRoom, RemoveRoom,
       ClearRoom, ClearFails, callVars, roomVars
  <2>3. CASE UNCHANGED saverVars
    BY <2>3 DEF saverVars, callVars
  <2> QED
    BY <1>1, <2>1, <2>2, <2>3
<1>2. ASSUME NEW c \in Clients, ClientStep(c)
      PROVE  SweepInv'
  <2>1. call'[Periodic] = call[Periodic]
    BY <1>1, <1>2, ClientStepOfSaver, ClientIsSaver
  <2>2. sweep' = sweep
    BY <1>2, ClientStepOfPolicy DEF RoomEvent, RoomModified, RoomClosed, policyVars
  <2> QED
    BY <2>1, <2>2 DEF SweepInv
<1>3. CASE PolicyStep \/ StopPolicies
  BY <1>3, PolicyKeepsSweep DEF StopPolicies
<1>4. CASE RemoverStep \/ \E a \in Actors : RemoveMember(a) \/ AddMember(a)
  <2>1. call'[Periodic] = call[Periodic]
    BY <1>1, <1>4, RemoverStepOfSaver, SessionAssumption
  <2> QED
    BY <1>4, <2>1, RemoverStepOfSaver DEF SweepInv, policyVars
<1>5. CASE SessionRestart
  BY <1>5, PolicyAssumption DEF SessionRestart, Restart, SweepInv, Idle
<1>6. CASE UNCHANGED vars
  BY <1>6 DEF vars, allVars, saverVars, callVars, policyVars, SweepInv
<1> QED
  BY <1>2, <1>3, <1>4, <1>5, <1>6 DEF Next

\* The inductive invariant of the whole live side.
SystemInv == SessionInv /\ SavingInv /\ PolicyInv /\ NoGhostPresence

LEMMA SystemInitially == Init => SystemInv
<1>1. Init => NoGhostPresence
  BY DEF Init, SessionInit, NoGhostPresence
<1> QED
  BY <1>1, SessionInitially, SavingInitially, PolicyInitially DEF Init, SystemInv

\* Each step of the system keeps it.
LEMMA SystemInductive == SystemInv /\ [Next]_vars => SystemInv' /\ [SaverNext]_saverVars
<1> SUFFICES ASSUME SystemInv, [Next]_vars
             PROVE  SystemInv' /\ [SaverNext]_saverVars
  OBVIOUS
<1>1. SaverTypeOK /\ [SaverNext]_saverVars
  BY NextOfSaver DEF SystemInv, SavingInv, SaverInv
<1>2. SessionInv' /\ NoGhostPresence'
  BY <1>1, SessionInductive, PresenceKept DEF SystemInv
<1>3. SavingInv'
  BY <1>1, SavingStep DEF SystemInv
<1>4. PolicyInv'
  BY <1>1, NextOfPolicy, NextKeepsSweep, PolicyKeepsWatch, ModificationKept
     DEF SystemInv, PolicyInv
<1> QED
  BY <1>1, <1>2, <1>3, <1>4 DEF SystemInv

\* The invariant, at every step.
LEMMA SystemInvariant == Spec => []SystemInv
  BY SystemInitially, SystemInductive, PTL DEF Spec

-----------------------------------------------------------------------------
(* The results.                                                            *)

\* The sessions, the closing of rooms, the removal of members and the
\* policies use the saver and its stores as ChatRoomSaver allows: what the
\* other modules prove of SaverSpec holds of the system.
THEOREM SessionKeepsSaver == Spec => KeepsSaverSpec
<1>1. Init => SaverInit
  BY DEF Init
<1> QED
  BY <1>1, SystemInitially, SystemInductive, PTL DEF Spec, KeepsSaverSpec, SaverSpec

\* Type correctness of the sessions' state.
THEOREM SessionTypeCorrect == Spec => []SessionTypeOK
<1>1. SystemInv => SessionTypeOK
  BY DEF SystemInv, SessionInv
<1> QED
  BY <1>1, SystemInvariant, PTL

\* While Redis answers, an actor on the presence set has a session that is
\* still to take him off (chat_room_presence.py).
THEOREM SessionLeavesNoGhost == Spec => []NoGhostPresence
<1>1. SystemInv => NoGhostPresence
  BY DEF SystemInv
<1> QED
  BY <1>1, SystemInvariant, PTL

\* Debounce stays switched on, watches what it remembers and is through when
\* stop() is, under everything that sessions and removals do.
THEOREM SessionKeepsPolicies ==
  Spec => [](PolicyTypeOK /\ TrackedWatcherRuns /\ ModificationIsWatched /\ StopEndsSaves)
<1>1. SystemInv => PolicyTypeOK /\ TrackedWatcherRuns /\ ModificationIsWatched /\ StopEndsSaves
  BY StopEnds DEF SystemInv, PolicyInv, WatchInv
<1> QED
  BY <1>1, SystemInvariant, PTL

\* Two saves of the chat never overlap, whether a session closing the room, a
\* removal, a watcher or the sweep calls; a message is stored once, and lost
\* only to a clear_room.
THEOREM SessionSavesSafely == Spec => [](SaveMutex /\ StoredAtMostOnce /\ LossOnlyByClearing)
<1>1. SystemInv => SaveMutex /\ StoredAtMostOnce /\ LossOnlyByClearing
  BY DEF SystemInv, SavingInv, SaverInv, LockInv, RowInv, TraceInv, SaveMutex, StoredAtMostOnce,
         LossOnlyByClearing
<1> QED
  BY <1>1, SystemInvariant, PTL

\* The promise of MessageDurability is kept by the whole live side: what is
\* stored stays stored, and a message is only ever lost with its room.
THEOREM SessionKeepsDurability == Spec => KeepsMessageDurability
<1>1. Spec => SaverSpec
  BY SessionKeepsSaver DEF KeepsSaverSpec
<1> QED
  BY <1>1, SaverImplementsDurability
=============================================================================
