------------------------- MODULE ChatDelivery_proofs -------------------------
(***************************************************************************)
(* ChatDelivery, proved for any set of clients and of messages: what is    *)
(* not delivered is late, crossing or deprived, and nothing else.          *)
(***************************************************************************)
EXTENDS ChatDelivery, TLAPS

\* An accepted message is in one of the stores, whatever a save does, and so
\* is a message whose append took effect.
Kept ==
    /\ batch \subseteq rows
    /\ accepted \subseteq pending \union rows
    /\ \A c \in Clients :
          /\ client[c].listed \subseteq pending \union rows
          /\ client[c].stage \in {"appending", "posting"} =>
                client[c].msg \in Messages \intersect (pending \union rows)

\* Sessions inside are among the connections, leaving ones no more.
Placed ==
    \A c \in Clients :
        /\ client[c].stage \in Inside => c \in conns
        /\ client[c].stage = "leaving" => c \notin conns

\* What the history of a session has up to each of its reads.
HistoryInv ==
    \A c \in Clients :
        /\ client[c].stage \in {"listing", "loading"} =>
              rows \subseteq seen[c] \union crossing[c]
        /\ client[c].stage = "loading" =>
              accepted \subseteq seen[c] \union crossing[c] \union late[c]
                            \union client[c].listed
        /\ client[c].stage \in {"sending", "announcing"} =>
              accepted \subseteq seen[c] \union crossing[c] \union late[c]

DeliveryInv ==
    /\ DeliveryTypeOK
    /\ Kept
    /\ Placed
    /\ HistoryInv
    /\ NothingElseIsMissed
    /\ RosterFollowsRoom

-----------------------------------------------------------------------------
\* Assigning one field of a session keeps the sessions' type.
LEMMA UpdateStage ==
    ASSUME NEW c \in Clients, NEW f \in [Clients -> ClientState],
           NEW x \in Stages
    PROVE  [f EXCEPT ![c].stage = x] \in [Clients -> ClientState]
BY DEF ClientState

\* The same for listed.
LEMMA UpdateListed ==
    ASSUME NEW c \in Clients, NEW f \in [Clients -> ClientState],
           NEW x \in SUBSET Messages
    PROVE  [f EXCEPT ![c].listed = x] \in [Clients -> ClientState]
BY DEF ClientState

\* The same for msg.
LEMMA UpdateMsg ==
    ASSUME NEW c \in Clients, NEW f \in [Clients -> ClientState],
           NEW x \in Messages \union {NoMessage}
    PROVE  [f EXCEPT ![c].msg = x] \in [Clients -> ClientState]
BY DEF ClientState

\* The same for peers.
LEMMA UpdatePeers ==
    ASSUME NEW c \in Clients, NEW f \in [Clients -> ClientState],
           NEW x \in SUBSET Clients
    PROVE  [f EXCEPT ![c].peers = x] \in [Clients -> ClientState]
BY DEF ClientState

\* What the program starts with.
LEMMA InitDelivery == Init => DeliveryInv
<1> SUFFICES ASSUME Init PROVE DeliveryInv
    OBVIOUS
<1> USE DeliveryAssumption DEF Init, Session, Stages, Reading, Inside
<1>1. DeliveryTypeOK
    BY DEF DeliveryTypeOK, ClientState
<1>2. Kept /\ Placed /\ HistoryInv
    BY DEF Kept, Placed, HistoryInv
<1>3. NothingElseIsMissed
    BY DEF NothingElseIsMissed
<1>4. RosterFollowsRoom
    BY DEF RosterFollowsRoom, Reached
<1> QED
    BY <1>1, <1>2, <1>3, <1>4 DEF DeliveryInv

\* The broadcast of a message is on its way to q.
LEMMA ComingMessage ==
    ASSUME NEW q, NEW x \in Messages
    PROVE  Coming(q, x) <=> \E s \in Clients : /\ q \in client[s].peers
                                             /\ client[s].stage = "posting"
                                             /\ x = client[s].msg
<1>1. x \notin Clients
    BY DeliveryAssumption
<1> QED
    BY <1>1 DEF Coming

\* The broadcast of an arrival or a departure is.
LEMMA ComingClient ==
    ASSUME Kept, NEW q, NEW d \in Clients
    PROVE  Coming(q, d) <=> /\ q \in client[d].peers
                            /\ client[d].stage \in {"entering", "leaving"}
<1>1. \A s \in Clients : client[s].stage = "posting" => d # client[s].msg
    BY DeliveryAssumption DEF Kept
<1> QED
    BY <1>1 DEF Coming

\* Every step keeps the types.
LEMMA TypeStep ==
    DeliveryTypeOK /\ Kept /\ [Next]_vars => DeliveryTypeOK'
<1> SUFFICES ASSUME DeliveryTypeOK, Kept, [Next]_vars
             PROVE  DeliveryTypeOK'
    OBVIOUS
<1> USE DeliveryAssumption DEF vars, storeVars, viewVars, missVars,
       DeliveryTypeOK, Stages, Reading, Inside, Kept
<1>1. CASE SaveInserts
    BY <1>1 DEF SaveInserts
<1>2. CASE SaveEnds
    BY <1>2 DEF SaveEnds
<1>3. ASSUME NEW c \in Clients, QueryRows(c) PROVE DeliveryTypeOK'
    <2>1. client' \in [Clients -> ClientState]
        <3> DEFINE f1 == [client EXCEPT ![c].stage = "listing"]
        <3>1. f1 \in [Clients -> ClientState]
            BY UpdateStage DEF DeliveryTypeOK
        <3> QED
            BY <1>3, <3>1 DEF QueryRows, Stage
    <2> QED
        BY <1>3, <2>1 DEF QueryRows, Stage
<1>4. ASSUME NEW c \in Clients, ListPending(c) PROVE DeliveryTypeOK'
    <2>1. client' \in [Clients -> ClientState]
        <3> DEFINE f1 == [client EXCEPT ![c].stage = "loading"]
        <3> DEFINE f2 == [f1 EXCEPT ![c].listed = pending]
        <3>1. f1 \in [Clients -> ClientState]
            BY UpdateStage DEF DeliveryTypeOK
        <3>2. f2 \in [Clients -> ClientState]
            BY UpdateListed, <3>1 DEF DeliveryTypeOK
        <3> QED
            BY <1>4, <3>2 DEF ListPending
    <2> QED
        BY <1>4, <2>1 DEF ListPending
<1>5. ASSUME NEW c \in Clients, LoadPending(c) PROVE DeliveryTypeOK'
    <2>1. client' \in [Clients -> ClientState]
        <3> DEFINE f1 == [client EXCEPT ![c].stage = "sending"]
        <3> DEFINE f2 == [f1 EXCEPT ![c].listed = {}]
        <3>1. f1 \in [Clients -> ClientState]
            BY UpdateStage DEF DeliveryTypeOK
        <3>2. f2 \in [Clients -> ClientState]
            BY UpdateListed, <3>1 DEF DeliveryTypeOK
        <3> QED
            BY <1>5, <3>2 DEF LoadPending
    <2> QED
        BY <1>5, <2>1 DEF LoadPending
<1>6. ASSUME NEW c \in Clients, SendHistory(c) PROVE DeliveryTypeOK'
    <2>1. client' \in [Clients -> ClientState]
        <3> DEFINE f1 == [client EXCEPT ![c].stage = "announcing"]
        <3>1. f1 \in [Clients -> ClientState]
            BY UpdateStage DEF DeliveryTypeOK
        <3> QED
            BY <1>6, <3>1 DEF SendHistory, Stage
    <2> QED
        BY <1>6, <2>1 DEF SendHistory, Stage
<1>7. ASSUME NEW c \in Clients, JoinFails(c) PROVE DeliveryTypeOK'
    <2>1. client' \in [Clients -> ClientState]
        BY <1>7 DEF JoinFails, Over, Session, ClientState
    <2> QED
        BY <1>7, <2>1 DEF JoinFails, Over
<1>8. ASSUME NEW c \in Clients, Enter(c) PROVE DeliveryTypeOK'
    <2>1. client' \in [Clients -> ClientState]
        <3> DEFINE f1 == [client EXCEPT ![c].stage = "entering"]
        <3> DEFINE f2 == [f1 EXCEPT ![c].peers = conns']
        <3>1. f1 \in [Clients -> ClientState]
            BY UpdateStage DEF DeliveryTypeOK
        <3>2. f2 \in [Clients -> ClientState]
            <4> conns' \in SUBSET Clients
                BY <1>8 DEF Enter
            <4> HIDE DEF f1
            <4> QED
                BY UpdatePeers, <3>1
        <3> QED
            BY <1>8, <3>2 DEF Enter
    <2> QED
        BY <1>8, <2>1 DEF Enter
<1>9. ASSUME NEW c \in Clients, EnterFails(c) PROVE DeliveryTypeOK'
    <2>1. client' \in [Clients -> ClientState]
        BY <1>9 DEF EnterFails, Over, Session, ClientState
    <2> QED
        BY <1>9, <2>1 DEF EnterFails, Over, Deprive
<1>10. ASSUME NEW c \in Clients, StartServing(c) PROVE DeliveryTypeOK'
    <2>1. client' \in [Clients -> ClientState]
        <3> DEFINE f1 == [client EXCEPT ![c].stage = "serving"]
        <3>1. f1 \in [Clients -> ClientState]
            BY UpdateStage DEF DeliveryTypeOK
        <3> QED
            BY <1>10, <3>1 DEF StartServing, Stage
    <2> QED
        BY <1>10, <2>1 DEF StartServing, Stage
<1>11. ASSUME NEW c \in Clients, NEW m \in Messages, Post(c, m) PROVE DeliveryTypeOK'
    <2>1. client' \in [Clients -> ClientState]
        <3> DEFINE f1 == [client EXCEPT ![c].stage = "appending"]
        <3> DEFINE f2 == [f1 EXCEPT ![c].msg = m]
        <3>1. f1 \in [Clients -> ClientState]
            BY UpdateStage DEF DeliveryTypeOK
        <3>2. f2 \in [Clients -> ClientState]
            BY UpdateMsg, <3>1 DEF DeliveryTypeOK
        <3> QED
            BY <1>11, <3>2 DEF Post
    <2> QED
        BY <1>11, <2>1 DEF Post
<1>12. ASSUME NEW c \in Clients, Posted(c) PROVE DeliveryTypeOK'
    <2>1. client' \in [Clients -> ClientState]
        <3> DEFINE f1 == [client EXCEPT ![c].stage = "posting"]
        <3> DEFINE f2 == [f1 EXCEPT ![c].peers = conns]
        <3>1. f1 \in [Clients -> ClientState]
            BY UpdateStage DEF DeliveryTypeOK
        <3>2. f2 \in [Clients -> ClientState]
            BY UpdatePeers, <3>1 DEF DeliveryTypeOK
        <3> QED
            BY <1>12, <3>2 DEF Posted
    <2> QED
        BY <1>12, <2>1 DEF Posted
<1>13. ASSUME NEW c \in Clients, PostFails(c) PROVE DeliveryTypeOK'
    <2>1. client' \in [Clients -> ClientState]
        <3> DEFINE f1 == [client EXCEPT ![c].stage = "broken"]
        <3> DEFINE f2 == [f1 EXCEPT ![c].msg = NoMessage]
        <3>1. f1 \in [Clients -> ClientState]
            BY UpdateStage DEF DeliveryTypeOK
        <3>2. f2 \in [Clients -> ClientState]
            BY UpdateMsg, <3>1 DEF DeliveryTypeOK
        <3> QED
            BY <1>13, <3>2 DEF PostFails
    <2> QED
        BY <1>13, <2>1 DEF PostFails
<1>14. ASSUME NEW c \in Clients, PostDone(c) PROVE DeliveryTypeOK'
    <2>1. client' \in [Clients -> ClientState]
        <3> DEFINE f1 == [client EXCEPT ![c].stage = "serving"]
        <3> DEFINE f2 == [f1 EXCEPT ![c].msg = NoMessage]
        <3>1. f1 \in [Clients -> ClientState]
            BY UpdateStage DEF DeliveryTypeOK
        <3>2. f2 \in [Clients -> ClientState]
            BY UpdateMsg, <3>1 DEF DeliveryTypeOK
        <3> QED
            BY <1>14, <3>2 DEF PostDone
    <2> QED
        BY <1>14, <2>1 DEF PostDone
<1>15. ASSUME NEW c \in Clients, Leave(c) PROVE DeliveryTypeOK'
    <2>1. client' \in [Clients -> ClientState]
        <3> DEFINE f1 == [client EXCEPT ![c].stage = "leaving"]
        <3> DEFINE f2 == [f1 EXCEPT ![c].msg = NoMessage]
        <3> DEFINE f3 == [f2 EXCEPT ![c].peers = conns']
        <3>1. f1 \in [Clients -> ClientState]
            BY UpdateStage DEF DeliveryTypeOK
        <3>2. f2 \in [Clients -> ClientState]
            BY UpdateMsg, <3>1 DEF DeliveryTypeOK
        <3>3. f3 \in [Clients -> ClientState]
            <4> conns' \in SUBSET Clients
                BY <1>15 DEF Leave
            <4> HIDE DEF f2
            <4> QED
                BY UpdatePeers, <3>2
        <3> QED
            BY <1>15, <3>3 DEF Leave
    <2> QED
        BY <1>15, <2>1 DEF Leave, Deprive
<1>16. ASSUME NEW c \in Clients, Left(c) PROVE DeliveryTypeOK'
    <2>1. client' \in [Clients -> ClientState]
        BY <1>16 DEF Left, Over, Session, ClientState
    <2> QED
        BY <1>16, <2>1 DEF Left, Over, Deprive
<1>17. ASSUME NEW c \in Clients, NEW p \in Clients, Send(c, p) PROVE DeliveryTypeOK'
    <2>1. client[c].peers \ {p} \in SUBSET Clients
        BY DEF ClientState
    <2>2. client' \in [Clients -> ClientState]
        BY <1>17, <2>1, UpdatePeers DEF Send
    <2>3. CASE client[c].stage = "posting"
        <3>1. client[c].msg \in Messages
            BY <2>3
        <3> QED
            BY <1>17, <2>2, <2>3, <3>1 DEF Send, Receive
    <2>4. CASE client[c].stage = "entering"
        BY <1>17, <2>2, <2>4 DEF Send, Receive
    <2>5. CASE client[c].stage = "leaving"
        BY <1>17, <2>2, <2>5 DEF Send, Receive
    <2> QED
        BY <1>17, <2>3, <2>4, <2>5 DEF Send
<1>18. ASSUME NEW c \in Clients, HangUp(c) PROVE DeliveryTypeOK'
    BY <1>18 DEF HangUp
<1>19. ASSUME NEW c \in Clients, Disconnect(c) PROVE DeliveryTypeOK'
    BY <1>19 DEF Disconnect
<1>20. CASE UNCHANGED vars
    BY <1>20
<1> QED
    BY <1>1, <1>2, <1>3, <1>4, <1>5, <1>6, <1>7, <1>8, <1>9, <1>10,
       <1>11, <1>12, <1>13, <1>14, <1>15, <1>16, <1>17, <1>18,
       <1>19, <1>20
    DEF Next, Joins, Serves

\* No step takes a message out of both stores.
LEMMA KeptStep ==
    DeliveryTypeOK /\ Kept /\ [Next]_vars => Kept'
<1> SUFFICES ASSUME DeliveryTypeOK, Kept, [Next]_vars
             PROVE  Kept'
    OBVIOUS
<1> USE DeliveryAssumption DEF vars, storeVars, viewVars, missVars,
       DeliveryTypeOK, Stages, Reading, Inside, Kept
<1>1. CASE SaveInserts
    BY <1>1 DEF SaveInserts
<1>2. CASE SaveEnds
    BY <1>2 DEF SaveEnds
<1>3. ASSUME NEW c \in Clients, QueryRows(c) PROVE Kept'
    BY <1>3 DEF QueryRows, Stage
<1>4. ASSUME NEW c \in Clients, ListPending(c) PROVE Kept'
    BY <1>4 DEF ListPending
<1>5. ASSUME NEW c \in Clients, LoadPending(c) PROVE Kept'
    BY <1>5 DEF LoadPending
<1>6. ASSUME NEW c \in Clients, SendHistory(c) PROVE Kept'
    BY <1>6 DEF SendHistory, Stage
<1>7. ASSUME NEW c \in Clients, JoinFails(c) PROVE Kept'
    BY <1>7 DEF JoinFails, Over, Session
<1>8. ASSUME NEW c \in Clients, Enter(c) PROVE Kept'
    BY <1>8 DEF Enter
<1>9. ASSUME NEW c \in Clients, EnterFails(c) PROVE Kept'
    BY <1>9 DEF EnterFails, Over, Session, Deprive, Raises
<1>10. ASSUME NEW c \in Clients, StartServing(c) PROVE Kept'
    BY <1>10 DEF StartServing, Stage
<1>11. ASSUME NEW c \in Clients, NEW m \in Messages, Post(c, m) PROVE Kept'
    BY <1>11 DEF Post
<1>12. ASSUME NEW c \in Clients, Posted(c) PROVE Kept'
    BY <1>12 DEF Posted
<1>13. ASSUME NEW c \in Clients, PostFails(c) PROVE Kept'
    BY <1>13 DEF PostFails
<1>14. ASSUME NEW c \in Clients, PostDone(c) PROVE Kept'
    BY <1>14 DEF PostDone
<1>15. ASSUME NEW c \in Clients, Leave(c) PROVE Kept'
    BY <1>15 DEF Leave, Departing, Deprive, Raises
<1>16. ASSUME NEW c \in Clients, Left(c) PROVE Kept'
    BY <1>16 DEF Left, Over, Session, Deprive, Raises
<1>17. ASSUME NEW c \in Clients, NEW p \in Clients, Send(c, p) PROVE Kept'
    BY <1>17 DEF Send, Receive
<1>18. ASSUME NEW c \in Clients, HangUp(c) PROVE Kept'
    BY <1>18 DEF HangUp
<1>19. ASSUME NEW c \in Clients, Disconnect(c) PROVE Kept'
    BY <1>19 DEF Disconnect
<1>20. CASE UNCHANGED vars
    BY <1>20
<1> QED
    BY <1>1, <1>2, <1>3, <1>4, <1>5, <1>6, <1>7, <1>8, <1>9, <1>10,
       <1>11, <1>12, <1>13, <1>14, <1>15, <1>16, <1>17, <1>18,
       <1>19, <1>20
    DEF Next, Joins, Serves

\* A session enters the connections before and leaves them after it is inside.
LEMMA PlacedStep ==
    DeliveryTypeOK /\ Placed /\ [Next]_vars => Placed'
<1> SUFFICES ASSUME DeliveryTypeOK, Placed, [Next]_vars
             PROVE  Placed'
    OBVIOUS
<1> USE DeliveryAssumption DEF vars, storeVars, viewVars, missVars,
       DeliveryTypeOK, Stages, Reading, Inside, Placed
<1>1. CASE SaveInserts
    BY <1>1 DEF SaveInserts
<1>2. CASE SaveEnds
    BY <1>2 DEF SaveEnds
<1>3. ASSUME NEW c \in Clients, QueryRows(c) PROVE Placed'
    BY <1>3 DEF QueryRows, Stage
<1>4. ASSUME NEW c \in Clients, ListPending(c) PROVE Placed'
    BY <1>4 DEF ListPending
<1>5. ASSUME NEW c \in Clients, LoadPending(c) PROVE Placed'
    BY <1>5 DEF LoadPending
<1>6. ASSUME NEW c \in Clients, SendHistory(c) PROVE Placed'
    BY <1>6 DEF SendHistory, Stage
<1>7. ASSUME NEW c \in Clients, JoinFails(c) PROVE Placed'
    BY <1>7 DEF JoinFails, Over, Session
<1>8. ASSUME NEW c \in Clients, Enter(c) PROVE Placed'
    BY <1>8 DEF Enter
<1>9. ASSUME NEW c \in Clients, EnterFails(c) PROVE Placed'
    BY <1>9 DEF EnterFails, Over, Session, Deprive, Raises
<1>10. ASSUME NEW c \in Clients, StartServing(c) PROVE Placed'
    BY <1>10 DEF StartServing, Stage
<1>11. ASSUME NEW c \in Clients, NEW m \in Messages, Post(c, m) PROVE Placed'
    BY <1>11 DEF Post
<1>12. ASSUME NEW c \in Clients, Posted(c) PROVE Placed'
    BY <1>12 DEF Posted
<1>13. ASSUME NEW c \in Clients, PostFails(c) PROVE Placed'
    BY <1>13 DEF PostFails
<1>14. ASSUME NEW c \in Clients, PostDone(c) PROVE Placed'
    BY <1>14 DEF PostDone
<1>15. ASSUME NEW c \in Clients, Leave(c) PROVE Placed'
    BY <1>15 DEF Leave, Departing, Deprive, Raises
<1>16. ASSUME NEW c \in Clients, Left(c) PROVE Placed'
    BY <1>16 DEF Left, Over, Session, Deprive, Raises
<1>17. ASSUME NEW c \in Clients, NEW p \in Clients, Send(c, p) PROVE Placed'
    BY <1>17 DEF Send, Receive
<1>18. ASSUME NEW c \in Clients, HangUp(c) PROVE Placed'
    BY <1>18 DEF HangUp
<1>19. ASSUME NEW c \in Clients, Disconnect(c) PROVE Placed'
    BY <1>19 DEF Disconnect
<1>20. CASE UNCHANGED vars
    BY <1>20
<1> QED
    BY <1>1, <1>2, <1>3, <1>4, <1>5, <1>6, <1>7, <1>8, <1>9, <1>10,
       <1>11, <1>12, <1>13, <1>14, <1>15, <1>16, <1>17, <1>18,
       <1>19, <1>20
    DEF Next, Joins, Serves

\* Between the reads of a session, what it lacks is noted as crossing or late.
LEMMA HistoryStep ==
    DeliveryTypeOK /\ Kept /\ HistoryInv /\ [Next]_vars => HistoryInv'
<1> SUFFICES ASSUME DeliveryTypeOK, Kept, HistoryInv, [Next]_vars
             PROVE  HistoryInv'
    OBVIOUS
<1> USE DeliveryAssumption DEF vars, storeVars, viewVars, missVars,
       DeliveryTypeOK, Stages, Reading, Inside, Kept, HistoryInv
<1>1. CASE SaveInserts
    BY <1>1 DEF SaveInserts
<1>2. CASE SaveEnds
    BY <1>2 DEF SaveEnds
<1>3. ASSUME NEW c \in Clients, QueryRows(c) PROVE HistoryInv'
    BY <1>3 DEF QueryRows, Stage
<1>4. ASSUME NEW c \in Clients, ListPending(c) PROVE HistoryInv'
    BY <1>4 DEF ListPending
<1>5. ASSUME NEW c \in Clients, LoadPending(c) PROVE HistoryInv'
    BY <1>5 DEF LoadPending
<1>6. ASSUME NEW c \in Clients, SendHistory(c) PROVE HistoryInv'
    BY <1>6 DEF SendHistory, Stage
<1>7. ASSUME NEW c \in Clients, JoinFails(c) PROVE HistoryInv'
    BY <1>7 DEF JoinFails, Over, Session
<1>8. ASSUME NEW c \in Clients, Enter(c) PROVE HistoryInv'
    BY <1>8 DEF Enter
<1>9. ASSUME NEW c \in Clients, EnterFails(c) PROVE HistoryInv'
    BY <1>9 DEF EnterFails, Over, Session, Deprive, Raises
<1>10. ASSUME NEW c \in Clients, StartServing(c) PROVE HistoryInv'
    BY <1>10 DEF StartServing, Stage
<1>11. ASSUME NEW c \in Clients, NEW m \in Messages, Post(c, m) PROVE HistoryInv'
    BY <1>11 DEF Post
<1>12. ASSUME NEW c \in Clients, Posted(c) PROVE HistoryInv'
    BY <1>12 DEF Posted
<1>13. ASSUME NEW c \in Clients, PostFails(c) PROVE HistoryInv'
    BY <1>13 DEF PostFails
<1>14. ASSUME NEW c \in Clients, PostDone(c) PROVE HistoryInv'
    BY <1>14 DEF PostDone
<1>15. ASSUME NEW c \in Clients, Leave(c) PROVE HistoryInv'
    BY <1>15 DEF Leave, Departing, Deprive, Raises
<1>16. ASSUME NEW c \in Clients, Left(c) PROVE HistoryInv'
    BY <1>16 DEF Left, Over, Session, Deprive, Raises
<1>17. ASSUME NEW c \in Clients, NEW p \in Clients, Send(c, p) PROVE HistoryInv'
    <2>1. \A q \in Clients : /\ client'[q].stage = client[q].stage
                             /\ client'[q].listed = client[q].listed
        BY <1>17 DEF Send, ClientState
    <2>2. CASE client[c].stage = "posting"
        <3>1. \A q \in Clients : seen[q] \subseteq seen'[q]
            BY <1>17, <2>2 DEF Send, Receive
        <3> QED
            BY <1>17, <2>1, <3>1 DEF Send
    <2>3. CASE client[c].stage # "posting"
        <3>1. seen' = seen
            BY <1>17, <2>3 DEF Send, Receive
        <3> QED
            BY <1>17, <2>1, <3>1 DEF Send
    <2> QED
        BY <2>2, <2>3
<1>18. ASSUME NEW c \in Clients, HangUp(c) PROVE HistoryInv'
    BY <1>18 DEF HangUp
<1>19. ASSUME NEW c \in Clients, Disconnect(c) PROVE HistoryInv'
    BY <1>19 DEF Disconnect
<1>20. CASE UNCHANGED vars
    BY <1>20
<1> QED
    BY <1>1, <1>2, <1>3, <1>4, <1>5, <1>6, <1>7, <1>8, <1>9, <1>10,
       <1>11, <1>12, <1>13, <1>14, <1>15, <1>16, <1>17, <1>18,
       <1>19, <1>20
    DEF Next, Joins, Serves

\* A broadcast goes on, ends, or is cut short at the expense of those noted.
LEMMA MissedStep ==
    DeliveryTypeOK /\ Kept /\ HistoryInv /\ NothingElseIsMissed /\ [Next]_vars
        => NothingElseIsMissed'
<1> SUFFICES ASSUME DeliveryTypeOK, Kept, HistoryInv, NothingElseIsMissed, [Next]_vars
             PROVE  NothingElseIsMissed'
    OBVIOUS
<1> USE DeliveryAssumption DEF vars, storeVars, viewVars, missVars,
       DeliveryTypeOK, Stages, Reading, Inside, HistoryInv
<1>1. CASE SaveInserts
    BY <1>1 DEF SaveInserts, NothingElseIsMissed, Reached, Coming
<1>2. CASE SaveEnds
    BY <1>2 DEF SaveEnds, NothingElseIsMissed, Reached, Coming
<1>3. ASSUME NEW c \in Clients, QueryRows(c) PROVE NothingElseIsMissed'
    BY <1>3 DEF QueryRows, Stage, NothingElseIsMissed, Reached, Coming
<1>4. ASSUME NEW c \in Clients, ListPending(c) PROVE NothingElseIsMissed'
    <2> SUFFICES ASSUME NEW q \in Reached', NEW x \in accepted'
                 PROVE  \/ x \in seen'[q] \union late'[q] \union crossing'[q] \union deprived'[q]
                        \/ Coming(q, x)'
        BY DEF NothingElseIsMissed
    <2>1. q \in Reached /\ x \in accepted
        BY <1>4 DEF ListPending, Reached
    <2>2. CASE x \in seen[q] \union late[q] \union crossing[q] \union deprived[q]
        BY <1>4, <2>1, <2>2 DEF ListPending, Reached
    <2>3. ASSUME NEW s \in Clients, q \in client[s].peers, client[s].stage = "posting",
                 x = client[s].msg
          PROVE  Coming(q, x)' 
        BY <1>4, <2>3 DEF ListPending, Coming
    <2> QED
        BY <2>1, <2>2, <2>3, ComingMessage DEF NothingElseIsMissed, Reached
<1>5. ASSUME NEW c \in Clients, LoadPending(c) PROVE NothingElseIsMissed'
    BY <1>5 DEF LoadPending, NothingElseIsMissed, Reached, Coming
<1>6. ASSUME NEW c \in Clients, SendHistory(c) PROVE NothingElseIsMissed'
    BY <1>6 DEF SendHistory, Stage, NothingElseIsMissed, Reached, Coming
<1>7. ASSUME NEW c \in Clients, JoinFails(c) PROVE NothingElseIsMissed'
    BY <1>7 DEF JoinFails, Over, Session, NothingElseIsMissed, Reached, Coming
<1>8. ASSUME NEW c \in Clients, Enter(c) PROVE NothingElseIsMissed'
    <2> SUFFICES ASSUME NEW q \in Reached', NEW x \in accepted'
                 PROVE  \/ x \in seen'[q] \union late'[q] \union crossing'[q] \union deprived'[q]
                        \/ Coming(q, x)'
        BY DEF NothingElseIsMissed
    <2>1. x \in accepted /\ UNCHANGED <<seen, late, crossing, deprived>>
        BY <1>8 DEF Enter
    <2>2. CASE q = c
        BY <1>8, <2>1, <2>2 DEF Enter
    <2>3. CASE q # c
        <3>1. q \in Reached
            BY <1>8, <2>3 DEF Enter, Reached
        <3>2. ASSUME NEW s \in Clients, q \in client[s].peers, client[s].stage = "posting",
                     x = client[s].msg
              PROVE  Coming(q, x)'
            BY <1>8, <3>2 DEF Enter, Coming
        <3> QED
            BY <2>1, <3>1, <3>2, ComingMessage DEF NothingElseIsMissed, Reached
    <2> QED
        BY <2>2, <2>3
<1>9. ASSUME NEW c \in Clients, EnterFails(c) PROVE NothingElseIsMissed'
    <2> SUFFICES ASSUME NEW q \in Reached', NEW x \in accepted'
                 PROVE  \/ x \in seen'[q] \union late'[q] \union crossing'[q] \union deprived'[q]
                        \/ Coming(q, x)'
        BY DEF NothingElseIsMissed
    <2>1. q \in Reached /\ x \in accepted
        BY <1>9 DEF EnterFails, Over, Session, Deprive, Reached
    <2>2. CASE x \in seen[q] \union late[q] \union crossing[q] \union deprived[q]
        BY <1>9, <2>1, <2>2 DEF EnterFails, Over, Session, Deprive, Reached
    <2>3. ASSUME NEW s \in Clients, q \in client[s].peers, client[s].stage = "posting",
                 x = client[s].msg
          PROVE  Coming(q, x)' 
        BY <1>9, <2>3 DEF EnterFails, Over, Session, Deprive, Coming
    <2> QED
        BY <2>1, <2>2, <2>3, ComingMessage DEF NothingElseIsMissed, Reached
<1>10. ASSUME NEW c \in Clients, StartServing(c) PROVE NothingElseIsMissed'
    BY <1>10 DEF StartServing, Stage, NothingElseIsMissed, Reached, Coming
<1>11. ASSUME NEW c \in Clients, NEW m \in Messages, Post(c, m) PROVE NothingElseIsMissed'
    <2> SUFFICES ASSUME NEW q \in Reached', NEW x \in accepted'
                 PROVE  \/ x \in seen'[q] \union late'[q] \union crossing'[q] \union deprived'[q]
                        \/ Coming(q, x)'
        BY DEF NothingElseIsMissed
    <2>1. q \in Reached /\ x \in accepted
        BY <1>11 DEF Post, Reached
    <2>2. CASE x \in seen[q] \union late[q] \union crossing[q] \union deprived[q]
        BY <1>11, <2>1, <2>2 DEF Post, Reached
    <2>3. ASSUME NEW s \in Clients, q \in client[s].peers, client[s].stage = "posting",
                 x = client[s].msg
          PROVE  Coming(q, x)' 
        BY <1>11, <2>3 DEF Post, Coming
    <2> QED
        BY <2>1, <2>2, <2>3, ComingMessage DEF NothingElseIsMissed, Reached
<1>12. ASSUME NEW c \in Clients, Posted(c) PROVE NothingElseIsMissed'
    <2> SUFFICES ASSUME NEW q \in Reached', NEW x \in accepted'
                 PROVE  \/ x \in seen'[q] \union late'[q] \union crossing'[q] \union deprived'[q]
                        \/ Coming(q, x)'
        BY DEF NothingElseIsMissed
    <2>1. q \in Reached /\ UNCHANGED <<seen, crossing, deprived>> /\ late[q] \subseteq late'[q]
        BY <1>12 DEF Posted, Reached
    <2>2. CASE x = client[c].msg
        <3>1. /\ q \in client'[c].peers
              /\ client'[c].stage = "posting" /\ x = client'[c].msg
            BY <1>12, <2>1, <2>2 DEF Posted, Reached, ClientState
        <3> QED
            BY <3>1 DEF Coming
    <2>3. CASE x # client[c].msg
        <3>1. x \in accepted
            BY <1>12, <2>3 DEF Posted
        <3>2. ASSUME NEW s \in Clients, q \in client[s].peers, client[s].stage = "posting",
                     x = client[s].msg
              PROVE  Coming(q, x)'
            BY <1>12, <3>2 DEF Posted, Coming
        <3> QED
            BY <2>1, <3>1, <3>2, ComingMessage DEF NothingElseIsMissed, Reached
    <2> QED
        BY <2>2, <2>3
<1>13. ASSUME NEW c \in Clients, PostFails(c) PROVE NothingElseIsMissed'
    <2> SUFFICES ASSUME NEW q \in Reached', NEW x \in accepted'
                 PROVE  \/ x \in seen'[q] \union late'[q] \union crossing'[q] \union deprived'[q]
                        \/ Coming(q, x)'
        BY DEF NothingElseIsMissed
    <2>1. q \in Reached /\ x \in accepted
        BY <1>13 DEF PostFails, Reached
    <2>2. CASE x \in seen[q] \union late[q] \union crossing[q] \union deprived[q]
        BY <1>13, <2>1, <2>2 DEF PostFails, Reached
    <2>3. ASSUME NEW s \in Clients, q \in client[s].peers, client[s].stage = "posting",
                 x = client[s].msg
          PROVE  Coming(q, x)' 
        BY <1>13, <2>3 DEF PostFails, Coming
    <2> QED
        BY <2>1, <2>2, <2>3, ComingMessage DEF NothingElseIsMissed, Reached
<1>14. ASSUME NEW c \in Clients, PostDone(c) PROVE NothingElseIsMissed'
    <2> SUFFICES ASSUME NEW q \in Reached', NEW x \in accepted'
                 PROVE  \/ x \in seen'[q] \union late'[q] \union crossing'[q] \union deprived'[q]
                        \/ Coming(q, x)'
        BY DEF NothingElseIsMissed
    <2>1. q \in Reached /\ x \in accepted
        BY <1>14 DEF PostDone, Reached
    <2>2. CASE x \in seen[q] \union late[q] \union crossing[q] \union deprived[q]
        BY <1>14, <2>1, <2>2 DEF PostDone, Reached
    <2>3. ASSUME NEW s \in Clients, q \in client[s].peers, client[s].stage = "posting",
                 x = client[s].msg
          PROVE  Coming(q, x)' 
        BY <1>14, <2>3 DEF PostDone, Coming
    <2> QED
        BY <2>1, <2>2, <2>3, ComingMessage DEF NothingElseIsMissed, Reached
<1>15. ASSUME NEW c \in Clients, Leave(c) PROVE NothingElseIsMissed'
    BY <1>15 DEF Leave, Departing, Deprive, Raises, NothingElseIsMissed, Reached, Coming
<1>16. ASSUME NEW c \in Clients, Left(c) PROVE NothingElseIsMissed'
    <2> SUFFICES ASSUME NEW q \in Reached', NEW x \in accepted'
                 PROVE  \/ x \in seen'[q] \union late'[q] \union crossing'[q] \union deprived'[q]
                        \/ Coming(q, x)'
        BY DEF NothingElseIsMissed
    <2>1. q \in Reached /\ x \in accepted
        BY <1>16 DEF Left, Over, Session, Deprive, Reached
    <2>2. CASE x \in seen[q] \union late[q] \union crossing[q] \union deprived[q]
        BY <1>16, <2>1, <2>2 DEF Left, Over, Session, Deprive, Reached
    <2>3. ASSUME NEW s \in Clients, q \in client[s].peers, client[s].stage = "posting",
                 x = client[s].msg
          PROVE  Coming(q, x)' 
        BY <1>16, <2>3 DEF Left, Over, Session, Deprive, Coming
    <2> QED
        BY <2>1, <2>2, <2>3, ComingMessage DEF NothingElseIsMissed, Reached
<1>17. ASSUME NEW c \in Clients, NEW p \in Clients, Send(c, p) PROVE NothingElseIsMissed'
    <2> SUFFICES ASSUME NEW q \in Reached', NEW x \in accepted'
                 PROVE  \/ x \in seen'[q] \union late'[q] \union crossing'[q] \union deprived'[q]
                        \/ Coming(q, x)'
        BY DEF NothingElseIsMissed
    <2>1. /\ q \in Reached /\ q \in Clients /\ x \in accepted
          /\ UNCHANGED <<late, crossing, deprived>>
        BY <1>17 DEF Send, Reached, ClientState
    <2>2. seen[q] \subseteq seen'[q]
        <3>1. CASE client[c].stage = "posting"
            BY <1>17, <2>1, <3>1 DEF Send, Receive
        <3>2. CASE client[c].stage \in {"entering", "leaving"}
            BY <1>17, <2>1, <3>2 DEF Send, Receive
        <3> QED
            BY <1>17, <3>1, <3>2 DEF Send
    <2>3. ASSUME NEW s \in Clients, q \in client[s].peers, client[s].stage = "posting",
                 x = client[s].msg
          PROVE  Coming(q, x)' \/ x \in seen'[q]
        <3>1. CASE s = c /\ p = q
            <4>1. socket[q] = "open"
                BY <2>1 DEF Reached
            <4>2. seen' = [seen EXCEPT ![p] = @ \union {client[c].msg}]
                BY <1>17, <2>3, <3>1, <4>1 DEF Send, Receive
            <4> QED
                BY <2>1, <2>3, <3>1, <4>2
        <3>2. CASE s # c \/ p # q
            <4>1. /\ q \in client'[s].peers
                  /\ client'[s].stage = "posting" /\ x = client'[s].msg
                BY <1>17, <2>3, <3>2 DEF Send, ClientState
            <4> QED
                BY <4>1 DEF Coming
        <3> QED
            BY <3>1, <3>2
    <2> QED
        BY <2>1, <2>2, <2>3, ComingMessage DEF NothingElseIsMissed, Reached
<1>18. ASSUME NEW c \in Clients, HangUp(c) PROVE NothingElseIsMissed'
    BY <1>18 DEF HangUp, NothingElseIsMissed, Reached, Coming
<1>19. ASSUME NEW c \in Clients, Disconnect(c) PROVE NothingElseIsMissed'
    BY <1>19 DEF Disconnect, NothingElseIsMissed, Reached, Coming
<1>20. CASE UNCHANGED vars
    BY <1>20 DEF NothingElseIsMissed, Reached, Coming
<1> QED
    BY <1>1, <1>2, <1>3, <1>4, <1>5, <1>6, <1>7, <1>8, <1>9, <1>10,
       <1>11, <1>12, <1>13, <1>14, <1>15, <1>16, <1>17, <1>18,
       <1>19, <1>20
    DEF Next, Joins, Serves

\* The same for arrivals and departures.
LEMMA RosterStep ==
    DeliveryTypeOK /\ Kept /\ Placed /\ RosterFollowsRoom /\ [Next]_vars
        => RosterFollowsRoom'
<1> SUFFICES ASSUME DeliveryTypeOK, Kept, Placed, RosterFollowsRoom, [Next]_vars
             PROVE  RosterFollowsRoom'
    OBVIOUS
<1> USE DeliveryAssumption DEF vars, storeVars, viewVars, missVars,
       DeliveryTypeOK, Stages, Reading, Inside, Placed
<1>0. ASSUME NEW q, NEW d \in Clients, q \in client'[d].peers,
             client'[d].stage \in {"entering", "leaving"}
      PROVE  Coming(q, d)'
    BY <1>0 DEF Coming
<1>1. CASE SaveInserts
    BY <1>1 DEF SaveInserts, RosterFollowsRoom, Reached, Coming
<1>2. CASE SaveEnds
    BY <1>2 DEF SaveEnds, RosterFollowsRoom, Reached, Coming
<1>3. ASSUME NEW c \in Clients, QueryRows(c) PROVE RosterFollowsRoom'
    BY <1>3 DEF QueryRows, Stage, RosterFollowsRoom, Reached, Coming
<1>4. ASSUME NEW c \in Clients, ListPending(c) PROVE RosterFollowsRoom'
    <2> SUFFICES ASSUME NEW q \in Reached', NEW d \in Clients \ {q}
                 PROVE  \/ d \in roster'[q] <=> d \in conns'
                        \/ d \in deprived'[q]
                        \/ q \in client'[d].peers /\ client'[d].stage \in {"entering", "leaving"}
        BY <1>0 DEF RosterFollowsRoom, Reached
    <2>1. q \in Reached /\ deprived[q] \subseteq deprived'[q]
        BY <1>4 DEF ListPending, Reached
    <2>2. roster'[q] = roster[q] /\ conns' = conns
        BY <1>4, <2>1 DEF ListPending, Reached
    <2>3. q \in client[d].peers /\ client[d].stage \in {"entering", "leaving"} =>
             \/ q \in client'[d].peers /\ client'[d].stage \in {"entering", "leaving"}
             \/ d \in deprived'[q]
        BY <1>4, <2>1 DEF ListPending, Reached, ClientState
    <2> QED
        BY <2>1, <2>2, <2>3, ComingClient DEF RosterFollowsRoom, Reached
<1>5. ASSUME NEW c \in Clients, LoadPending(c) PROVE RosterFollowsRoom'
    BY <1>5 DEF LoadPending, RosterFollowsRoom, Reached, Coming
<1>6. ASSUME NEW c \in Clients, SendHistory(c) PROVE RosterFollowsRoom'
    BY <1>6 DEF SendHistory, Stage, RosterFollowsRoom, Reached, Coming
<1>7. ASSUME NEW c \in Clients, JoinFails(c) PROVE RosterFollowsRoom'
    BY <1>7 DEF JoinFails, Over, Session, RosterFollowsRoom, Reached, Coming
<1>8. ASSUME NEW c \in Clients, Enter(c) PROVE RosterFollowsRoom'
    BY <1>8 DEF Enter, RosterFollowsRoom, Reached, Coming
<1>9. ASSUME NEW c \in Clients, EnterFails(c) PROVE RosterFollowsRoom'
    <2> SUFFICES ASSUME NEW q \in Reached', NEW d \in Clients \ {q}
                 PROVE  \/ d \in roster'[q] <=> d \in conns'
                        \/ d \in deprived'[q]
                        \/ q \in client'[d].peers /\ client'[d].stage \in {"entering", "leaving"}
        BY <1>0 DEF RosterFollowsRoom, Reached
    <2>1. q \in Reached /\ deprived[q] \subseteq deprived'[q]
        BY <1>9 DEF EnterFails, Over, Session, Deprive, Reached
    <2>2. roster'[q] = roster[q] /\ conns' = conns
        BY <1>9, <2>1 DEF EnterFails, Over, Session, Deprive, Reached
    <2>3. q \in client[d].peers /\ client[d].stage \in {"entering", "leaving"} =>
             \/ q \in client'[d].peers /\ client'[d].stage \in {"entering", "leaving"}
             \/ d \in deprived'[q]
        BY <1>9, <2>1 DEF EnterFails, Over, Session, Deprive, Reached, ClientState
    <2> QED
        BY <2>1, <2>2, <2>3, ComingClient DEF RosterFollowsRoom, Reached
<1>10. ASSUME NEW c \in Clients, StartServing(c) PROVE RosterFollowsRoom'
    BY <1>10 DEF StartServing, Stage, RosterFollowsRoom, Reached, Coming
<1>11. ASSUME NEW c \in Clients, NEW m \in Messages, Post(c, m) PROVE RosterFollowsRoom'
    <2> SUFFICES ASSUME NEW q \in Reached', NEW d \in Clients \ {q}
                 PROVE  \/ d \in roster'[q] <=> d \in conns'
                        \/ d \in deprived'[q]
                        \/ q \in client'[d].peers /\ client'[d].stage \in {"entering", "leaving"}
        BY <1>0 DEF RosterFollowsRoom, Reached
    <2>1. q \in Reached /\ deprived[q] \subseteq deprived'[q]
        BY <1>11 DEF Post, Reached
    <2>2. roster'[q] = roster[q] /\ conns' = conns
        BY <1>11, <2>1 DEF Post, Reached
    <2>3. q \in client[d].peers /\ client[d].stage \in {"entering", "leaving"} =>
             \/ q \in client'[d].peers /\ client'[d].stage \in {"entering", "leaving"}
             \/ d \in deprived'[q]
        BY <1>11, <2>1 DEF Post, Reached, ClientState
    <2> QED
        BY <2>1, <2>2, <2>3, ComingClient DEF RosterFollowsRoom, Reached
<1>12. ASSUME NEW c \in Clients, Posted(c) PROVE RosterFollowsRoom'
    <2> SUFFICES ASSUME NEW q \in Reached', NEW d \in Clients \ {q}
                 PROVE  \/ d \in roster'[q] <=> d \in conns'
                        \/ d \in deprived'[q]
                        \/ q \in client'[d].peers /\ client'[d].stage \in {"entering", "leaving"}
        BY <1>0 DEF RosterFollowsRoom, Reached
    <2>1. q \in Reached /\ deprived[q] \subseteq deprived'[q]
        BY <1>12 DEF Posted, Reached
    <2>2. roster'[q] = roster[q] /\ conns' = conns
        BY <1>12, <2>1 DEF Posted, Reached
    <2>3. q \in client[d].peers /\ client[d].stage \in {"entering", "leaving"} =>
             \/ q \in client'[d].peers /\ client'[d].stage \in {"entering", "leaving"}
             \/ d \in deprived'[q]
        BY <1>12, <2>1 DEF Posted, Reached, ClientState
    <2> QED
        BY <2>1, <2>2, <2>3, ComingClient DEF RosterFollowsRoom, Reached
<1>13. ASSUME NEW c \in Clients, PostFails(c) PROVE RosterFollowsRoom'
    <2> SUFFICES ASSUME NEW q \in Reached', NEW d \in Clients \ {q}
                 PROVE  \/ d \in roster'[q] <=> d \in conns'
                        \/ d \in deprived'[q]
                        \/ q \in client'[d].peers /\ client'[d].stage \in {"entering", "leaving"}
        BY <1>0 DEF RosterFollowsRoom, Reached
    <2>1. q \in Reached /\ deprived[q] \subseteq deprived'[q]
        BY <1>13 DEF PostFails, Reached
    <2>2. roster'[q] = roster[q] /\ conns' = conns
        BY <1>13, <2>1 DEF PostFails, Reached
    <2>3. q \in client[d].peers /\ client[d].stage \in {"entering", "leaving"} =>
             \/ q \in client'[d].peers /\ client'[d].stage \in {"entering", "leaving"}
             \/ d \in deprived'[q]
        BY <1>13, <2>1 DEF PostFails, Reached, ClientState
    <2> QED
        BY <2>1, <2>2, <2>3, ComingClient DEF RosterFollowsRoom, Reached
<1>14. ASSUME NEW c \in Clients, PostDone(c) PROVE RosterFollowsRoom'
    <2> SUFFICES ASSUME NEW q \in Reached', NEW d \in Clients \ {q}
                 PROVE  \/ d \in roster'[q] <=> d \in conns'
                        \/ d \in deprived'[q]
                        \/ q \in client'[d].peers /\ client'[d].stage \in {"entering", "leaving"}
        BY <1>0 DEF RosterFollowsRoom, Reached
    <2>1. q \in Reached /\ deprived[q] \subseteq deprived'[q]
        BY <1>14 DEF PostDone, Reached
    <2>2. roster'[q] = roster[q] /\ conns' = conns
        BY <1>14, <2>1 DEF PostDone, Reached
    <2>3. q \in client[d].peers /\ client[d].stage \in {"entering", "leaving"} =>
             \/ q \in client'[d].peers /\ client'[d].stage \in {"entering", "leaving"}
             \/ d \in deprived'[q]
        BY <1>14, <2>1 DEF PostDone, Reached, ClientState
    <2> QED
        BY <2>1, <2>2, <2>3, ComingClient DEF RosterFollowsRoom, Reached
<1>15. ASSUME NEW c \in Clients, Leave(c) PROVE RosterFollowsRoom'
    <2> SUFFICES ASSUME NEW q \in Reached', NEW d \in Clients \ {q}
                 PROVE  \/ d \in roster'[q] <=> d \in conns'
                        \/ d \in deprived'[q]
                        \/ q \in client'[d].peers /\ client'[d].stage \in {"entering", "leaving"}
        BY <1>0 DEF RosterFollowsRoom, Reached
    <2>1. q \in Reached /\ deprived[q] \subseteq deprived'[q] /\ roster' = roster
        BY <1>15 DEF Leave, Deprive, Reached
    <2>2. CASE d = c
        <3>1. q \in conns' /\ client'[c].peers = conns' /\ client'[c].stage = "leaving"
            BY <1>15 DEF Leave, Reached, ClientState
        <3> QED
            BY <2>2, <3>1
    <2>3. CASE d # c
        <3>1. client'[d] = client[d] /\ (d \in conns' <=> d \in conns)
            BY <1>15, <2>3 DEF Leave
        <3> QED
            BY <2>1, <3>1, ComingClient DEF RosterFollowsRoom, Reached
    <2> QED
        BY <2>2, <2>3
<1>16. ASSUME NEW c \in Clients, Left(c) PROVE RosterFollowsRoom'
    <2> SUFFICES ASSUME NEW q \in Reached', NEW d \in Clients \ {q}
                 PROVE  \/ d \in roster'[q] <=> d \in conns'
                        \/ d \in deprived'[q]
                        \/ q \in client'[d].peers /\ client'[d].stage \in {"entering", "leaving"}
        BY <1>0 DEF RosterFollowsRoom, Reached
    <2>1. q \in Reached /\ deprived[q] \subseteq deprived'[q]
        BY <1>16 DEF Left, Over, Session, Deprive, Raises, Reached
    <2>2. roster'[q] = roster[q] /\ conns' = conns
        BY <1>16, <2>1 DEF Left, Over, Session, Deprive, Raises, Reached
    <2>3. q \in client[d].peers /\ client[d].stage \in {"entering", "leaving"} =>
             \/ q \in client'[d].peers /\ client'[d].stage \in {"entering", "leaving"}
             \/ d \in deprived'[q]
        BY <1>16, <2>1 DEF Left, Over, Session, Deprive, Raises, Reached, ClientState
    <2> QED
        BY <2>1, <2>2, <2>3, ComingClient DEF RosterFollowsRoom, Reached
<1>17. ASSUME NEW c \in Clients, NEW p \in Clients, Send(c, p) PROVE RosterFollowsRoom'
    <2> SUFFICES ASSUME NEW q \in Reached', NEW d \in Clients \ {q}
                 PROVE  \/ d \in roster'[q] <=> d \in conns'
                        \/ d \in deprived'[q]
                        \/ q \in client'[d].peers /\ client'[d].stage \in {"entering", "leaving"}
        BY <1>0 DEF RosterFollowsRoom, Reached
    <2>1. q \in Reached /\ q \in Clients /\ deprived' = deprived /\ conns' = conns
        BY <1>17 DEF Send, Reached, ClientState
    <2>2. CASE d = c /\ p = q /\ client[c].stage # "posting"
        <3>1. socket[p] = "open" /\ c \in Clients \ {q}
            BY <2>1, <2>2 DEF Reached
        <3>2. CASE client[c].stage = "entering"
            BY <1>17, <2>1, <2>2, <3>1, <3>2 DEF Send, Receive
        <3>3. CASE client[c].stage = "leaving"
            BY <1>17, <2>1, <2>2, <3>1, <3>3 DEF Send, Receive
        <3> QED
            BY <1>17, <2>2, <3>2, <3>3 DEF Send
    <2>3. CASE d # c \/ p # q \/ client[c].stage = "posting"
        <3>1. d \in roster'[q] <=> d \in roster[q]
            <4>1. CASE client[c].stage = "posting"
                BY <1>17, <4>1 DEF Send, Receive
            <4>2. CASE client[c].stage = "entering"
                BY <1>17, <2>1, <2>3, <4>2 DEF Send, Receive
            <4>3. CASE client[c].stage = "leaving"
                BY <1>17, <2>1, <2>3, <4>3 DEF Send, Receive
            <4> QED
                BY <1>17, <4>1, <4>2, <4>3 DEF Send
        <3>2. /\ client'[d].stage = client[d].stage
              /\ q \in client[d].peers /\ client[d].stage # "posting" => q \in client'[d].peers
            BY <1>17, <2>3 DEF Send, ClientState
        <3> QED
            BY <2>1, <3>1, <3>2, ComingClient DEF RosterFollowsRoom, Reached
    <2> QED
        BY <2>2, <2>3
<1>18. ASSUME NEW c \in Clients, HangUp(c) PROVE RosterFollowsRoom'
    BY <1>18 DEF HangUp, RosterFollowsRoom, Reached, Coming
<1>19. ASSUME NEW c \in Clients, Disconnect(c) PROVE RosterFollowsRoom'
    BY <1>19 DEF Disconnect, RosterFollowsRoom, Reached, Coming
<1>20. CASE UNCHANGED vars
    BY <1>20 DEF RosterFollowsRoom, Reached, Coming
<1> QED
    BY <1>1, <1>2, <1>3, <1>4, <1>5, <1>6, <1>7, <1>8, <1>9, <1>10,
       <1>11, <1>12, <1>13, <1>14, <1>15, <1>16, <1>17, <1>18,
       <1>19, <1>20
    DEF Next, Joins, Serves

\* The conjunction is an invariant of the specification.
THEOREM DeliveryInvariant == Spec => []DeliveryInv
<1>1. DeliveryInv /\ [Next]_vars => DeliveryInv'
    BY TypeStep, KeptStep, PlacedStep, HistoryStep, MissedStep, RosterStep DEF DeliveryInv
<1> QED
    BY InitDelivery, <1>1, PTL DEF Spec

\* Type correctness of ChatDelivery, for any clients and messages.
THEOREM DeliveryTypeCorrect == Spec => []DeliveryTypeOK
BY DeliveryInvariant, PTL DEF DeliveryInv

\* A client in the room that lacks an accepted message was joining when it was
\* broadcast or moved, or its broadcast raised at a dead connection, or it is
\* on its way (room.py, _broadcast; get_chat_history.py; handlers/chat_session.py).
THEOREM DeliveryMissesNothingElse == Spec => []NothingElseIsMissed
BY DeliveryInvariant, PTL DEF DeliveryInv

\* The arrivals and departures a client was sent add up to who is in the
\* room, but for broadcasts that are on their way or raised.
THEOREM DeliveryKeepsRoster == Spec => []RosterFollowsRoom
BY DeliveryInvariant, PTL DEF DeliveryInv
=============================================================================
