---------------------------- MODULE ChatDelivery ----------------------------
(***************************************************************************)
(* What the clients of one room get to see.  A session reads the history,  *)
(* first from PostgreSQL and then from Redis, sends it, and only then      *)
(* enters the room, from where on it is sent the events of the others:     *)
(* messages, arrivals and departures.  Meanwhile messages are posted and   *)
(* saved, and sockets fail.                                                *)
(*                                                                         *)
(* A client is one connection: a user who reconnects is another client.    *)
(* The room stays registered and never empties; what the last client to    *)
(* leave does is in ChatSession, the cut of the history to a page in       *)
(* ChatHistory, and ChatRoomSaver says how a save comes to its batch.      *)
(***************************************************************************)
EXTENDS Naturals

CONSTANTS
    Clients,
    Residents,  \* the clients that are in the room to begin with
    Messages,
    NoMessage

ASSUME DeliveryAssumption ==
    /\ Residents \subseteq Clients
    /\ NoMessage \notin Messages
    /\ Clients \intersect Messages = {}

VARIABLES
    pending,    \* Redis: the pending messages
    rows,       \* PostgreSQL: the messages stored
    batch,      \* what the running save has inserted and not yet deleted
    conns,      \* LiveChatRoom._connections
    socket,     \* what a send on the client's socket meets
    client,     \* where each session stands
    seen,       \* the messages the session read or the client was sent
    roster,     \* who is in the room, as the client can tell from what it was sent
    accepted,   \* history: messages whose append returned to the sender
    late,       \* history: messages broadcast while the client, its pending
                \*   messages listed, had not entered yet
    crossing,   \* history: messages a save inserted between the client's reads
    deprived    \* history: the messages and the clients whose broadcast raised
                \*   before it reached the client

storeVars == <<pending, rows, batch>>
viewVars  == <<seen, roster>>
missVars  == <<late, crossing, deprived>>
vars      == <<storeVars, conns, socket, client, viewVars, accepted, missVars>>

\* The stages of a session are named after the await it stands at.
Reading == {"querying", "listing", "loading", "sending"}
Inside  == {"entering", "serving", "appending", "posting", "broken"}
Stages  == Reading \union Inside \union {"announcing", "leaving", "gone"}

ClientState == [stage : Stages, listed : SUBSET Messages,
                msg : Messages \union {NoMessage}, peers : SUBSET Clients]

DeliveryTypeOK ==
    /\ pending \in SUBSET Messages
    /\ rows \in SUBSET Messages
    /\ batch \in SUBSET Messages
    /\ conns \in SUBSET Clients
    /\ socket \in [Clients -> {"open", "hungup", "shut"}]
    /\ client \in [Clients -> ClientState]
    /\ seen \in [Clients -> SUBSET Messages]
    /\ roster \in [Clients -> SUBSET Clients]
    /\ accepted \in SUBSET Messages
    /\ late \in [Clients -> SUBSET Messages]
    /\ crossing \in [Clients -> SUBSET Messages]
    /\ deprived \in [Clients -> SUBSET (Messages \union Clients)]

Session(stage) == [stage |-> stage, listed |-> {}, msg |-> NoMessage, peers |-> {}]

Init ==
    /\ pending = {}
    /\ rows = {}
    /\ batch = {}
    /\ conns = Residents
    /\ socket = [c \in Clients |-> "open"]
    /\ client = [c \in Clients |->
                    Session(IF c \in Residents THEN "serving" ELSE "querying")]
    /\ seen = [c \in Clients |-> {}]
    /\ roster = [c \in Clients |-> IF c \in Residents THEN Residents ELSE {}]
    /\ accepted = {}
    /\ late = [c \in Clients |-> {}]
    /\ crossing = [c \in Clients |-> {}]
    /\ deprived = [c \in Clients |-> {}]

-----------------------------------------------------------------------------
(* The saver, as its clients can tell.                                     *)

\* INSERT of what the save found pending some time ago.
SaveInserts ==
    /\ batch = {}
    /\ \E found \in SUBSET pending :
          /\ found # {}
          /\ batch' = found
          /\ rows' = rows \union found
          /\ crossing' = [c \in Clients |->
                            IF client[c].stage \in {"listing", "loading"}
                            THEN crossing[c] \union found
                            ELSE crossing[c]]
    /\ UNCHANGED <<pending, conns, socket, client, viewVars, accepted, late, deprived>>

\* The batch is deleted from Redis, or the save fails and leaves it there.
SaveEnds ==
    /\ batch # {}
    /\ pending' \in {pending \ batch, pending}
    /\ batch' = {}
    /\ UNCHANGED <<rows, conns, socket, client, viewVars, accepted, missVars>>
-----------------------------------------------------------------------------
(* Joining: the history, then the room.                                    *)

Stage(c, stage) == client' = [client EXCEPT ![c].stage = stage]

\* recent_by_chat.
QueryRows(c) ==
    /\ client[c].stage = "querying"
    /\ seen' = [seen EXCEPT ![c] = rows]
    /\ Stage(c, "listing")
    /\ UNCHANGED <<storeVars, conns, socket, roster, accepted, missVars>>

\* LRANGE of the order list.
ListPending(c) ==
    /\ client[c].stage = "listing"
    /\ client' = [client EXCEPT ![c].stage = "loading", ![c].listed = pending]
    /\ UNCHANGED <<storeVars, conns, socket, viewVars, accepted, missVars>>

\* HMGET of the listed messages, which skips those deleted meanwhile.
LoadPending(c) ==
    /\ client[c].stage = "loading"
    /\ seen' = [seen EXCEPT ![c] = @ \union (client[c].listed \intersect pending)]
    /\ client' = [client EXCEPT ![c].stage = "sending", ![c].listed = {}]
    /\ UNCHANGED <<storeVars, conns, socket, roster, accepted, missVars>>

\* accept and the history event.
SendHistory(c) ==
    /\ client[c].stage = "sending"
    /\ socket[c] = "open"
    /\ Stage(c, "announcing")
    /\ UNCHANGED <<storeVars, conns, socket, viewVars, accepted, missVars>>

\* The session is over; the server closes what is left of its socket.
Over(c) ==
    /\ client' = [client EXCEPT ![c] = Session("gone")]
    /\ socket' = [socket EXCEPT ![c] = "shut"]
    /\ seen' = [seen EXCEPT ![c] = {}]
    /\ roster' = [roster EXCEPT ![c] = {}]
    /\ late' = [late EXCEPT ![c] = {}]
    /\ crossing' = [crossing EXCEPT ![c] = {}]

\* A read fails, or the peer is gone before it got the history.
JoinFails(c) ==
    /\ client[c].stage \in Reading
    /\ Over(c)
    /\ UNCHANGED <<storeVars, conns, accepted, deprived>>

\* _join, once publish_client_joined has returned: the connection is entered,
\* and its arrival is broadcast to all of them, itself included.
Enter(c) ==
    /\ client[c].stage = "announcing"
    /\ conns' = conns \union {c}
    /\ roster' = [roster EXCEPT ![c] = conns]
    /\ client' = [client EXCEPT ![c].stage = "entering", ![c].peers = conns']
    /\ UNCHANGED <<storeVars, socket, seen, accepted, missVars>>

StartServing(c) ==
    /\ client[c].stage = "entering"
    /\ client[c].peers = {}
    /\ Stage(c, "serving")
    /\ UNCHANGED <<storeVars, conns, socket, viewVars, accepted, missVars>>
-----------------------------------------------------------------------------
(* A broadcast, peer by peer, over the connections there were at its start; *)
(* the dictionary's order is left open.                                    *)

\* The event reaches p, unless p hung up: then the send raises
\* ConnectionClosedError, which is swallowed, and any later one a RuntimeError.
Receive(c, p) ==
    CASE client[c].stage = "posting" ->
            /\ seen' = [seen EXCEPT ![p] = @ \union {client[c].msg}]
            /\ UNCHANGED roster
      [] client[c].stage = "entering" ->
            /\ roster' = [roster EXCEPT ![p] = @ \union {c}]
            /\ UNCHANGED seen
      [] client[c].stage = "leaving" ->
            /\ roster' = [roster EXCEPT ![p] = @ \ {c}]
            /\ UNCHANGED seen

\* Mutant: the try is around the loop instead of the send.
SendOrStop(c, p) ==
    /\ client[c].stage \in {"entering", "posting", "leaving"}
    /\ p \in client[c].peers
    /\ \/ /\ socket[p] = "open"
          /\ Receive(c, p)
          /\ client' = [client EXCEPT ![c].peers = @ \ {p}]
          /\ UNCHANGED socket
       \/ /\ socket[p] = "hungup"
          /\ socket' = [socket EXCEPT ![p] = "shut"]
          /\ client' = [client EXCEPT ![c].peers = {}]
          /\ UNCHANGED viewVars
    /\ UNCHANGED <<storeVars, conns, accepted, missVars>>

Send(c, p) ==
    /\ client[c].stage \in {"entering", "posting", "leaving"}
    /\ p \in client[c].peers
    /\ client' = [client EXCEPT ![c].peers = @ \ {p}]
    /\ \/ /\ socket[p] = "open"
          /\ Receive(c, p)
          /\ UNCHANGED socket
       \/ /\ socket[p] = "hungup"
          /\ socket' = [socket EXCEPT ![p] = "shut"]
          /\ UNCHANGED viewVars
    /\ UNCHANGED <<storeVars, conns, accepted, missVars>>

\* A send to a socket that is shut raises a RuntimeError, which nothing in
\* _broadcast catches: the peers still to come are left out.
Raises(c) == \E p \in client[c].peers : socket[p] = "shut"

Deprive(c, what) ==
    deprived' = [p \in Clients |-> IF p \in client[c].peers \ {c} /\ socket[p] = "open"
                                   THEN deprived[p] \union {what}
                                   ELSE deprived[p]]

\* _join is outside the try of serve: the connection stays in the room.
EnterFails(c) ==
    /\ client[c].stage = "entering"
    /\ Raises(c)
    /\ Deprive(c, c)
    /\ Over(c)
    /\ UNCHANGED <<storeVars, conns, accepted>>

HangUp(c) ==
    /\ socket[c] = "open"
    /\ socket' = [socket EXCEPT ![c] = "hungup"]
    /\ UNCHANGED <<storeVars, conns, client, viewVars, accepted, missVars>>

\* disconnect_actor, for the removal of a member.
Disconnect(c) ==
    /\ c \in conns
    /\ socket[c] = "open"
    /\ socket' = [socket EXCEPT ![c] = "shut"]
    /\ UNCHANGED <<storeVars, conns, client, viewVars, accepted, missVars>>
-----------------------------------------------------------------------------
(* Posting and leaving.                                                    *)

\* append_pending_message takes effect.
Post(c, m) ==
    /\ client[c].stage = "serving"
    /\ socket[c] # "shut"
    /\ m \notin pending \union rows
    /\ pending' = pending \union {m}
    /\ client' = [client EXCEPT ![c].stage = "appending", ![c].msg = m]
    /\ UNCHANGED <<rows, batch, conns, socket, viewVars, accepted, missVars>>

\* It returns: the connections there are now will be sent the message.
Posted(c) ==
    LET m == client[c].msg IN
    /\ client[c].stage = "appending"
    /\ accepted' = accepted \union {m}
    /\ late' = [p \in Clients |->
                  IF client[p].stage \in {"loading", "sending", "announcing"}
                  THEN late[p] \union {m}
                  ELSE late[p]]
    /\ client' = [client EXCEPT ![c].stage = "posting", ![c].peers = conns]
    /\ UNCHANGED <<storeVars, conns, socket, viewVars, crossing, deprived>>

\* The append raises, with or without effect in Redis.
PostFails(c) ==
    /\ client[c].stage \in {"serving", "appending"}
    /\ client' = [client EXCEPT ![c].stage = "broken", ![c].msg = NoMessage]
    /\ UNCHANGED <<storeVars, conns, socket, viewVars, accepted, missVars>>

PostDone(c) ==
    /\ client[c].stage = "posting"
    /\ client[c].peers = {}
    /\ client' = [client EXCEPT ![c].stage = "serving", ![c].msg = NoMessage]
    /\ UNCHANGED <<storeVars, conns, socket, viewVars, accepted, missVars>>

\* The serve loop ends: receive raised, or the command raised.
Departing(c) ==
    \/ client[c].stage = "serving" /\ socket[c] # "open"
    \/ client[c].stage = "broken"
    \/ client[c].stage = "posting" /\ Raises(c)

\* Mutant: a session whose socket broke leaves without telling the others.
LeaveUntold(c) ==
    /\ Departing(c)
    /\ conns \ {c} # {}
    /\ conns' = conns \ {c}
    /\ IF client[c].stage = "posting" THEN Deprive(c, client[c].msg) ELSE UNCHANGED deprived
    /\ client' = [client EXCEPT ![c].stage = "leaving", ![c].msg = NoMessage,
                                ![c].peers = IF socket[c] = "open" THEN conns' ELSE {}]
    /\ UNCHANGED <<storeVars, socket, viewVars, accepted, late, crossing>>

\* Mutant: the entry of the connection is overwritten, not removed.
LeaveNobody(c) ==
    /\ Departing(c)
    /\ conns \ {c} # {}
    /\ conns' = (conns \ {c}) \union {NoMessage}
    /\ IF client[c].stage = "posting" THEN Deprive(c, client[c].msg) ELSE UNCHANGED deprived
    /\ client' = [client EXCEPT ![c].stage = "leaving", ![c].msg = NoMessage,
                                ![c].peers = conns \ {c}]
    /\ UNCHANGED <<storeVars, socket, viewVars, accepted, late, crossing>>

\* _leave, while somebody else is in the room.
Leave(c) ==
    /\ Departing(c)
    /\ conns \ {c} # {}
    /\ conns' = conns \ {c}
    /\ IF client[c].stage = "posting" THEN Deprive(c, client[c].msg) ELSE UNCHANGED deprived
    /\ client' = [client EXCEPT ![c].stage = "leaving", ![c].msg = NoMessage,
                                ![c].peers = conns']
    /\ UNCHANGED <<storeVars, socket, viewVars, accepted, late, crossing>>

Left(c) ==
    /\ client[c].stage = "leaving"
    /\ \/ client[c].peers = {} /\ UNCHANGED deprived
       \/ Raises(c) /\ Deprive(c, c)
    /\ Over(c)
    /\ UNCHANGED <<storeVars, conns, accepted>>
-----------------------------------------------------------------------------
Joins(c) ==
    \/ QueryRows(c)
    \/ ListPending(c)
    \/ LoadPending(c)
    \/ SendHistory(c)
    \/ JoinFails(c)
    \/ Enter(c)
    \/ EnterFails(c)
    \/ StartServing(c)

Serves(c) ==
    \/ \E m \in Messages : Post(c, m)
    \/ Posted(c)
    \/ PostFails(c)
    \/ PostDone(c)
    \/ Leave(c)
    \/ Left(c)

Next ==
    \/ SaveInserts
    \/ SaveEnds
    \/ \E c \in Clients :
          \/ Joins(c)
          \/ Serves(c)
          \/ \E p \in Clients : Send(c, p)
          \/ HangUp(c)
          \/ Disconnect(c)

Spec == Init /\ [][Next]_vars
-----------------------------------------------------------------------------
(* Properties.                                                             *)

\* The clients that can still be sent events.
Reached == {c \in conns : client[c].stage \in Inside /\ socket[c] = "open"}

\* A broadcast about `what`, a message or a client, that p is still to get.
Coming(p, what) ==
    \E c \in Clients :
        /\ p \in client[c].peers
        /\ \/ client[c].stage = "posting" /\ what = client[c].msg
           \/ client[c].stage \in {"entering", "leaving"} /\ what = c

\* A client in the room has every accepted message, from the history or as an
\* event, or is about to get it.  It misses one in three ways only: broadcast
\* after its session had listed the pending messages and before it entered;
\* saved between the two reads of the history; or the broadcast raised at a
\* dead connection before its turn.
NothingElseIsMissed ==
    \A c \in Reached, m \in accepted :
        \/ m \in seen[c] \union late[c] \union crossing[c] \union deprived[c]
        \/ Coming(c, m)

\* Arrivals and departures applied to who was in the room when the client
\* entered give who is in the room now, except for those whose broadcast is
\* still to come or raised before its turn.
RosterFollowsRoom ==
    \A c \in Reached : \A d \in Clients \ {c} :
        (d \in roster[c] <=> d \in conns) \/ d \in deprived[c] \/ Coming(c, d)
=============================================================================
