-------------------------- MODULE MembershipLedger --------------------------
(***************************************************************************)
(* What the membership requests of one chat context promise when they are  *)
(* seen one at a time: a request changes the chat, its rows and its system *)
(* messages in one step or not at all.  A row of the member table is       *)
(* [chat, actor, by], by being the request that inserted it; a chat is     *)
(* named after the request that created it; a message is <<request, text>>.*)
(***************************************************************************)
CONSTANTS
    Requests,
    Kind,           \* what each request asks for
    ActorOf,        \* the actor a request is about
    PublicIdOf,     \* the e-mail address of each actor
    Registered      \* the actors known before the first request

VARIABLES actors, chats, members, messages

ledger == <<actors, chats, members, messages>>

Silent(r) == \A m \in messages : m[1] # r

\* A user.created event whose actor and e-mail address are both new.
Register(r) ==
    /\ Kind[r] = "actor"
    /\ \A a \in actors : a # ActorOf[r] /\ PublicIdOf[a] # PublicIdOf[ActorOf[r]]
    /\ actors' = actors \union {ActorOf[r]}
    /\ UNCHANGED <<chats, members, messages>>

\* A chat is created and says so, or a task event creates it and tells
\* about the task instead.
Open(r) ==
    /\ Kind[r] \in {"chat", "task"}
    /\ chats = {} /\ Silent(r)
    /\ chats' = {r}
    /\ messages' = messages \union
           {<<r, IF Kind[r] = "task" THEN "task" ELSE "created">>}
    /\ UNCHANGED <<actors, members>>

Notify(r) ==
    /\ Kind[r] = "task" /\ chats # {} /\ Silent(r)
    /\ messages' = messages \union {<<r, "task">>}
    /\ UNCHANGED <<actors, chats, members>>

\* An actor becomes a member, in a chat created on the way if there is
\* none.  The owner of a new project is not announced, others are.
Arrive(r) ==
    /\ Kind[r] \in {"project", "join"} /\ ActorOf[r] \in actors /\ Silent(r)
    /\ \E c \in IF chats = {} THEN {r} ELSE chats :
          /\ \A row \in members : row.chat # c \/ row.actor # ActorOf[r]
          /\ chats' = chats \union {c}
          /\ members' = members \union {[chat |-> c, actor |-> ActorOf[r], by |-> r]}
    /\ messages' = messages
           \union (IF chats = {} THEN {<<r, "created">>} ELSE {})
           \union (IF Kind[r] = "join" THEN {<<r, "added">>} ELSE {})
    /\ UNCHANGED actors

Depart(r) ==
    /\ Kind[r] = "leave" /\ Silent(r)
    /\ \E row \in members : row.actor = ActorOf[r] /\ members' = members \ {row}
    /\ messages' = messages \union {<<r, "left">>}
    /\ UNCHANGED <<actors, chats>>

\* A departure told by another request is told again.
DepartAgain(r) ==
    /\ Kind[r] = "leave" /\ Silent(r)
    /\ \E m \in messages : m[2] = "left" /\ ActorOf[m[1]] = ActorOf[r]
    /\ messages' = messages \union {<<r, "left">>}
    /\ UNCHANGED <<actors, chats, members>>

Next == \E r \in Requests :
    \/ Register(r) \/ Open(r) \/ Notify(r) \/ Arrive(r) \/ Depart(r) \/ DepartAgain(r)

Init == actors = Registered /\ chats = {} /\ members = {} /\ messages = {}

Spec == Init /\ [][Next]_ledger
=============================================================================
