--------------------------- MODULE ChatMembership ---------------------------
(***************************************************************************)
(* The requests that create actors and chats and add and remove members:   *)
(* Kafka events (infrastructure/subscribers/chat) and the HTTP calls of    *)
(* presentation/http/controllers/chats.py, each a composition that runs in *)
(* one unit of work, all of them about one chat context.  A unit of work   *)
(* is one PostgreSQL transaction at the default isolation, READ COMMITTED: *)
(* a statement sees what was committed when it began and the transaction's *)
(* own writes; an insert waits for an uncommitted row of the same key, and *)
(* a delete for an uncommitted delete of the same row.  A redelivered      *)
(* event, or a client that tries again, is another request of the kind.    *)
(*                                                                         *)
(*   "actor"    user.created                 CreateActorComposition        *)
(*   "chat"     -                            CreateChatComposition         *)
(*   "project"  project.created              CreateProjectChatComposition  *)
(*   "join"     project.member_added,        AddProjectMemberComposition,  *)
(*              POST chat-membership/self    JoinChatMembershipComposition *)
(*   "leave"    project.member_removed,      RemoveChatMemberComposition   *)
(*              DELETE chat-membership/self                                *)
(*   "task"     project.task.*               notify_project_task_*         *)
(***************************************************************************)
EXTENDS Naturals, FiniteSets

CONSTANTS
    Requests,
    Kind,
    ActorOf,
    Actors,
    PublicIdOf,
    Registered,
    NoChat,
    NoRow

RequestKinds == {"actor", "chat", "task", "project", "join", "leave"}

ASSUME MembershipAssumption ==
    /\ Kind \in [Requests -> RequestKinds]
    /\ ActorOf \in [Requests -> Actors]
    /\ Registered \subseteq Actors
    /\ \A a, b \in Registered : PublicIdOf[a] = PublicIdOf[b] => a = b
    /\ NoChat \notin Requests

VARIABLES
    actors,         \* committed rows of the actors table
    chats,          \* committed rows of the chats table
    members,        \* committed rows of chat_memberships
    messages,       \* committed system messages: <<request, text>>
    tx              \* of each request: where it is and what it has written

database == <<actors, chats, members, messages>>
vars == <<actors, chats, members, messages, tx>>

Ledger == INSTANCE MembershipLedger

\* The awaits of a request, in order; "done" and "failed" end it.
Stages == {"chat", "creating", "actor", "registering", "member", "inserting",
           "removing", "deleting", "committing", "done", "failed"}

\* Rows inserted and not yet committed, by table; "left": the departure is
\* to be announced; "deletion": the row is deleted.
Writes == {"actor", "chat", "member", "left", "deletion"}

Rows == [chat : Requests, actor : Actors, by : Requests]

Over(r) == tx[r].at \in {"done", "failed"}
Wrote(r, w) == w \in tx[r].wrote
Others(r) == Requests \ {r}

\* The row of the request's chat and actor that a statement sees.
Seen(r) == {row \in members : row.chat = tx[r].chat /\ row.actor = ActorOf[r]}

Init ==
    /\ actors = Registered /\ chats = {} /\ members = {} /\ messages = {}
    /\ tx = [r \in Requests |->
                [at |-> IF Kind[r] = "actor" THEN "actor" ELSE "chat",
                 chat |-> NoChat, row |-> NoRow, wrote |-> {}]]

Goto(r, stage) ==
    /\ tx' = [tx EXCEPT ![r].at = stage]
    /\ UNCHANGED database

\* A statement that writes: the row stays uncommitted.
Write(r, w, stage) ==
    /\ tx' = [tx EXCEPT ![r].at = stage, ![r].wrote = @ \union {w}]
    /\ UNCHANGED database

\* Mutant: the failed request's session is left open.
RollBackForgotten(r) ==
    tx' = [tx EXCEPT ![r].at = "failed"]

\* The exception leaves the unit of work, which rolls back.
RollBack(r) ==
    tx' = [tx EXCEPT ![r] =
              [at |-> "failed", chat |-> NoChat, row |-> NoRow, wrote |-> {}]]

Reject(r) == RollBack(r) /\ UNCHANGED database

AfterChat(r) == IF Kind[r] \in {"chat", "task"} THEN "committing" ELSE "actor"

\* by_context of the create-chat use case and of the removal.
FindChat(r) ==
    /\ tx[r].at = "chat" /\ chats # {}
    /\ \E c \in chats :
          tx' = [tx EXCEPT ![r].at = AfterChat(r), ![r].chat = c]
    /\ UNCHANGED database

MissChat(r) ==
    /\ tx[r].at = "chat" /\ chats = {}
    /\ IF Kind[r] = "leave" THEN Reject(r) ELSE Goto(r, "creating")

\* Mutant: no unique constraint.
CreateChatAnyway(r) ==
    /\ tx[r].at = "creating"
    /\ tx' = [tx EXCEPT ![r] = [at |-> AfterChat(r), chat |-> r,
                                row |-> NoRow, wrote |-> {"chat"}]]
    /\ UNCHANGED database

\* The insert of the chat, with the unique constraint on its context.
CreateChat(r) ==
    /\ tx[r].at = "creating"
    /\ \A q \in Others(r) : ~Wrote(q, "chat")
    /\ IF chats # {}
       THEN Reject(r)
       ELSE /\ tx' = [tx EXCEPT ![r] = [at |-> AfterChat(r), chat |-> r,
                                        row |-> NoRow, wrote |-> {"chat"}]]
            /\ UNCHANGED database

FindActor(r) ==
    /\ tx[r].at = "actor"
    /\ IF ActorOf[r] \in actors
       THEN Goto(r, IF Kind[r] = "actor" THEN "committing" ELSE "member")
       ELSE IF Kind[r] = "actor" THEN Goto(r, "registering") ELSE Reject(r)

Clash(a, b) == a = b \/ PublicIdOf[a] = PublicIdOf[b]

\* The insert of the actor; the identifier and the e-mail address are unique.
CreateActor(r) ==
    /\ tx[r].at = "registering"
    /\ \A q \in Others(r) : Wrote(q, "actor") => ~Clash(ActorOf[q], ActorOf[r])
    /\ IF \E a \in actors : Clash(a, ActorOf[r])
       THEN Reject(r)
       ELSE Write(r, "actor", "committing")

\* Mutant: a removal does not return early when it finds no membership.
FindMemberOrNot(r) ==
    /\ tx[r].at = "member"
    /\ Goto(r, IF Kind[r] = "leave" THEN "removing"
               ELSE IF Seen(r) # {} THEN "committing" ELSE "inserting")

\* by_chat_and_actor of the use cases that add and remove.
FindMember(r) ==
    /\ tx[r].at = "member"
    /\ LET found == Seen(r) # {}
       IN  Goto(r, IF Kind[r] = "leave"
                   THEN IF found THEN "removing" ELSE "committing"
                   ELSE IF found THEN "committing" ELSE "inserting")

\* Mutant: the insert gives way to an uncommitted one.
InsertMemberUnlessInserted(r) ==
    /\ tx[r].at = "inserting"
    /\ IF \/ Seen(r) # {}
          \/ \E q \in Others(r) : Wrote(q, "member") /\ ActorOf[q] = ActorOf[r]
       THEN Goto(r, "committing")
       ELSE Write(r, "member", "committing")

\* The insert of the membership, whose key is the pair.
InsertMember(r) ==
    /\ tx[r].at = "inserting"
    /\ \A q \in Others(r) : Wrote(q, "member") =>
          tx[q].chat # tx[r].chat \/ ActorOf[q] # ActorOf[r]
    /\ \A q \in Others(r) : Wrote(q, "deletion") => tx[q].row \notin Seen(r)
    /\ IF Seen(r) # {}
       THEN Reject(r)
       ELSE Write(r, "member", "committing")

\* The delete of the membership begins: it sees a row or it sees none, and
\* reports a removal in both cases.
BeginDelete(r) ==
    /\ tx[r].at = "removing"
    /\ IF Seen(r) = {}
       THEN Write(r, "left", "committing")
       ELSE /\ \E row \in Seen(r) :
                  tx' = [tx EXCEPT ![r].at = "deleting", ![r].row = row]
            /\ UNCHANGED database

\* The delete has the lock of its row, which may be gone by then.
DeleteMember(r) ==
    /\ tx[r].at = "deleting"
    /\ \A q \in Others(r) : Wrote(q, "deletion") => tx[q].row # tx[r].row
    /\ tx' = [tx EXCEPT ![r].at = "committing",
                        ![r].wrote = IF tx[r].row \in members
                                     THEN {"left", "deletion"} ELSE {"left"}]
    /\ UNCHANGED database

\* Mutant: a member is announced whether or not it was added.
AnnouncedAlways(r) ==
    {m \in {r} \X {"created", "added", "left", "task"} :
        \/ m[2] = "created" /\ Wrote(r, "chat") /\ Kind[r] # "task"
        \/ m[2] = "added" /\ Kind[r] = "join"
        \/ m[2] = "left" /\ Wrote(r, "left")
        \/ m[2] = "task" /\ Kind[r] = "task"}

\* The system messages a composition writes before it commits.
Announced(r) ==
    {m \in {r} \X {"created", "added", "left", "task"} :
        \/ m[2] = "created" /\ Wrote(r, "chat") /\ Kind[r] # "task"
        \/ m[2] = "added" /\ Wrote(r, "member") /\ Kind[r] = "join"
        \/ m[2] = "left" /\ Wrote(r, "left")
        \/ m[2] = "task" /\ Kind[r] = "task"}

\* Mutant: the chat of the answer is stored whether or not it was created.
ApplyAnswer(r) ==
    /\ actors' = actors \union (IF Wrote(r, "actor") THEN {ActorOf[r]} ELSE {})
    /\ chats' = chats \union {tx[r].chat}
    /\ members' = (members \ (IF Wrote(r, "deletion") THEN {tx[r].row} ELSE {}))
           \union (IF Wrote(r, "member")
                   THEN {[chat |-> tx[r].chat, actor |-> ActorOf[r], by |-> r]}
                   ELSE {})
    /\ messages' = messages \union Announced(r)

\* The commit, which makes everything the request wrote visible at once.
Apply(r) ==
    /\ actors' = actors \union (IF Wrote(r, "actor") THEN {ActorOf[r]} ELSE {})
    /\ chats' = chats \union (IF Wrote(r, "chat") THEN {r} ELSE {})
    /\ members' = (members \ (IF Wrote(r, "deletion") THEN {tx[r].row} ELSE {}))
           \union (IF Wrote(r, "member")
                   THEN {[chat |-> tx[r].chat, actor |-> ActorOf[r], by |-> r]}
                   ELSE {})
    /\ messages' = messages \union Announced(r)

Commit(r) ==
    /\ tx[r].at = "committing"
    /\ Apply(r)
    /\ tx' = [tx EXCEPT ![r].at = "done", ![r].wrote = {}]

\* The connection is lost at the commit, after it took effect.
CommitFails(r) ==
    /\ tx[r].at = "committing"
    /\ Apply(r)
    /\ RollBack(r)

\* Any await raises, the commit before it took effect among them.
Fails(r) == ~Over(r) /\ Reject(r)

Proceeds(r) ==
    \/ FindChat(r) \/ MissChat(r) \/ CreateChat(r)
    \/ FindActor(r) \/ CreateActor(r)
    \/ FindMember(r) \/ InsertMember(r) \/ BeginDelete(r) \/ DeleteMember(r)
    \/ Commit(r)

\* All requests are over.
Finished == (\A r \in Requests : Over(r)) /\ UNCHANGED vars

Next == (\E r \in Requests : Proceeds(r) \/ CommitFails(r) \/ Fails(r)) \/ Finished

Spec == Init /\ [][Next]_vars

\* Requests are served and statements answered; waiting for a row ends with
\* the transaction that holds it.
FairSpec == Spec /\ \A r \in Requests : WF_vars(Proceeds(r))

-----------------------------------------------------------------------------
Told(a, text) == {r \in Requests : ActorOf[r] = a /\ <<r, text>> \in messages}
RowsOf(a) == {row \in members : row.actor = a}

(* Every table and every request's transaction has the shape the schema    *)
(* and the compositions give it.                                           *)
MembershipTypeOK ==
    /\ actors \subseteq Actors
    /\ chats \subseteq Requests
    /\ members \subseteq Rows
    /\ messages \subseteq Requests \X {"created", "added", "left", "task"}
    /\ tx \in [Requests -> [at : Stages, chat : Requests \union {NoChat},
                            row : Rows \union {NoRow}, wrote : SUBSET Writes]]

(* Requests that find no chat at the same time do not create two: the      *)
(* context has one chat, and one row per member in it.                     *)
OneChat ==
    /\ \A c, d \in chats : c = d
    /\ \A p, q \in members : p.chat = q.chat /\ p.actor = q.actor => p = q

(* However events are repeated, an arrival is announced again only after a *)
(* departure was: the additions told of an actor exceed the departures     *)
(* told by at most one, and only while the actor is a member.              *)
ArrivalsToldOnce == \A a \in Actors :
    Cardinality(Told(a, "added")) <=
        Cardinality(Told(a, "left")) + Cardinality(RowsOf(a))

(* A request to join that was answered without an error left its actor a   *)
(* member, whatever it found to exist already, unless a departure of the   *)
(* actor has been told.                                                    *)
JoinedUnlessLeft == \A r \in Requests :
    tx[r].at = "done" /\ Kind[r] \in {"project", "join"} =>
        RowsOf(ActorOf[r]) # {} \/ Told(ActorOf[r], "left") # {}

(* Each unit of work shows as one step of MembershipLedger or as none:     *)
(* rows never appear without their chat, actor and system messages, and a  *)
(* request that fails leaves nothing behind.                               *)
KeepsMembershipLedger == Ledger!Spec

(* Every request ends, whichever rows it has to wait for and whoever       *)
(* fails: rows waited for are released and nobody waits in a circle.       *)
RequestsEnd == <>(\A r \in Requests : Over(r))
=============================================================================
