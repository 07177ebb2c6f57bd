-------------------------- MODULE MCChatMembership --------------------------
(* Requests of one chat context, named after what they ask and for whom;   *)
(* join_a2 and leave_a2 are redeliveries.                                  *)
EXTENDS ChatMembership, TLC

CONSTANTS
    a, b,                               \* actors, with one e-mail address
    new_a, new_b,                       \* user.created
    join_a, join_a2,                    \* project.member_added
    leave_a, leave_a2,                  \* project.member_removed
    task                                \* project.task.created

MCKind ==
    new_a :> "actor" @@ new_b :> "actor" @@ join_a :> "join" @@ join_a2 :> "join"
    @@ leave_a :> "leave" @@ leave_a2 :> "leave" @@ task :> "task"

MCActorOf == [r \in Requests |-> IF r = new_b THEN b ELSE a]

MCPublicIdOf == [x \in {a, b} |-> a]
=============================================================================
