SPECIFICATION FairSpec
CONSTANTS
    a = a
    b = b
    new_a = new_a
    new_b = new_b
    join_a = join_a
    join_a2 = join_a2
    leave_a = leave_a
    leave_a2 = leave_a2
    task = task
    NoChat = NoChat
    NoRow = NoRow
    Actors = {a, b}
    Registered = {}
    Requests = {new_a, new_b, join_a, join_a2, leave_a, leave_a2, task}
    Kind <- MCKind
    ActorOf <- MCActorOf
    PublicIdOf <- MCPublicIdOf
INVARIANTS
    MembershipTypeOK
    OneChat
    ArrivalsToldOnce
    JoinedUnlessLeft
PROPERTIES
    KeepsMembershipLedger
    RequestsEnd
