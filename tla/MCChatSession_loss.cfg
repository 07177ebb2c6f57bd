SPECIFICATION Spec
CONSTANTS
    c1 = c1
    c2 = c2
    w1 = w1
    p = p
    rm = rm
    alice = alice
    bob = bob
    r1 = r1
    r2 = r2
    m1 = m1
    m2 = m2
    NoRoom = NoRoom
    Nobody = Nobody
    NoMessage = NoMessage
    Clients = {c1}
    Watchers = {w1}
    Periodic = p
    Remover = rm
    Savers = {c1, w1, p, rm}
    Rooms = {r1, r2}
    Actors = {alice}
    ActorOf <- Alone
    Removable = {}
    Messages = {m1, m2}
    Dangling = {}
    MaxFaults = 0
INVARIANTS
    AcceptedStaysInHistory
\* With a dead connection in a room for every session the instance has, no
\* session is left to do anything.
CHECK_DEADLOCK FALSE
