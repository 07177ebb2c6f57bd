SPECIFICATION Spec
CONSTANTS
    c1 = c1
    c2 = c2
    c3 = c3
    m1 = m1
    NoMessage = NoMessage
    Clients = {c1, c2, c3}
    Residents = {c1, c2}
    Messages = {m1}
SYMMETRY Symmetry
INVARIANTS
    DeliveryTypeOK
    NothingElseIsMissed
    RosterFollowsRoom
\* The last client of the room does not leave.
CHECK_DEADLOCK FALSE
