SPECIFICATION FairSpec
CONSTANTS
    ch1 = ch1
    ch2 = ch2
    s1 = s1
    s2 = s2
    q = q
    w = w
    Nobody = Nobody
    Chats = {ch1, ch2}
    Sessions = {s1, s2}
    Requests = {q}
    Watchers = {w}
    Careless = {s1}
    ChatOf <- MCChatOf
    Capacity = 1
    MaxConcurrent = 1
    MaxFaults = 1
INVARIANTS
    PoolTypeOK
    ResourcesAccounted
PROPERTIES
    WaitsEnd
    DirtyIfStarvedOrRefused
