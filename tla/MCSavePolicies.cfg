SPECIFICATION PolicySpec
CONSTANTS
    w1 = w1
    w2 = w2
    p = p
    r1 = r1
    r2 = r2
    m1 = m1
    m2 = m2
    NoRoom = NoRoom
    Nobody = Nobody
    Savers = {w1, w2, p}
    Watchers = {w1, w2}
    Periodic = p
    Rooms = {r1, r2}
    Messages = {m1, m2}
    Dangling = {m2}
    MaxFaults = 2
SYMMETRY Symmetry
INVARIANTS
    SaverTypeOK
    SaveMutex
    StoredAtMostOnce
    LossOnlyByClearing
    CleanMeansSaved
    PolicyTypeOK
    TrackedWatcherRuns
    ModificationIsWatched
    StopEndsSaves
PROPERTIES
    KeepsMessageDurability
