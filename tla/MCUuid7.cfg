SPECIFICATION Spec
CONSTANTS
    Second = 13
    Seconds = 4
    As = 4
    Bs = 2
    Cs = 2
    Randoms = 4
    GapA = 2
    GapB = 2
    MaxTime = 70
INVARIANTS
    UuidTypeOK
    StampExtracted
PROPERTIES
    IdsIncrease
