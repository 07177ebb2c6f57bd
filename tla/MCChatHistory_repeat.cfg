SPECIFICATION Spec
CONSTANTS
    Messages = {1, 2, 3}
    Limit = 2
    MaxTime = 2
INVARIANTS
    MergedOnce
