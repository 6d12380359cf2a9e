SPECIFICATION Spec
CONSTANTS
    r1 = r1
    r2 = r2
    r3 = r3
    NoRequest = NoRequest
    Requests = {r1, r2, r3}
    MaxSessions = 4
    Mixes <- AllMixes
SYMMETRY RequestSymmetry
CHECK_DEADLOCK FALSE
INVARIANTS
    LineageDoesNotFork
    RingReachesRivals
    LateDuplicateHarmless
    LocksInIdOrder
    OnlyOvertakersSurvive
PROPERTY FirstUseDecides
