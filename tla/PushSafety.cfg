SPECIFICATION Spec
CONSTANTS
    d1 = d1
    d2 = d2
    t1 = t1
    t2 = t2
    w1 = w1
    ending = ending
    reminder = reminder
    start = start
    s1 = s1
    u1 = u1
    u2 = u2
    b1 = b1
    b2 = b2
    Jobs = {start, reminder, ending}
    Kind <- KindOfJobs
    Priority <- PriorityOfJobs
    Target <- TargetOfJobs
    AnyDevice = AnyDevice
    Tokens = {s1, u1, u2, b1, b2}
    TokenKind <- KindOfTokens
    DeviceOf <- DeviceOfTokens
    Ticks = {t1, t2}
    NoTick = NoTick
    Worker <- OneWorker
    NoWorker = NoWorker
    BatchSize = 2
    MaxAttempts = 2
    MaxTries = 2
    MaxId = 2
    MaxCrashes = 1
    Mixes <- EndsAndStarts
CHECK_DEADLOCK FALSE
SYMMETRY TickSymmetry
INVARIANTS
    RingsOnlyAsFiled
    RingsOnce
    EndReachesRunning
