SPECIFICATION FairSpec
CONSTANTS
    d1 = d1
    d2 = d2
    t1 = t1
    t2 = t2
    w1 = w1
    ending = ending
    reminder = reminder
    start = start
    s1 = s1
    u1 = u1
    u2 = u2
    b1 = b1
    b2 = b2
    Jobs = {reminder}
    Kind <- KindOfJobs
    Priority <- PriorityOfJobs
    Target <- TargetOfJobs
    AnyDevice = AnyDevice
    Tokens = {s1}
    TokenKind <- KindOfTokens
    DeviceOf <- DeviceOfTokens
    Ticks = {t1, t2}
    NoTick = NoTick
    Worker <- OneWorker
    NoWorker = NoWorker
    BatchSize = 2
    MaxAttempts = 2
    MaxTries = 2
    MaxId = 1
    MaxCrashes = 1
    Mixes <- Reminding
CHECK_DEADLOCK FALSE
INVARIANTS
    OutcomeTruthful
PROPERTIES
    Settles
