SPECIFICATION FairSpec
CONSTANTS
    alice = alice
    a1 = a1
    c1 = c1
    Users = {alice}
    Jobs = {a1, c1}
    Owner <- OneUsersJobs
    Kind <- OneUsersKinds
    Runs = {r1, r2}
    NoRun = NoRun
    MaxAttempts = 2
    GlobalCap = 2
    MaxNonce = 2
    MaxVersion = 1
    Mixes <- SyncMixes
CHECK_DEADLOCK FALSE
INVARIANTS
    RunRowsFollowClaims
    DisabledHeals
PROPERTIES
    ListingNeverGoesBack
    ReadTokenDecides
    KeepsSyncing
