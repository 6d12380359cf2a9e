SPECIFICATION Spec
CONSTANTS
    alice = alice
    a1 = a1
    c1 = c1
    Users = {alice}
    Jobs = {a1, c1}
    Owner <- OneUsersJobs
    Kind <- OneUsersKinds
    Runs = {r1, r2}
    NoRun = NoRun
    MaxAttempts = 2
    GlobalCap = 2
    MaxNonce = 2
    MaxVersion = 0
    Mixes = {{"device"}}
SYMMETRY RunSymmetry
CHECK_DEADLOCK FALSE
PROPERTIES
    FreshTokenLeftAlone
