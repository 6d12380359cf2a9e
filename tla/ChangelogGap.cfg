SPECIFICATION Spec
CONSTANTS
    u1 = u1
    u2 = u2
    w1 = w1
    w2 = w2
    c1 = c1
    NoUser = NoUser
    NoOne = NoOne
    Purger = Purger
    Users <- TwoUsers
    Writers <- TwoWriters
    Clients <- OneClient
    UserOf <- AllOfU1
    PageLimit = 1
    MaxRevision = 2
SYMMETRY WriterSymmetry
INVARIANT NoSilentGap
