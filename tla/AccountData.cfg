SPECIFICATION AccountSpec
CONSTANTS
    c1 = c1
    c2 = c2
    m1 = m1
    t1 = t1
    d1 = d1
    d2 = d2
    f1 = f1
    f2 = f2
    r1 = r1
    r2 = r2
    r3 = r3
    Keys = {c1, c2}
    Mirrored = {m1}
    Terms = {t1}
    Term <- TermOfCourses
    NoTerm = NoTerm
    Full = Full
    Edited = {c1}
    Devices = {d1, d2}
    Fields = {"color_hex"}
    Values = {"red"}
    Empty = Empty
    NoRow = NoRow
    NoTombstone = NoTombstone
    MAX_CLOCK_SKEW = 1
    Waits = {0, 2}
    TombstoneDays = 2
    Start = 4
    MaxClock = 7
    Fetches = {f1, f2}
    Dates = {1, 2}
    FirstDue = 1
    Marks = {"done"}
    MarkSkew = 0
    MarkDelay = 1
    MarkStart = 3
    MaxMarkTime = 5
    MaxMoodleChanges = 1
    Requests = {r1, r2, r3}
    Mixes <- EditMixes
    Clients = {"a", "b"}
    Flags = {"read", "starred"}
    SentStamps = {1, 2}
    Nows = {0, 2}
    Skew = 1
    Nobody = Nobody
VIEW AccountView
SYMMETRY AccountSymmetry
CHECK_DEADLOCK FALSE
INVARIANTS SnapshotAgreesWithUpload ShownMarkIsLastChoice AcceptedEditsKept FlagsHoldNewest
PROPERTIES ImplementsLastChoice ChoicesHonoured AssignmentKept
