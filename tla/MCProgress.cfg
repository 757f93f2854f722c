SPECIFICATION MCSpec
CONSTANTS
    Jobs = {j1, j2}
    Workers = {w1, w2}
    MaxAttempts = 3
    Faults = {"queue"}
    None = None
    Conns = {c1, c2}
    Rooms = {m1}
    Publishers = {p1}
    Capacity = 1
    Submissions = {s1, s2}
    Requests = {r1, r2, r3, r4}
    Nobody = Nobody
    NoConn = NoConn
    Environments <- MCEnvironments
CHECK_DEADLOCK FALSE
INVARIANTS
    HubIsConsistent
    DedupIsSafe
    SubmissionsAreKept
PROPERTIES
    EventuallySettled
    LifecycleSpec
    HubGoesOn
    DedupDrains
    ShutdownIsOrderly
