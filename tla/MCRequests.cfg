SPECIFICATION MCSpec
CONSTANTS
    Jobs = {x1, x2}
    Workers = {y1, y2}
    None = None
    MaxAttempts = 2
    Faults = {"queue", "db", "ack", "disconnect", "shutdown", "crash"}
    Gets = {x1, x2}
    Ready = ready
    Pages = {reviews}
    Private = {me}
    Internal = {metrics}
    MaxEntries = 1
    Ttl = 1
    MaxTime = 2
    MaxVersion = 1
    Absent = Absent
    LimitedRoutes = {y1, y2}
    Addresses = {a1}
    Limit = 2
    Window = 2
    MaxNow = 3
    MaxCalls = 5
    Off = Off
    Flows = {f1, f2, f3}
    Returning = {f1, f2}
    Repeated = {f1}
    Subjects = {s1}
    Emails = {y1, y2}
    MaxStates = 1
    Denied = Denied
    Unset = Unset
    Nodes = {1, 2}
    Ids = {x}
SYMMETRY Symmetry
CHECK_DEADLOCK FALSE
INVARIANTS
    JobsAreSafe
    CacheIsTransparent
    LimitsAreKept
    LoginsAreGenuine
    GraphIsFaithful
