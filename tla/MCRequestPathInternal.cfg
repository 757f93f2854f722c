SPECIFICATION PathSpec
CONSTANTS
    Gets = {g1, g2}
    Ready = ready
    Pages = {}
    Private = {}
    Internal = {metrics}
    MaxEntries = 1
    Ttl = 1
    MaxTime = 1
    MaxVersion = 0
    Absent = Absent
CHECK_DEADLOCK FALSE
INVARIANT InternalStaysInside
