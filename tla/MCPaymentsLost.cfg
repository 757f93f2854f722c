SPECIFICATION Spec
CONSTANTS
    Events = {paid}
    PaidEvents = {paid}
    Mismatched = {}
    Handlers = {h1, h2}
    Faults = {"db"}
    MaxFailures = 1
    None = None
INVARIANTS
    AcceptedIsJournalled
