SPECIFICATION MCSpec
CONSTANTS
    Events = {paid, expired, foreign}
    PaidEvents = {paid, foreign}
    Mismatched = {foreign}
    Handlers = {h1, h2}
    Faults = {"db", "redis", "ack", "disconnect", "crash"}
    MaxFailures = 2
    None = None
    Callers = {c1, c2, c3, c4}
    FailureThreshold = 3
    SuccessThreshold = 3
    MaxRequests = 3
    Outgoing = {e1}
    MaxAttempts = 3
    DeliveryFaults = {"queue", "db", "receiver", "ack", "crash", "shutdown"}
CHECK_DEADLOCK FALSE
INVARIANTS
    PaymentsAreSafe
    BreakerIsSafe
    DeliveryIsSafe
PROPERTIES
    EventuallyJournalled
    OpenHoldsOff
    Recovers
    OutcomeIsFinal
    EventuallySettled
