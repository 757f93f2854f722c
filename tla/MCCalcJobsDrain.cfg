SPECIFICATION Spec
CONSTANTS
    j1 = j1
    j2 = j2
    w1 = w1
    w2 = w2
    None = None
    Jobs <- MCJobs
    Workers <- MCWorkers
    MaxAttempts = 2
    Faults = {"shutdown"}
INVARIANT DrainedOnShutdown
