SPECIFICATION DedupSpec
CONSTANTS
    Requests = {r1, r2, r3}
    Nobody = Nobody
CHECK_DEADLOCK FALSE
SYMMETRY Symmetry
INVARIANTS
    NoConcurrentDuplicates
