\* Requests one at a time, any of them failing half way.
CONSTANTS
    Requests = {q1, q2, q3, q4}
    MaxInFlight = 1
    Failures = TRUE
    None = None
SPECIFICATION Spec
SYMMETRY RequestSymmetry
INVARIANTS DeletedHasNoLiveToken OneLiveTokenPerLogin ReuseEndsLogin
PROPERTY ImplementsAccountLife
CHECK_DEADLOCK FALSE
