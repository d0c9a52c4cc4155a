\* Requests that overlap in every way, any of them failing half way.
CONSTANTS
    Requests = {q1, q2, q3}
    MaxInFlight = 3
    Failures = TRUE
    None = None
SPECIFICATION FairSpec
PROPERTY DeletedOnce EveryCallEnds
CHECK_DEADLOCK FALSE
