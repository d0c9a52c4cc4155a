\* Three requests one after the other, any of them failing at any point.
CONSTANTS
    p1 = p1
    u1 = u1
    u2 = u2
    Users = {p1, u1, u2}
    Provider = p1
    Mark <- MCMark
    Requests = {q1, q2, q3}
    Tenures = {0, 4}
    MaxInFlight = 1
    Failures = TRUE
    None = None
SPECIFICATION Spec
SYMMETRY RequestSymmetry
INVARIANTS AggregatesExact
PROPERTY SuccessLeavesFreshScore
CHECK_DEADLOCK FALSE
