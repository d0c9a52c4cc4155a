\* Two residents rate at the same time and nothing fails.
CONSTANTS
    p1 = p1
    u1 = u1
    u2 = u2
    Users = {p1, u1, u2}
    Provider = p1
    Mark <- MCMark
    Requests = {q1, q2}
    Tenures = {0}
    MaxInFlight = 2
    Failures = FALSE
    None = None
SPECIFICATION Spec
INVARIANT AggregatesExact
CHECK_DEADLOCK FALSE
