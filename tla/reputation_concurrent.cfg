\* Three requests of any kind, all in progress together, any of them failing
\* at any point; the provider itself is among the callers.
CONSTANTS
    p1 = p1
    u1 = u1
    u2 = u2
    Users = {p1, u1, u2}
    Provider = p1
    Mark <- MCMark
    Requests = {q1, q2, q3}
    Tenures = {0, 4}
    MaxInFlight = 3
    Failures = TRUE
    None = None
SPECIFICATION Spec
SYMMETRY RequestSymmetry
INVARIANTS RecommendationCountExact NoPhantomRating OneNoticePerRating NobodyIsStuck
PROPERTY ImplementsCountedSet
CHECK_DEADLOCK FALSE
