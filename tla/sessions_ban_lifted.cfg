\* Two reactivations and a removal by an admin at the same time.
CONSTANTS
    Requests = {q1, q2, q3}
    MaxInFlight = 2
    Failures = FALSE
    None = None
SPECIFICATION Spec
PROPERTY BanSticks
CHECK_DEADLOCK FALSE
