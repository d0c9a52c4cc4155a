\* A call and a logout that overlap, over two renewals: lost answers, refusals,
\* failures of the server, restarts, and failures inside failures.
CONSTANTS
    c1 = c1
    out = out
    Calls = {c1, out}
    Logouts = {out}
    MaxPairs = 3
    MaxBlocks = 2
SPECIFICATION Spec
INVARIANTS SessionSurvives TakesEffectOnce
CHECK_DEADLOCK FALSE
