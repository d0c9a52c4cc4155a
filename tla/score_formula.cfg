\* Each input below, at and above the value where it saturates, a negative
\* tenure, and every sequence of at most three ratings.
CONSTANTS
    Marks = {4, 7, 11, 18, 20}
    YearValues <- MCYears
    ClientValues = {0, 1, 49, 50, 51}
    RecValues = {0, 19, 20, 21}
    MaxRatings = 3
SPECIFICATION Spec
INVARIANTS ScoreInRange AverageIsNearest
PROPERTY ScoreMonotone
