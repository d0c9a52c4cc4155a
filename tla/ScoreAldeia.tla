---------------------------- MODULE ScoreAldeia ----------------------------
(***************************************************************************)
(* The Score Aldeia formula (src/backend/internal/domain/score.go) and the *)
(* two aggregates it is computed from (the subqueries of                   *)
(* src/backend/internal/service/rating.go).                                *)
(*                                                                         *)
(* All numbers are hundredths: avg_rating is NUMERIC(3,2) and score_aldeia *)
(* is NUMERIC(5,2), so both are integers here.  The weights of the formula *)
(* give every term an exact value in hundredths (40/5, 15/10, 30/50 and    *)
(* 15/20 are all multiples of 0.01 per unit of their input), which is why  *)
(* the rounding on the last line of CalculateScore only removes the noise  *)
(* of float64 and is the identity on the exact value.                      *)
(***************************************************************************)
EXTENDS Integers, FiniteSets, FiniteSetsExt

AvgRange == 0 .. 500              \* avg_rating; 0 stands for NULL, as COALESCE reads it
SmallInt == -32768 .. 32767       \* years_in_neighborhood SMALLINT, not validated
ScoreLimit == 100000              \* NUMERIC(5,2) overflows at 1000.00

\* domain.ProviderStats, with AvgRating in hundredths.
ProviderStats == [avg : AvgRange, years : Int, clients : Nat, recs : Nat]

-----------------------------------------------------------------------------
(* Variants with a defect, for the sensitivity of the properties.          *)

SaturateMissing(n, top) == n
SaturateDropping(n, top) == IF n < top THEN n ELSE 0
CalculateScoreThirtyClients(p) ==
    8 * p.avg + 150 * (IF p.years < 10 THEN p.years ELSE 10)
              + 60 * (IF p.clients < 30 THEN p.clients ELSE 30)
              + 75 * (IF p.recs < 20 THEN p.recs ELSE 20)
AvgRatingTruncated(marks, S) ==
    IF S = {} THEN 0 ELSE (25 * MapThenSumSet(LAMBDA u : marks[u], S)) \div Cardinality(S)
-----------------------------------------------------------------------------
\* math.Min: each input saturates at the value that earns its whole weight.
Saturate(n, top) == IF n < top THEN n ELSE top

\* domain.CalculateScore in hundredths of a point.
CalculateScore(p) ==
    8 * p.avg + 150 * Saturate(p.years, 10)
              + 60 * Saturate(p.clients, 50) + 75 * Saturate(p.recs, 20)

\* The UPDATE of score_aldeia fails with "numeric field overflow" outside
\* the column's range, and years_in_neighborhood is not validated anywhere.
Storable(score) == -ScoreLimit < score /\ score < ScoreLimit

\* AVG((quality+punctuality+politeness+reliability)::float/4) over the raters
\* in S, cast to NUMERIC(3,2) (half away from zero).  marks[u] is the sum of
\* the four criteria u gave, 4..20.  Zero when there is no row (AVG is NULL).
AvgRating(marks, S) ==
    LET n     == Cardinality(S)
        total == MapThenSumSet(LAMBDA u : marks[u], S)
    IN  IF n = 0 THEN 0 ELSE (50 * total + n) \div (2 * n)

\* COUNT(DISTINCT rater_id): a rater has at most one row per provider.
TotalClients(S) == Cardinality(S)
=============================================================================
