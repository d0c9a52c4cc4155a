--------------------------- MODULE MCScoreAldeia ---------------------------
(***************************************************************************)
(* Evaluates the formula and the average over bounded inputs.  A state is  *)
(* one set of statistics; a step changes one of them, as one request does, *)
(* so that action properties compare neighbouring inputs.                  *)
(***************************************************************************)
EXTENDS ScoreAldeia, Sequences

CONSTANTS
    Marks,         \* sums of the four criteria, 1 to 5 each
    YearValues, ClientValues, RecValues,
    MaxRatings     \* bound on the number of ratings

ASSUME ScoreAssumption ==
    /\ Marks \subseteq 4 .. 20
    /\ YearValues \subseteq Int
    /\ ClientValues \subseteq Nat /\ RecValues \subseteq Nat
    /\ MaxRatings \in Nat

\* A negative tenure is accepted by the API; the configuration syntax has none.
MCYears == {-3, 0, 9, 10, 11}

VARIABLES marks,    \* the mark of each rater, in order
          years, clients, recs

vars == <<marks, years, clients, recs>>

Avg == AvgRating(marks, DOMAIN marks)
Input == [avg |-> Avg, years |-> years, clients |-> clients, recs |-> recs]
Score == CalculateScore(Input)

Init ==
    /\ marks = <<>>
    /\ years \in YearValues /\ clients \in ClientValues /\ recs \in RecValues

Rated(m) ==
    /\ Len(marks) < MaxRatings
    /\ marks' = Append(marks, m)
    /\ UNCHANGED <<years, clients, recs>>

Tenured(y) == years' = y /\ UNCHANGED <<marks, clients, recs>>
Counted(c) == clients' = c /\ UNCHANGED <<marks, years, recs>>
Endorsed(r) == recs' = r /\ UNCHANGED <<marks, years, clients>>

Next ==
    \/ \E m \in Marks : Rated(m)
    \/ \E y \in YearValues : Tenured(y)
    \/ \E c \in ClientValues : Counted(c)
    \/ \E r \in RecValues : Endorsed(r)

Spec == Init /\ [][Next]_vars

\* A score is between 0 and 100 and fits its column whenever the tenure is not
\* negative, however far the counters overflow (domain/score_test.go:50-58); and
\* 100.00 takes full marks, ten years, fifty clients and twenty recommendations
\* at once (score.go:12, "Pesos somam 100").
ScoreInRange ==
    /\ years >= 0 => Score \in 0 .. 10000 /\ Storable(Score)
    /\ Score = 10000 <=> (Avg = 500 /\ years >= 10 /\ clients >= 50 /\ recs >= 20)

\* Nothing that improves an input lowers the score, nothing that worsens one
\* raises it.
AtLeast(a, b) == /\ a.avg >= b.avg /\ a.years >= b.years
                 /\ a.clients >= b.clients /\ a.recs >= b.recs
ScoreMonotone ==
    [][/\ AtLeast(Input', Input) => Score' >= Score
       /\ AtLeast(Input, Input') => Score' <= Score]_vars

\* avg_rating is the mean of the marks to the nearest hundredth of a star:
\* 4 * n * avg / 100 and the sum of the marks differ by at most half a unit.
SumOfMarks == LET sum[i \in 0 .. Len(marks)] == IF i = 0 THEN 0 ELSE sum[i - 1] + marks[i]
              IN  sum[Len(marks)]
AverageIsNearest ==
    LET n == Len(marks) IN
    n > 0 => LET error == 2 * n * Avg - 50 * SumOfMarks
             IN  /\ Avg \in 100 .. 500
                 /\ -n < error /\ error <= n
=============================================================================
