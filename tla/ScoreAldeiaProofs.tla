------------------------- MODULE ScoreAldeiaProofs -------------------------
(***************************************************************************)
(* The average of any ratings and the score of any statistics.             *)
(*                                                                         *)
(* A sum over a set is a recursive function on its subsets.  What it gives *)
(* is proved by minimal counterexample: of the subsets for which a fact    *)
(* fails one has no smaller among them (SmallestSubset).                   *)
(***************************************************************************)
EXTENDS MCScoreAldeia, FiniteSetTheorems, TLAPS

-----------------------------------------------------------------------------
(* The sum of the marks.                                                   *)

\* The sum of the marks of the raters in S, and the function on the subsets of S
\* that defines it.
Total(m, S) == MapThenSumSet(LAMBDA u : m[u], S)
First(s) == CHOOSE x \in s : TRUE
Tally(m, S, g) == [s \in SUBSET S |-> IF s = {} THEN 0 ELSE m[First(s)] + g[s \ {First(s)}]]
Sums(m, S) == CHOOSE g : g = Tally(m, S, g)

\* The fold is that function at S.
LEMMA TotalIsTally == ASSUME NEW m, NEW S PROVE Total(m, S) = Sums(m, S)[S]
  BY DEF Total, Sums, Tally, First, MapThenSumSet, MapThenFoldSet

\* Of some subsets of a finite set one has no smaller among them.
LEMMA SmallestSubset ==
  ASSUME NEW S, IsFiniteSet(S), NEW B \in SUBSET SUBSET S, B # {}
  PROVE  \E T \in B : \A U \in B : U \subseteq T => U = T
<1>1. FiniteSubsetsOf(S) = SUBSET S
  BY FS_FiniteSubsetsOfFinite
<1>2. IsWellFoundedOn(StrictSubsetOrdering(S), SUBSET S)
  BY <1>1, FS_StrictSubsetOrderingWellFounded
<1>3. PICK T \in B : \A U \in B : ~ (<<U, T>> \in StrictSubsetOrdering(S))
  BY <1>2, WFMin
<1>. QED BY <1>3 DEF StrictSubsetOrdering

\* The first of a set is in it.
LEMMA FirstIsIn == ASSUME NEW s, s # {} PROVE First(s) \in s
  BY DEF First

\* Two functions that tally agree on the subsets of both.
LEMMA TallyUnique ==
  ASSUME NEW m, NEW S, IsFiniteSet(S), NEW T \in SUBSET S, NEW g, NEW h,
         g = Tally(m, S, g), h = Tally(m, T, h)
  PROVE  \A s \in SUBSET T : g[s] = h[s]
<1> DEFINE B == {s \in SUBSET T : g[s] # h[s]}
<1>1. SUFFICES ASSUME B # {} PROVE FALSE
  OBVIOUS
<1>2. IsFiniteSet(T)
  BY FS_Subset
<1>3. PICK s \in B : \A U \in B : U \subseteq s => U = s
  <2>1. B \in SUBSET SUBSET T
    OBVIOUS
  <2> HIDE DEF B
  <2>. QED BY <1>1, <1>2, <2>1, SmallestSubset
<1>4. s \in SUBSET T /\ s \in SUBSET S /\ g[s] # h[s]
  BY <1>3
<1>5. /\ g[s] = IF s = {} THEN 0 ELSE m[First(s)] + g[s \ {First(s)}]
      /\ h[s] = IF s = {} THEN 0 ELSE m[First(s)] + h[s \ {First(s)}]
  BY <1>4 DEF Tally
<1>6. s # {} /\ First(s) \in s
  BY <1>4, <1>5, FirstIsIn
<1>7. s \ {First(s)} \in SUBSET T /\ s \ {First(s)} # s
  BY <1>4, <1>6
<1>8. g[s \ {First(s)}] = h[s \ {First(s)}]
  BY <1>3, <1>7
<1>. QED BY <1>4, <1>5, <1>8

\* A finite set has a function that tallies.
LEMMA TallyExists ==
  ASSUME NEW m, NEW S, IsFiniteSet(S)
  PROVE  Sums(m, S) = Tally(m, S, Sums(m, S))
<1> DEFINE B == {T \in SUBSET S : ~ \E g : g = Tally(m, T, g)}
<1>1. SUFFICES ASSUME B # {} PROVE FALSE
  <2>1. S \in SUBSET S
    OBVIOUS
  <2>2. SUFFICES ASSUME B = {} PROVE \E g : g = Tally(m, S, g)
    BY <1>1 DEF Sums
  <2>. QED BY <2>1, <2>2
<1>2. PICK T \in B : \A U \in B : U \subseteq T => U = T
  <2>1. B \in SUBSET SUBSET S
    OBVIOUS
  <2> HIDE DEF B
  <2>. QED BY <1>1, <2>1, SmallestSubset
<1>3. T \in SUBSET S /\ (~ \E g : g = Tally(m, T, g))
  BY <1>2
<1>4. IsFiniteSet(T)
  BY <1>3, FS_Subset
<1>5. ASSUME NEW U \in SUBSET T, U # T PROVE Sums(m, U) = Tally(m, U, Sums(m, U))
  <2>1. U \in SUBSET S /\ U \notin B
    BY <1>2, <1>3, <1>5
  <2>2. \E g : g = Tally(m, U, g)
    BY <2>1
  <2>. QED BY <2>2 DEF Sums
<1> DEFINE rest(s) == s \ {First(s)}
           h == [s \in SUBSET T |->
                   IF s = {} THEN 0 ELSE m[First(s)] + Sums(m, rest(s))[rest(s)]]
<1>6. ASSUME NEW s \in SUBSET T, s # {} PROVE h[rest(s)] = Sums(m, rest(s))[rest(s)]
  <2> DEFINE U == rest(s)
  <2>1. U \in SUBSET T /\ U # T /\ First(s) \in s
    BY <1>6, FirstIsIn
  <2>2. Sums(m, U) = Tally(m, U, Sums(m, U))
    BY <1>5, <2>1
  <2>3. Sums(m, U)[U] = IF U = {} THEN 0 ELSE m[First(U)] + Sums(m, U)[rest(U)]
    BY <2>2 DEF Tally
  <2>4. h[U] = IF U = {} THEN 0 ELSE m[First(U)] + Sums(m, rest(U))[rest(U)]
    BY <2>1
  <2>5. ASSUME U # {} PROVE Sums(m, U)[rest(U)] = Sums(m, rest(U))[rest(U)]
    <3>1. IsFiniteSet(U) /\ First(U) \in U
      BY <1>4, <2>1, <2>5, FS_Subset, FirstIsIn
    <3>2. rest(U) \in SUBSET U /\ rest(U) \in SUBSET T /\ rest(U) # T
      BY <2>1, <3>1
    <3>3. Sums(m, rest(U)) = Tally(m, rest(U), Sums(m, rest(U)))
      BY <1>5, <3>2
    <3> HIDE DEF U, h, rest
    <3>. QED BY <2>2, <3>1, <3>2, <3>3, TallyUnique
  <2>. QED BY <2>3, <2>4, <2>5
<1>7. h = Tally(m, T, h)
  <2>1. ASSUME NEW s \in SUBSET T
        PROVE  h[s] = IF s = {} THEN 0 ELSE m[First(s)] + h[s \ {First(s)}]
    BY <1>6
  <2>. QED BY <2>1 DEF Tally
<1>. QED BY <1>3, <1>7

\* Nobody's marks add up to nothing.
LEMMA EmptyTotal == ASSUME NEW m PROVE Total(m, {}) = 0
<1>1. Sums(m, {}) = Tally(m, {}, Sums(m, {}))
  BY FS_EmptySet, TallyExists
<1>. QED BY <1>1, TotalIsTally DEF Tally

\* The sum is the mark of the first and the sum of the others.
LEMMA FirstTotal ==
  ASSUME NEW m, NEW S, IsFiniteSet(S), S # {}
  PROVE  Total(m, S) = m[First(S)] + Total(m, S \ {First(S)})
<1> DEFINE T == S \ {First(S)}
<1>1. T \in SUBSET S /\ IsFiniteSet(T)
  BY FS_RemoveElement
<1>2. /\ Sums(m, S) = Tally(m, S, Sums(m, S))
      /\ Sums(m, T) = Tally(m, T, Sums(m, T))
  BY <1>1, TallyExists
<1>3. Sums(m, S)[S] = m[First(S)] + Sums(m, S)[T]
  BY <1>2 DEF Tally
<1>4. Sums(m, S)[T] = Sums(m, T)[T]
  <2> HIDE DEF T
  <2>. QED BY <1>1, <1>2, TallyUnique
<1>. QED BY <1>3, <1>4, TotalIsTally

\* A mark is 4 to 20, so the sum of n of them is 4 * n to 20 * n.
LEMMA TotalRange ==
  ASSUME NEW S, IsFiniteSet(S), NEW m, \A u \in S : m[u] \in 4 .. 20
  PROVE  /\ Total(m, S) \in Int
         /\ 4 * Cardinality(S) <= Total(m, S) /\ Total(m, S) <= 20 * Cardinality(S)
<1> DEFINE Within(T) == /\ Total(m, T) \in Int
                        /\ 4 * Cardinality(T) <= Total(m, T)
                        /\ Total(m, T) <= 20 * Cardinality(T)
           B == {T \in SUBSET S : ~Within(T)}
<1>1. SUFFICES ASSUME B # {} PROVE FALSE
  OBVIOUS
<1>2. PICK T \in B : \A U \in B : U \subseteq T => U = T
  <2>1. B \in SUBSET SUBSET S
    OBVIOUS
  <2> HIDE DEF B
  <2>. QED BY <1>1, <2>1, SmallestSubset
<1>3. T \in SUBSET S /\ ~Within(T) /\ IsFiniteSet(T)
  BY <1>2, FS_Subset
<1>4. T # {}
  BY <1>3, EmptyTotal, FS_EmptySet
<1> DEFINE U == T \ {First(T)}
<1>5. First(T) \in T /\ m[First(T)] \in 4 .. 20
  BY <1>3, <1>4, FirstIsIn
<1>6. /\ U # T /\ U \in SUBSET S /\ IsFiniteSet(U)
      /\ Cardinality(T) \in Nat /\ Cardinality(U) = Cardinality(T) - 1
  BY <1>3, <1>5, FS_RemoveElement, FS_CardinalityType
<1>7. Within(U)
  BY <1>2, <1>6
<1>8. Total(m, T) = m[First(T)] + Total(m, U)
  BY <1>3, <1>4, FirstTotal
<1> HIDE DEF U
<1>9. Within(T)
  BY <1>5, <1>6, <1>7, <1>8
<1>. QED BY <1>3, <1>9

\* The order does not matter: any rater can be the first.
LEMMA AnyFirst ==
  ASSUME NEW S, IsFiniteSet(S), NEW m, \A u \in S : m[u] \in Int
  PROVE  /\ Total(m, S) \in Int
         /\ \A u \in S : Total(m, S) = m[u] + Total(m, S \ {u})
<1> DEFINE Sound(T) == /\ Total(m, T) \in Int
                       /\ \A u \in T : Total(m, T) = m[u] + Total(m, T \ {u})
           B == {T \in SUBSET S : ~Sound(T)}
<1>1. SUFFICES ASSUME B # {} PROVE FALSE
  OBVIOUS
<1>2. PICK T \in B : \A U \in B : U \subseteq T => U = T
  <2>1. B \in SUBSET SUBSET S
    OBVIOUS
  <2> HIDE DEF B
  <2>. QED BY <1>1, <2>1, SmallestSubset
<1>3. T \in SUBSET S /\ ~Sound(T) /\ IsFiniteSet(T)
  BY <1>2, FS_Subset
<1>4. T # {}
  BY <1>3, EmptyTotal
<1>5. PICK x \in T : Total(m, T) = m[x] + Total(m, T \ {x})
  BY <1>3, <1>4, FirstTotal, FirstIsIn
<1>6. ASSUME NEW u \in T PROVE Sound(T \ {u})
  <2>1. T \ {u} \in SUBSET S /\ T \ {u} \subseteq T /\ T \ {u} # T
    BY <1>3
  <2>. QED BY <1>2, <2>1
<1>7. Total(m, T) \in Int
  BY <1>3, <1>5, <1>6
<1>8. ASSUME NEW u \in T, u # x PROVE Total(m, T) = m[u] + Total(m, T \ {u})
  <2> DEFINE W == T \ {u, x}
  <2>1. (T \ {x}) \ {u} = W /\ (T \ {u}) \ {x} = W /\ u \in T \ {x} /\ x \in T \ {u}
    BY <1>8
  <2>2. Total(m, T \ {x}) = m[u] + Total(m, W) /\ Total(m, T \ {u}) = m[x] + Total(m, W)
    BY <1>6, <2>1
  <2>3. Total(m, W) \in Int /\ m[u] \in Int /\ m[x] \in Int
    <3>1. /\ IsFiniteSet(T \ {x}) /\ T \ {x} \in SUBSET S
          /\ W \in SUBSET S /\ W # T /\ W \subseteq T
      BY <1>3, <1>8, FS_RemoveElement
    <3>2. Sound(W)
      BY <1>2, <3>1
    <3>. QED BY <1>3, <3>2
  <2> HIDE DEF W
  <2>. QED BY <1>5, <2>2, <2>3
<1>9. Sound(T)
  BY <1>5, <1>7, <1>8
<1>. QED BY <1>3, <1>9

-----------------------------------------------------------------------------
(* The average of any ratings.                                             *)

\* Dividing with rounding half up: the quotient is the nearest, and of a
\* dividend between low and high times the divisor it is between low and high.
LEMMA Rounding ==
  ASSUME NEW n \in Nat, n > 0, NEW t \in Int, NEW q, q = (50 * t + n) \div (2 * n),
         4 * n <= t, t <= 20 * n
  PROVE  /\ q \in 100 .. 500
         /\ -n < 2 * n * q - 50 * t /\ 2 * n * q - 50 * t <= n
<1>1. q \in Int
  OBVIOUS
<1>2. PICK r \in Int : 50 * t + n = 2 * n * q + r /\ 0 <= r /\ r < 2 * n
  <2> DEFINE a == 50 * t + n
             b == 2 * n
  <2>1. a \in Int /\ b \in Nat /\ b > 0 /\ q = a \div b
    OBVIOUS
  <2> HIDE DEF a, b
  <2>2. a = b * q + (a % b) /\ a % b \in Int /\ 0 <= a % b /\ a % b < b
    BY <2>1
  <2>. QED BY <2>2 DEF a, b
<1>3. q >= 100
  <2>1. SUFFICES ASSUME q <= 99 PROVE FALSE
    BY <1>1
  <2>2. 2 * n * q <= 2 * n * 99
    BY <1>1, <2>1
  <2>. QED BY <1>1, <1>2, <2>2
<1>4. q <= 500
  <2>1. SUFFICES ASSUME q >= 501 PROVE FALSE
    BY <1>1
  <2>2. 2 * n * q >= 2 * n * 501
    BY <1>1, <2>1
  <2>. QED BY <1>1, <1>2, <2>2
<1>. QED BY <1>1, <1>2, <1>3, <1>4

\* The average of any raters is their mean to the nearest hundredth, and in range.
LEMMA AverageOfSet ==
  ASSUME NEW S, IsFiniteSet(S), S # {}, NEW m, \A u \in S : m[u] \in 4 .. 20
  PROVE  LET n == Cardinality(S)
             error == 2 * n * AvgRating(m, S) - 50 * Total(m, S)
         IN  AvgRating(m, S) \in 100 .. 500 /\ -n < error /\ error <= n
<1> DEFINE n == Cardinality(S)
           t == Total(m, S)
<1>1. n \in Nat /\ n > 0
  BY FS_CardinalityType, FS_EmptySet
<1>2. t \in Int /\ 4 * n <= t /\ t <= 20 * n
  BY TotalRange
<1>3. AvgRating(m, S) = (50 * t + n) \div (2 * n)
  <2>1. AvgRating(m, S) = IF n = 0 THEN 0 ELSE (50 * t + n) \div (2 * n)
    BY DEF AvgRating, Total
  <2>. QED BY <1>1, <2>1
<1> HIDE DEF n, t
<1>4. /\ AvgRating(m, S) \in 100 .. 500
      /\ -n < 2 * n * AvgRating(m, S) - 50 * t /\ 2 * n * AvgRating(m, S) - 50 * t <= n
  BY <1>1, <1>2, <1>3, Rounding
<1>. QED BY <1>4 DEF n, t

\* Without a rating AvgRating is 0.
LEMMA AverageOfNone == ASSUME NEW m PROVE AvgRating(m, {}) = 0
  BY FS_EmptySet DEF AvgRating

-----------------------------------------------------------------------------
(* The score of any statistics.                                            *)

\* Whatever the average, the tenure and the counters: with a tenure that is not
\* negative the score is between 0 and 100.00, it is 100.00 for full marks in
\* everything only (domain/score.go:12, "Pesos somam 100"), and the column can
\* hold it down to a tenure of minus 666 years, which nobody validates.
THEOREM ScoreFits ==
  ASSUME NEW p \in ProviderStats
  PROVE  /\ p.years >= 0 => CalculateScore(p) \in 0 .. 10000
         /\ p.years >= -666 => Storable(CalculateScore(p))
         /\ CalculateScore(p) = 10000
               <=> p.avg = 500 /\ p.years >= 10 /\ p.clients >= 50 /\ p.recs >= 20
<1>1. p.avg \in 0 .. 500 /\ p.years \in Int /\ p.clients \in Nat /\ p.recs \in Nat
  BY DEF ProviderStats, AvgRange
<1>2. PICK a, y, c, r :
         /\ a = p.avg /\ y = Saturate(p.years, 10)
         /\ c = Saturate(p.clients, 50) /\ r = Saturate(p.recs, 20)
  OBVIOUS
<1>. a \in Int /\ y \in Int /\ c \in Int /\ r \in Int
  BY <1>1, <1>2 DEF Saturate
<1>3. /\ 0 <= a /\ a <= 500
      /\ y <= 10 /\ (p.years >= 10 <=> y = 10)
      /\ (p.years >= 0 => y >= 0) /\ (p.years >= -666 => y >= -666)
  BY <1>1, <1>2 DEF Saturate
<1>4. 0 <= c /\ c <= 50 /\ (p.clients >= 50 <=> c = 50)
  BY <1>1, <1>2 DEF Saturate
<1>5. 0 <= r /\ r <= 20 /\ (p.recs >= 20 <=> r = 20)
  BY <1>1, <1>2 DEF Saturate
<1>6. CalculateScore(p) = 8 * a + 150 * y + 60 * c + 75 * r
  BY <1>2 DEF CalculateScore
<1>7. CalculateScore(p) = 10000 <=> a = 500 /\ y = 10 /\ c = 50 /\ r = 20
  BY <1>2, <1>3, <1>4, <1>5, <1>6
<1>8. CalculateScore(p) \in Int /\ 150 * y <= CalculateScore(p) /\ CalculateScore(p) <= 10000
  BY <1>3, <1>4, <1>5, <1>6
<1>9. ASSUME p.years >= 0 PROVE CalculateScore(p) \in 0 .. 10000
  <2>1. PICK n : n = CalculateScore(p)
    OBVIOUS
  <2>2. n \in Int /\ 150 * y <= n /\ n <= 10000
    BY <1>8, <2>1
  <2>3. 0 <= y
    BY <1>1, <1>3, <1>9
  <2>4. n \in 0 .. 10000
    BY <2>2, <2>3
  <2>. QED BY <2>1, <2>4
<1>10. p.years >= -666 => Storable(CalculateScore(p))
  BY <1>3, <1>8 DEF Storable, ScoreLimit
<1>. QED BY <1>2, <1>3, <1>4, <1>5, <1>7, <1>9, <1>10

\* Nothing that improves a statistic lowers the score: an input that is
\* saturated stays so.
THEOREM ScoreIsMonotone ==
  ASSUME NEW p \in ProviderStats, NEW s \in ProviderStats,
         s.avg >= p.avg, s.years >= p.years, s.clients >= p.clients, s.recs >= p.recs
  PROVE  CalculateScore(s) >= CalculateScore(p)
<1>1. /\ p.avg \in Int /\ p.years \in Int /\ p.clients \in Int /\ p.recs \in Int
      /\ s.avg \in Int /\ s.years \in Int /\ s.clients \in Int /\ s.recs \in Int
  BY DEF ProviderStats, AvgRange
<1>2. /\ Saturate(s.years, 10) \in Int /\ Saturate(p.years, 10) \in Int
      /\ Saturate(s.years, 10) >= Saturate(p.years, 10)
  BY <1>1 DEF Saturate
<1>3. /\ Saturate(s.clients, 50) \in Int /\ Saturate(p.clients, 50) \in Int
      /\ Saturate(s.clients, 50) >= Saturate(p.clients, 50)
  BY <1>1 DEF Saturate
<1>4. /\ Saturate(s.recs, 20) \in Int /\ Saturate(p.recs, 20) \in Int
      /\ Saturate(s.recs, 20) >= Saturate(p.recs, 20)
  BY <1>1 DEF Saturate
<1>. QED BY <1>1, <1>2, <1>3, <1>4 DEF CalculateScore

-----------------------------------------------------------------------------
(* The state machine over the inputs.                                      *)

StatsInv == /\ marks \in Seq(Marks)
            /\ years \in YearValues /\ clients \in ClientValues /\ recs \in RecValues

\* The inputs stay what may be entered.
LEMMA StatsAlways == Spec => []StatsInv
<1>1. Init => StatsInv
  BY DEF Init, StatsInv
<1>2. StatsInv /\ [Next]_vars => StatsInv'
  <2>1. SUFFICES ASSUME StatsInv, [Next]_vars PROVE StatsInv'
    OBVIOUS
  <2>2. ASSUME NEW m \in Marks, Rated(m) PROVE StatsInv'
    BY <2>1, <2>2 DEF StatsInv, Rated
  <2>. QED BY <2>1, <2>2 DEF Next, Tenured, Counted, Endorsed, StatsInv, vars
<1>. QED BY <1>1, <1>2, PTL DEF Spec

\* The raters are the places of the sequence.
LEMMA RatersOfMarks ==
  ASSUME StatsInv
  PROVE  /\ DOMAIN marks = 1 .. Len(marks) /\ Len(marks) \in Nat
         /\ IsFiniteSet(DOMAIN marks) /\ Cardinality(DOMAIN marks) = Len(marks)
         /\ \A u \in DOMAIN marks : marks[u] \in 4 .. 20
<1>1. DOMAIN marks = 1 .. Len(marks) /\ Len(marks) \in Nat
      /\ \A u \in DOMAIN marks : marks[u] \in Marks
  BY DEF StatsInv
<1>2. IsFiniteSet(1 .. Len(marks)) /\ Cardinality(1 .. Len(marks)) = Len(marks)
  <2>1. 1 \in Int /\ Len(marks) \in Int
    BY <1>1
  <2>2. /\ IsFiniteSet(1 .. Len(marks))
        /\ Cardinality(1 .. Len(marks)) = IF 1 > Len(marks) THEN 0 ELSE Len(marks) - 1 + 1
    BY <2>1, FS_Interval
  <2>. QED BY <1>1, <2>2
<1>3. \A u \in DOMAIN marks : marks[u] \in 4 .. 20
  BY <1>1, ScoreAssumption
<1>. QED BY <1>1, <1>2, <1>3

\* What the state gives the formula is a statistic.
LEMMA InputIsStatistic == ASSUME StatsInv PROVE Input \in ProviderStats
<1>1. Avg \in AvgRange
  <2>1. CASE DOMAIN marks = {}
    <3>1. Avg = AvgRating(marks, {})
      BY <2>1 DEF Avg
    <3>2. Avg = 0
      BY <3>1, AverageOfNone
    <3>. QED BY <3>2 DEF AvgRange
  <2>2. CASE DOMAIN marks # {}
    <3>1. AvgRating(marks, DOMAIN marks) \in 100 .. 500
      BY <2>2, RatersOfMarks, AverageOfSet
    <3>. QED BY <3>1 DEF Avg, AvgRange
  <2>. QED BY <2>1, <2>2
<1>2. years \in Int /\ clients \in Nat /\ recs \in Nat
  BY ScoreAssumption DEF StatsInv
<1>. QED BY <1>1, <1>2 DEF Input, ProviderStats

\* The sum in order, as AverageIsNearest takes it, is the sum in any order.
LEMMA SumInOrder == ASSUME StatsInv PROVE SumOfMarks = Total(marks, DOMAIN marks)
<1> DEFINE n == Len(marks)
           Adds(f) == f = [i \in 0 .. n |-> IF i = 0 THEN 0 ELSE f[i - 1] + marks[i]]
           sum == CHOOSE f : Adds(f)
           B == {i \in 0 .. n : sum[i] # Total(marks, 1 .. i)}
           Below == {ij \in Nat \X Nat : ij[1] < ij[2]}
<1>1. n \in Nat /\ DOMAIN marks = 1 .. n /\ \A i \in 1 .. n : marks[i] \in Int
  BY RatersOfMarks
<1>2. SumOfMarks = sum[n]
  BY DEF SumOfMarks
<1> HIDE DEF n
<1>3. ASSUME NEW i \in 1 .. n
      PROVE  Total(marks, 1 .. i) = Total(marks, 1 .. i - 1) + marks[i]
  <2>1. IsFiniteSet(1 .. i) /\ \A u \in 1 .. i : marks[u] \in Int
    BY <1>1, FS_Interval
  <2>2. i \in 1 .. i /\ (1 .. i) \ {i} = 1 .. i - 1
    BY <1>1
  <2>3. Total(marks, 1 .. i) = marks[i] + Total(marks, 1 .. i - 1)
    BY <2>1, <2>2, AnyFirst
  <2>4. IsFiniteSet(1 .. i - 1) /\ \A u \in 1 .. i - 1 : marks[u] \in Int
    BY <1>1, FS_Interval
  <2>5. Total(marks, 1 .. i - 1) \in Int
    BY <2>4, AnyFirst
  <2>. QED BY <1>1, <2>3, <2>5
<1>4. Adds(sum)
  <2> DEFINE f == [i \in 0 .. n |-> Total(marks, 1 .. i)]
  <2>1. ASSUME NEW i \in 0 .. n PROVE f[i] = IF i = 0 THEN 0 ELSE f[i - 1] + marks[i]
    <3>1. CASE i = 0
      <4>1. 1 .. i = {}
        BY <3>1
      <4>. QED BY <3>1, <4>1, EmptyTotal
    <3>2. CASE i # 0
      BY <1>1, <1>3, <3>2
    <3>. QED BY <3>1, <3>2
  <2>2. Adds(f)
    BY <2>1
  <2> HIDE DEF Adds
  <2>. QED BY <2>2
<1>5. B = {}
  <2>1. SUFFICES ASSUME B # {} PROVE FALSE
    OBVIOUS
  <2>2. B \subseteq Nat /\ IsWellFoundedOn(Below, Nat)
    BY <1>1, NatLessThanWellFounded DEF OpToRel
  <2>3. PICK i \in B : \A j \in B : ~ (<<j, i>> \in Below)
    <3> HIDE DEF B, Below
    <3>. QED BY <2>1, <2>2, WFMin
  <2>4. i \in 0 .. n /\ sum[i] # Total(marks, 1 .. i) /\ \A j \in B : ~(j < i)
    BY <2>2, <2>3
  <2>5. sum[i] = IF i = 0 THEN 0 ELSE sum[i - 1] + marks[i]
    BY <1>4, <2>4
  <2>6. i # 0
    <3>1. 1 .. 0 = {}
      OBVIOUS
    <3>. QED BY <2>4, <2>5, <3>1, EmptyTotal
  <2>7. i - 1 \in 0 .. n /\ i - 1 < i /\ i \in 1 .. n
    BY <1>1, <2>4, <2>6
  <2>8. sum[i - 1] = Total(marks, 1 .. i - 1)
    BY <2>4, <2>7
  <2>. QED BY <1>3, <2>4, <2>5, <2>6, <2>7, <2>8
<1>6. n \in 0 .. n
  BY <1>1
<1> HIDE DEF sum
<1>7. sum[n] = Total(marks, 1 .. n)
  BY <1>5, <1>6
<1>. QED BY <1>1, <1>2, <1>7

\* However many ratings, the average of them is their mean to the nearest
\* hundredth of a star, and is between one star and five.
THEOREM AverageAlwaysNearest == Spec => []AverageIsNearest
<1>1. ASSUME StatsInv, Len(marks) > 0
      PROVE  LET n == Len(marks)
                 error == 2 * n * Avg - 50 * SumOfMarks
             IN  Avg \in 100 .. 500 /\ -n < error /\ error <= n
  <2>1. /\ DOMAIN marks # {} /\ IsFiniteSet(DOMAIN marks)
        /\ Cardinality(DOMAIN marks) = Len(marks)
        /\ \A u \in DOMAIN marks : marks[u] \in 4 .. 20
    BY <1>1, RatersOfMarks
  <2>2. LET n == Len(marks)
            error == 2 * n * AvgRating(marks, DOMAIN marks) - 50 * Total(marks, DOMAIN marks)
        IN  AvgRating(marks, DOMAIN marks) \in 100 .. 500 /\ -n < error /\ error <= n
    BY <2>1, AverageOfSet
  <2>3. Avg = AvgRating(marks, DOMAIN marks) /\ SumOfMarks = Total(marks, DOMAIN marks)
    BY <1>1, SumInOrder DEF Avg
  <2>. QED BY <2>2, <2>3
<1>2. StatsInv => AverageIsNearest
  BY <1>1 DEF AverageIsNearest
<1>. QED BY <1>2, StatsAlways, PTL

\* However many ratings, whatever the tenure and the counters: a score is within
\* 0 and 100.00 unless the tenure is negative, and is 100.00 only for the best
\* of everything.
THEOREM ScoreAlwaysInRange == Spec => []ScoreInRange
<1>1. ASSUME StatsInv PROVE ScoreInRange
  <2>1. PICK p \in ProviderStats : p = Input
    BY <1>1, InputIsStatistic
  <2>2. p.avg = Avg /\ p.years = years /\ p.clients = clients /\ p.recs = recs
    BY <2>1 DEF Input
  <2>3. /\ p.years >= 0 => CalculateScore(p) \in 0 .. 10000
        /\ p.years >= -666 => Storable(CalculateScore(p))
        /\ CalculateScore(p) = 10000
              <=> p.avg = 500 /\ p.years >= 10 /\ p.clients >= 50 /\ p.recs >= 20
    BY ScoreFits
  <2>4. p.years \in Int /\ (p.years >= 0 => p.years >= -666)
    BY DEF ProviderStats
  <2>5. Score = CalculateScore(p)
    BY <2>1 DEF Score
  <2>. QED BY <2>2, <2>3, <2>4, <2>5 DEF ScoreInRange
<1>2. StatsInv => ScoreInRange
  BY <1>1
<1>. QED BY <1>2, StatsAlways, PTL

\* A score is a number of hundredths.
LEMMA ScoreIsNumber == ASSUME NEW p \in ProviderStats PROVE CalculateScore(p) \in Int
<1>1. p.avg \in Int /\ p.years \in Int /\ p.clients \in Int /\ p.recs \in Int
  BY DEF ProviderStats, AvgRange
<1>2. /\ Saturate(p.years, 10) \in Int /\ Saturate(p.clients, 50) \in Int
      /\ Saturate(p.recs, 20) \in Int
  BY <1>1 DEF Saturate
<1>. QED BY <1>1, <1>2 DEF CalculateScore

\* A request that improves a statistic never lowers the score, and one that
\* worsens it never raises it.
THEOREM ScoreNeverTurns == Spec => ScoreMonotone
<1> DEFINE Typed == Input \in ProviderStats
           Mono == /\ AtLeast(Input', Input) => Score' >= Score
                   /\ AtLeast(Input, Input') => Score' <= Score
<1>1. StatsInv => Typed
  BY InputIsStatistic
<1>2. ASSUME Typed, Typed' PROVE Mono
  <2>1. PICK p \in ProviderStats, s \in ProviderStats : p = Input /\ s = Input'
    BY <1>2
  <2>2. Score = CalculateScore(p) /\ Score' = CalculateScore(s)
    BY <2>1 DEF Score
  <2>3. /\ AtLeast(s, p) => CalculateScore(s) >= CalculateScore(p)
        /\ AtLeast(p, s) => CalculateScore(p) >= CalculateScore(s)
    BY ScoreIsMonotone DEF AtLeast
  <2>4. CalculateScore(s) \in Int /\ CalculateScore(p) \in Int
    BY ScoreIsNumber
  <2>. QED BY <2>1, <2>2, <2>3, <2>4
<1>3. Typed /\ Typed' => [Mono]_vars
  BY <1>2
<1>4. ScoreMonotone <=> [][Mono]_vars
  BY DEF ScoreMonotone
<1> HIDE DEF Typed, Mono
<1>. QED BY <1>1, <1>3, <1>4, StatsAlways, PTL
=============================================================================
