-------------------------- MODULE ReputationProofs --------------------------
(***************************************************************************)
(* Safety of Reputation for every number of residents and requests, and    *)
(* what the aggregates and the score need beyond it: which two statements  *)
(* must not come between which.                                            *)
(***************************************************************************)
EXTENDS Reputation, FiniteSetTheorems, TLAPS

-----------------------------------------------------------------------------
(* The inductive invariant.                                                *)

\* The row lock is held exactly by the request that has updated the row.
LockInv == \A q \in Requests : rowLock = q <=> At(q, "written")

\* Which requests pass through which phase.
PhaseInv == \A q \in Requests :
    /\ At(q, "snapped") => req[q].kind = "rate"
    /\ At(q, "changed") => req[q].kind # "tenure"

\* Two open transactions never hold the same key.
RowInv == \A p, q \in Requests :
    InTransaction(p) /\ InTransaction(q) /\ SameRow(p, q) => p = q

\* What the first statement of an open transaction found is still so, because
\* everyone else waits for that key: its own change is not committed yet.
PendingInv == \A q \in Requests : InTransaction(q) =>
    /\ req[q].kind = "rate" => req[q].who \notin ratings
    /\ req[q].kind = "recommend" => req[q].who \notin recommendations
    /\ req[q].kind = "withdraw" => req[q].who \in recommendations

\* The count a transaction is about to commit was computed from the count
\* that is still committed: the row lock keeps everyone else out.
CountInv == \A q \in Requests : At(q, "written") =>
    /\ req[q].kind = "recommend" => req[q].count = profile.recs + 1
    /\ req[q].kind = "withdraw" => req[q].count = profile.recs - 1

IInv == /\ TypeOK /\ LockInv /\ PhaseInv /\ RowInv /\ PendingInv /\ CountInv
        /\ RecommendationCountExact

-----------------------------------------------------------------------------
(* How the control state changes: a request moves alone.                   *)

\* The rest of the requests stand still, and a request keeps what it was asked.
Moves(q, phase) ==
    /\ req' \in [Requests -> Request]
    /\ \A p \in Requests \ {q} : req'[p] = req[p]
    /\ req'[q].pc = phase
    /\ req'[q].kind = req[q].kind /\ req'[q].who = req[q].who

\* A request that goes on keeps what it has read.
LEMMA GotoMoves ==
  ASSUME TypeOK, NEW q \in Requests, NEW phase \in Phases, Goto(q, phase)
  PROVE  /\ Moves(q, phase) /\ req'[q].count = req[q].count
         /\ req'[q].snap = req[q].snap /\ req'[q].stats = req[q].stats
<1> DEFINE r == [req[q] EXCEPT !.pc = phase]
<1>1. r \in Request
  BY DEF TypeOK, Request
<1>2. req' = [req EXCEPT ![q] = r]
  BY DEF Goto
<1>3. /\ r.pc = phase /\ r.kind = req[q].kind /\ r.who = req[q].who
      /\ r.count = req[q].count /\ r.snap = req[q].snap /\ r.stats = req[q].stats
  BY DEF TypeOK, Request
<1> HIDE DEF r
<1>. QED BY <1>1, <1>2, <1>3 DEF TypeOK, Moves

\* A request that is answered forgets what it has read.
LEMMA FinishMoves ==
  ASSUME TypeOK, NEW q \in Requests, NEW outcome \in Outcomes, Finish(q, outcome)
  PROVE  Moves(q, "done") /\ req'[q].snap = {} /\ req'[q].stats = None
<1> DEFINE r == [req[q] EXCEPT !.pc = "done", !.outcome = outcome,
                               !.snap = {}, !.count = 0, !.stats = None]
<1>1. r \in Request
  BY DEF TypeOK, Request, Phases
<1>2. req' = [req EXCEPT ![q] = r]
  BY DEF Finish
<1>3. /\ r.pc = "done" /\ r.kind = req[q].kind /\ r.who = req[q].who
      /\ r.snap = {} /\ r.stats = None
  BY DEF TypeOK, Request
<1> HIDE DEF r
<1>. QED BY <1>1, <1>2, <1>3 DEF TypeOK, Moves

\* A request that arrives is no other one's business.
LEMMA ArriveMoves ==
  ASSUME TypeOK, NEW q \in Requests, NEW kind \in Kinds, NEW u \in Users,
         NEW y \in Tenures \cup {None}, Arrive(q, kind, u, y)
  PROVE  /\ req' \in [Requests -> Request]
         /\ \A p \in Requests \ {q} : req'[p] = req[p]
         /\ req'[q].pc = "arrived"
         /\ req'[q].snap = req[q].snap /\ req'[q].stats = req[q].stats
<1> DEFINE r == [req[q] EXCEPT !.pc = "arrived", !.kind = kind, !.who = u, !.years = y]
<1>1. r \in Request
  BY DEF TypeOK, Request, Phases
<1>2. req' = [req EXCEPT ![q] = r]
  BY DEF Arrive
<1>3. r.pc = "arrived" /\ r.snap = req[q].snap /\ r.stats = req[q].stats
  BY DEF TypeOK, Request
<1> HIDE DEF r
<1>. QED BY <1>1, <1>2, <1>3 DEF TypeOK

\* The subqueries see the committed ratings and the one just inserted.
LEMMA SnapshotMoves ==
  ASSUME TypeOK, NEW q \in Requests, SnapshotRatings(q)
  PROVE  /\ Moves(q, "snapped") /\ req'[q].snap = ratings \cup {req[q].who}
         /\ req'[q].stats = req[q].stats
<1> DEFINE r == [req[q] EXCEPT !.pc = "snapped", !.snap = ratings \cup {req[q].who}]
<1>1. r \in Request
  BY DEF TypeOK, Request, Phases
<1>2. req' = [req EXCEPT ![q] = r]
  BY DEF SnapshotRatings
<1>3. /\ r.pc = "snapped" /\ r.kind = req[q].kind /\ r.who = req[q].who
      /\ r.snap = ratings \cup {req[q].who} /\ r.stats = req[q].stats
  BY DEF TypeOK, Request
<1> HIDE DEF r
<1>. QED BY <1>1, <1>2, <1>3 DEF TypeOK, Moves

\* The count that a recommendation or a withdrawal is about to commit.
LEMMA CountMoves ==
  ASSUME TypeOK, NEW q \in Requests, WriteCount(q)
  PROVE  /\ Moves(q, "written")
         /\ req'[q].count = IF req[q].kind = "recommend" THEN Increment(profile.recs)
                                                         ELSE Decrement(profile.recs)
         /\ req'[q].snap = req[q].snap /\ req'[q].stats = req[q].stats
<1> DEFINE n == IF req[q].kind = "recommend" THEN Increment(profile.recs)
                                             ELSE Decrement(profile.recs)
           r == [req[q] EXCEPT !.pc = "written", !.count = n]
<1>1. n \in Nat
  BY DEF TypeOK, Profile, Increment, Decrement
<1>2. req' = [req EXCEPT ![q] = r]
  BY DEF WriteCount
<1> HIDE DEF n
<1>3. r \in Request
  BY <1>1 DEF TypeOK, Request, Phases
<1>4. /\ r.pc = "written" /\ r.kind = req[q].kind /\ r.who = req[q].who /\ r.count = n
      /\ r.snap = req[q].snap /\ r.stats = req[q].stats
  BY DEF TypeOK, Request
<1> HIDE DEF r
<1>5. /\ Moves(q, "written") /\ req'[q].count = n
      /\ req'[q].snap = req[q].snap /\ req'[q].stats = req[q].stats
  BY <1>2, <1>3, <1>4 DEF TypeOK, Moves
<1>. QED BY <1>5 DEF n

\* A recompute takes its statistics from the row as it is.
LEMMA ReadMoves ==
  ASSUME TypeOK, NEW q \in Requests, ReadStats(q)
  PROVE  /\ Moves(q, "scored") /\ req'[q].snap = req[q].snap
         /\ req'[q].stats = Stats(profile)
<1> DEFINE r == [req[q] EXCEPT !.pc = "scored", !.stats = Stats(profile)]
<1>1. Stats(profile) \in Basis
  BY DEF TypeOK, Profile, Basis, Stats
<1>2. req' = [req EXCEPT ![q] = r]
  BY DEF ReadStats
<1>3. r \in Request
  BY <1>1 DEF TypeOK, Request, Phases
<1>4. /\ r.pc = "scored" /\ r.kind = req[q].kind /\ r.who = req[q].who
      /\ r.snap = req[q].snap /\ r.stats = Stats(profile)
  BY DEF TypeOK, Request
<1> HIDE DEF r
<1>. QED BY <1>2, <1>3, <1>4 DEF TypeOK, Moves

-----------------------------------------------------------------------------
(* Type correctness.                                                       *)

\* Every step keeps the types.
LEMMA TypeStep ==
  ASSUME ReputationAssumption, TypeOK, [Next]_vars
  PROVE  TypeOK'
<1>1. ASSUME NEW q \in Requests, NEW kind \in Kinds, NEW u \in Users,
             NEW y \in Tenures \cup {None}, Arrive(q, kind, u, y)
      PROVE  TypeOK'
  BY <1>1, ArriveMoves DEF Arrive, TypeOK
<1>2. ASSUME NEW q \in Requests, Serve(q) PROVE TypeOK'
  <2> USE DEF Phases, Outcomes
  <2>1. CASE \/ InsertRating(q) \/ InsertRecommendation(q) \/ DeleteRecommendation(q)
             \/ WriteAggregates(q) \/ WriteTenure(q) \/ Notify(q)
    <3>1. \E phase \in Phases : Goto(q, phase)
      BY <2>1 DEF InsertRating, InsertRecommendation, DeleteRecommendation,
                  WriteAggregates, WriteTenure, Notify
    <3>2. req' \in [Requests -> Request]
      BY <3>1, GotoMoves DEF Moves
    <3>. QED BY <2>1, <3>2 DEF TypeOK, InsertRating, InsertRecommendation,
                  DeleteRecommendation, WriteAggregates, WriteTenure, Notify
  <2>2. CASE RejectRating(q) \/ RejectRecommendation(q) \/ RejectWithdrawal(q)
    BY <2>2, FinishMoves
       DEF Moves, TypeOK, RejectRating, RejectRecommendation, RejectWithdrawal
  <2>3. CASE SnapshotRatings(q)
    BY <2>3, SnapshotMoves DEF SnapshotRatings, Moves, TypeOK
  <2>4. CASE WriteCount(q)
    BY <2>4, CountMoves DEF WriteCount, Moves, TypeOK
  <2>5. CASE CommitRating(q) \/ CommitRecommendation(q) \/ CommitWithdrawal(q)
    <3>1. req' \in [Requests -> Request]
      BY <2>5, GotoMoves DEF CommitRating, CommitRecommendation, CommitWithdrawal, Moves
    <3>2. req[q] \in Request
      BY DEF TypeOK
    <3>3. profile' \in Profile
      BY <2>5, <3>2 DEF CommitRating, CommitRecommendation, CommitWithdrawal,
                        TypeOK, Profile, Request
    <3>. QED BY <2>5, <3>1, <3>2, <3>3 DEF CommitRating, CommitRecommendation,
                        CommitWithdrawal, TypeOK, Request, Unlock
  <2>6. CASE CommitTenure(q)
    <3>1. req' \in [Requests -> Request]
      BY <2>6, GotoMoves, FinishMoves DEF CommitTenure, Moves
    <3>2. req[q].years \in Tenures \cup {None}
      BY DEF TypeOK, Request
    <3>3. profile' \in Profile
      BY <2>6, <3>2 DEF CommitTenure, TypeOK, Profile, ReputationAssumption
    <3>. QED BY <2>6, <3>1, <3>3 DEF CommitTenure, TypeOK, Unlock
  <2>7. CASE ReadStats(q)
    BY <2>7, ReadMoves DEF ReadStats, Moves, TypeOK
  <2>8. CASE WriteScore(q)
    <3>1. req' \in [Requests -> Request]
      BY <2>8, FinishMoves DEF WriteScore, Moves
    <3>2. req[q].stats \in Basis \cup {None}
      BY DEF TypeOK, Request
    <3>3. profile' \in Profile
      BY <2>8, <3>2 DEF WriteScore, TypeOK, Profile
    <3>. QED BY <2>8, <3>1, <3>3 DEF WriteScore, TypeOK
  <2>. QED BY <1>2, <2>1, <2>2, <2>3, <2>4, <2>5, <2>6, <2>7, <2>8 DEF Serve
<1>3. ASSUME NEW q \in Requests, Fail(q) PROVE TypeOK'
  BY <1>3, FinishMoves DEF Fail, Moves, TypeOK, Outcomes, Unlock
<1>4. CASE UNCHANGED vars
  BY <1>4 DEF vars, TypeOK
<1>. QED BY <1>1, <1>2, <1>3, <1>4 DEF Next

\* The first state has its types.
LEMMA TypeInit == ASSUME ReputationAssumption, Init PROVE TypeOK
  BY DEF Init, TypeOK, Profile, Basis, RegisteredProfile, NewRequest, Request,
         Kinds, Phases, Outcomes, ReputationAssumption

\* Every state is one the comments on the variables describe.
THEOREM TypeCorrect == Spec => []TypeOK
  BY TypeInit, TypeStep, ReputationAssumption, PTL DEF Spec
-----------------------------------------------------------------------------
(* The recommendation counter.                                             *)

\* The invariant of the count holds before the first request.
LEMMA CountInit == ASSUME ReputationAssumption, Init PROVE IInv
<1>1. \A q \in Requests : At(q, "new") /\ req[q].kind = "tenure"
  BY DEF Init, At, NewRequest
<1>2. RecommendationCountExact
  BY FS_EmptySet DEF Init, RecommendationCountExact, RegisteredProfile
<1>3. LockInv
  BY <1>1 DEF Init, LockInv, At, ReputationAssumption
<1>. QED BY <1>1, <1>2, <1>3, TypeInit
         DEF IInv, PhaseInv, RowInv, PendingInv, CountInv, At, InTransaction

\* A request that is not in a transaction, and does not enter one, disturbs
\* nothing as long as the committed tables, the count and the lock stay.
LEMMA OutsideStep ==
  ASSUME ReputationAssumption, IInv, TypeOK', NEW q \in Requests,
         \A p \in Requests \ {q} : req'[p] = req[p],
         req'[q].pc \notin {"changed", "snapped", "written"},
         UNCHANGED <<ratings, recommendations>>, profile'.recs = profile.recs,
         rowLock' = IF rowLock = q THEN None ELSE rowLock
  PROVE  IInv'
<1> USE DEF IInv, At
<1>1. LockInv'
  BY DEF LockInv, ReputationAssumption
<1>2. PhaseInv'
  BY DEF PhaseInv
<1>3. RowInv'
  BY DEF RowInv, InTransaction, SameRow
<1>4. PendingInv'
  BY DEF PendingInv, InTransaction
<1>5. CountInv'
  BY DEF CountInv
<1>6. RecommendationCountExact'
  BY DEF RecommendationCountExact
<1>. QED BY <1>1, <1>2, <1>3, <1>4, <1>5, <1>6
\* The first statement of a transaction takes a key nobody holds.
LEMMA EnterStep ==
  ASSUME ReputationAssumption, IInv, TypeOK', NEW q \in Requests,
         At(q, "arrived"), Moves(q, "changed"), req[q].kind # "tenure", ~RowBusy(q),
         req[q].kind = "rate" => req[q].who \notin ratings,
         req[q].kind = "recommend" => req[q].who \notin recommendations,
         req[q].kind = "withdraw" => req[q].who \in recommendations,
         UNCHANGED <<ratings, recommendations, profile, rowLock>>
  PROVE  IInv'
<1> USE DEF IInv, At, Moves
<1>1. LockInv'
  BY DEF LockInv
<1>2. PhaseInv'
  BY DEF PhaseInv
<1>3. RowInv'
  BY DEF RowInv, InTransaction, SameRow, RowBusy
<1>4. PendingInv'
  BY DEF PendingInv, InTransaction
<1>5. CountInv'
  BY DEF CountInv
<1>6. RecommendationCountExact'
  BY DEF RecommendationCountExact
<1>. QED BY <1>1, <1>2, <1>3, <1>4, <1>5, <1>6

\* A later statement of a transaction, which may take the row lock.
LEMMA InsideStep ==
  ASSUME ReputationAssumption, IInv, TypeOK', NEW q \in Requests,
         NEW phase \in {"snapped", "written"}, Moves(q, phase),
         \/ InTransaction(q) \/ req[q].kind = "tenure",
         ~At(q, "written"), phase = "snapped" => req[q].kind = "rate",
         phase = "written" => rowLock = None /\ rowLock' = q,
         phase = "snapped" => rowLock' = rowLock,
         phase = "written" /\ req[q].kind = "recommend" => req'[q].count = profile.recs + 1,
         phase = "written" /\ req[q].kind = "withdraw" => req'[q].count = profile.recs - 1,
         UNCHANGED <<ratings, recommendations, profile>>
  PROVE  IInv'
<1> USE DEF IInv, At, Moves
<1>1. LockInv'
  BY DEF LockInv, ReputationAssumption
<1>2. PhaseInv'
  BY DEF PhaseInv
<1>3. RowInv'
  BY DEF RowInv, InTransaction, SameRow
<1>4. PendingInv'
  BY DEF PendingInv, InTransaction
<1>5. CountInv'
  <2>1. \A p \in Requests : p # q => (At(p, "written") <=> At(p, "written")')
    OBVIOUS
  <2>2. phase = "written" => \A p \in Requests : ~At(p, "written")
    BY DEF LockInv, ReputationAssumption
  <2>. QED BY <2>1, <2>2 DEF CountInv
<1>6. RecommendationCountExact'
  BY DEF RecommendationCountExact
<1>. QED BY <1>1, <1>2, <1>3, <1>4, <1>5, <1>6

\* A commit publishes the rows of its own key and releases the lock.
LEMMA CommitStep ==
  ASSUME ReputationAssumption, IInv, TypeOK', NEW q \in Requests,
         NEW phase \in {"committed", "recompute"}, At(q, "written"), Moves(q, phase),
         rowLock' = None, RecommendationCountExact',
         ratings' = IF req[q].kind = "rate" THEN ratings \cup {req[q].who} ELSE ratings,
         recommendations' = IF req[q].kind = "recommend"
                            THEN recommendations \cup {req[q].who}
                            ELSE IF req[q].kind = "withdraw"
                                 THEN recommendations \ {req[q].who} ELSE recommendations
  PROVE  IInv'
<1> USE DEF IInv, At, Moves
<1>1. rowLock = q
  BY DEF LockInv
<1>2. LockInv'
  BY <1>1 DEF LockInv, ReputationAssumption
<1>3. PhaseInv'
  BY DEF PhaseInv
<1>4. RowInv'
  BY DEF RowInv, InTransaction, SameRow
<1>5. PendingInv'
  <2> SUFFICES ASSUME NEW p \in Requests, InTransaction(p)'
               PROVE  /\ req[p].kind = "rate" => req[p].who \notin ratings'
                      /\ req[p].kind = "recommend" => req[p].who \notin recommendations'
                      /\ req[p].kind = "withdraw" => req[p].who \in recommendations'
    BY DEF PendingInv, InTransaction
  <2>1. p # q /\ req'[p] = req[p] /\ InTransaction(p) /\ InTransaction(q)
    BY DEF InTransaction
  <2>2. ~SameRow(p, q)
    BY <2>1 DEF RowInv
  <2>. QED BY <2>1, <2>2 DEF SameRow, PendingInv
<1>6. CountInv'
  <2>1. \A p \in Requests : ~At(p, "written")'
    BY <1>1 DEF LockInv
  <2>. QED BY <2>1 DEF CountInv
<1>. QED BY <1>2, <1>3, <1>4, <1>5, <1>6
\* Every step keeps it: a transaction that has written holds the row lock.
LEMMA CountStep ==
  ASSUME ReputationAssumption, IInv, [Next]_vars
  PROVE  IInv'
<1> USE DEF At
<1>1. TypeOK /\ TypeOK'
  BY TypeStep DEF IInv
<1>2. ASSUME NEW q \in Requests, NEW kind \in Kinds, NEW u \in Users,
             NEW y \in Tenures \cup {None}, Arrive(q, kind, u, y)
      PROVE  IInv'
  <2>1. rowLock # q
    BY <1>2 DEF Arrive, IInv, LockInv
  <2>. QED BY <1>1, <1>2, <2>1, ArriveMoves, OutsideStep DEF Arrive
<1>3. ASSUME NEW q \in Requests, Serve(q) PROVE IInv'
  <2> USE DEF Phases, Outcomes
  <2>1. CASE InsertRating(q) \/ InsertRecommendation(q) \/ DeleteRecommendation(q)
    <3>1. Moves(q, "changed")
      BY <1>1, <2>1, GotoMoves DEF InsertRating, InsertRecommendation, DeleteRecommendation
    <3>. QED BY <1>1, <2>1, <3>1, EnterStep
             DEF InsertRating, InsertRecommendation, DeleteRecommendation
  <2>2. CASE RejectRating(q) \/ RejectRecommendation(q) \/ RejectWithdrawal(q)
    <3>1. Moves(q, "done")
      BY <1>1, <2>2, FinishMoves DEF RejectRating, RejectRecommendation, RejectWithdrawal
    <3>2. rowLock # q
      BY <2>2 DEF RejectRating, RejectRecommendation, RejectWithdrawal, IInv, LockInv
    <3>. QED BY <1>1, <2>2, <3>1, <3>2, OutsideStep
             DEF Moves, RejectRating, RejectRecommendation, RejectWithdrawal
  <2>3. CASE SnapshotRatings(q)
    BY <1>1, <2>3, SnapshotMoves, InsideStep DEF SnapshotRatings, InTransaction
  <2>4. CASE WriteAggregates(q)
    <3>1. Moves(q, "written") /\ req[q].kind = "rate"
      BY <1>1, <2>4, GotoMoves DEF WriteAggregates, IInv, PhaseInv
    <3>. QED BY <1>1, <2>4, <3>1, InsideStep DEF WriteAggregates, InTransaction
  <2>5. CASE WriteCount(q)
    <3>1. req[q].kind = "withdraw" => profile.recs > 0
      <4>1. IsFiniteSet(recommendations) /\ profile.recs \in Nat
        BY <1>1, FS_Subset DEF TypeOK, Profile, ReputationAssumption
      <4>2. req[q].kind = "withdraw" => recommendations # {}
        BY <2>5 DEF WriteCount, IInv, PendingInv, InTransaction
      <4>. QED BY <4>1, <4>2, FS_EmptySet, FS_CardinalityType DEF IInv, RecommendationCountExact
    <3>2. profile.recs \in Nat
      BY <1>1 DEF TypeOK, Profile
    <3>. QED BY <1>1, <2>5, <3>1, <3>2, CountMoves, InsideStep
             DEF WriteCount, InTransaction, Increment, Decrement
  <2>6. CASE CommitRating(q)
    <3>1. Moves(q, "committed")
      BY <1>1, <2>6, GotoMoves DEF CommitRating
    <3>2. RecommendationCountExact'
      BY <1>1, <2>6 DEF CommitRating, IInv, RecommendationCountExact, TypeOK, Profile
    <3>. QED BY <1>1, <2>6, <3>1, <3>2, CommitStep DEF CommitRating, Unlock
  <2>7. CASE CommitRecommendation(q) \/ CommitWithdrawal(q)
    <3>1. PICK phase \in {"committed", "recompute"} : Moves(q, phase)
      BY <1>1, <2>7, GotoMoves DEF CommitRecommendation, CommitWithdrawal
    <3>2. IsFiniteSet(recommendations)
      BY <1>1, FS_Subset DEF TypeOK, ReputationAssumption
    <3>3. profile'.recs = req[q].count
      BY <1>1, <2>7 DEF CommitRecommendation, CommitWithdrawal, TypeOK, Profile
    <3>4. profile.recs = Cardinality(recommendations) /\ InTransaction(q)
      BY <2>7 DEF CommitRecommendation, CommitWithdrawal, IInv, InTransaction,
                  RecommendationCountExact
    <3>5. ASSUME CommitRecommendation(q) PROVE RecommendationCountExact'
      <4>1. /\ recommendations' = recommendations \cup {req[q].who}
            /\ req[q].who \notin recommendations
            /\ req[q].count = profile.recs + 1
        BY <3>4, <3>5 DEF CommitRecommendation, IInv, CountInv, PendingInv
      <4>. QED BY <3>2, <3>3, <3>4, <4>1, FS_AddElement DEF RecommendationCountExact
    <3>6. ASSUME CommitWithdrawal(q) PROVE RecommendationCountExact'
      <4>1. /\ recommendations' = recommendations \ {req[q].who}
            /\ req[q].who \in recommendations
            /\ req[q].count = profile.recs - 1
        BY <3>4, <3>6 DEF CommitWithdrawal, IInv, CountInv, PendingInv
      <4>2. Cardinality(recommendations \ {req[q].who}) = Cardinality(recommendations) - 1
        BY <3>2, <4>1, FS_RemoveElement
      <4>. QED BY <3>3, <3>4, <4>1, <4>2 DEF RecommendationCountExact
    <3>7. RecommendationCountExact'
      BY <2>7, <3>5, <3>6
    <3>. QED BY <1>1, <2>7, <3>1, <3>7, CommitStep
             DEF CommitRecommendation, CommitWithdrawal, Unlock
  <2>8. CASE Notify(q)
    <3>1. Moves(q, "recompute") /\ rowLock # q
      BY <1>1, <2>8, GotoMoves DEF Notify, IInv, LockInv
    <3>. QED BY <1>1, <2>8, <3>1, OutsideStep DEF Notify, Moves
  <2>9. CASE WriteTenure(q)
    <3>1. Moves(q, "written")
      BY <1>1, <2>9, GotoMoves DEF WriteTenure
    <3>. QED BY <1>1, <2>9, <3>1, InsideStep DEF WriteTenure
  <2>10. CASE CommitTenure(q)
    <3>1. PICK phase \in {"done", "recompute"} : Moves(q, phase)
      BY <1>1, <2>10, GotoMoves, FinishMoves DEF CommitTenure
    <3>2. rowLock = q /\ profile'.recs = profile.recs
      BY <1>1, <2>10 DEF CommitTenure, IInv, LockInv, TypeOK, Profile
    <3>. QED BY <1>1, <2>10, <3>1, <3>2, OutsideStep DEF CommitTenure, Moves, Unlock
  <2>11. CASE ReadStats(q)
    <3>1. Moves(q, "scored") /\ rowLock # q
      BY <1>1, <2>11, ReadMoves DEF ReadStats, IInv, LockInv
    <3>. QED BY <1>1, <2>11, <3>1, OutsideStep DEF ReadStats, Moves
  <2>12. CASE WriteScore(q)
    <3>1. Moves(q, "done") /\ rowLock # q
      BY <1>1, <2>12, FinishMoves DEF WriteScore, IInv, LockInv
    <3>2. profile'.recs = profile.recs
      BY <1>1, <2>12 DEF WriteScore, TypeOK, Profile
    <3>. QED BY <1>1, <2>12, <3>1, <3>2, OutsideStep DEF WriteScore, Moves
  <2>. QED BY <1>3, <2>1, <2>2, <2>3, <2>4, <2>5, <2>6, <2>7, <2>8, <2>9,
              <2>10, <2>11, <2>12 DEF Serve
<1>4. ASSUME NEW q \in Requests, Fail(q) PROVE IInv'
  <2>1. Moves(q, "done")
    BY <1>1, <1>4, FinishMoves DEF Fail, Outcomes
  <2>. QED BY <1>1, <1>4, <2>1, OutsideStep DEF Fail, Moves, Unlock
<1>5. CASE UNCHANGED vars
  BY <1>5 DEF vars, IInv, TypeOK, LockInv, PhaseInv, RowInv, PendingInv, CountInv,
              InTransaction, SameRow, RecommendationCountExact
<1>. QED BY <1>2, <1>3, <1>4, <1>5 DEF Next

\* recommendation_count always equals the number of recommendation rows.
THEOREM CountIsExact == Spec => []RecommendationCountExact
<1>1. Init => IInv
  BY CountInit, ReputationAssumption
<1>2. IInv /\ [Next]_vars => IInv'
  BY CountStep, ReputationAssumption
<1>3. IInv => RecommendationCountExact
  BY DEF IInv
<1>. QED BY <1>1, <1>2, <1>3, PTL DEF Spec
-----------------------------------------------------------------------------
(* Refinement: the table and its counter are a counted set.                *)

\* The commit of a recommendation or a withdrawal is a step of the ledger, and every
\* other step leaves it alone.
LEMMA LedgerStep ==
  ASSUME ReputationAssumption, IInv, [Next]_vars
  PROVE  [Ledger!Next]_<<recommendations, profile.recs>>
<1>1. TypeOK
  BY DEF IInv
<1>2. ASSUME NEW q \in Requests, CommitRecommendation(q) PROVE Ledger!Next
  <2>1. /\ req[q].who \in Users /\ req[q].who \notin recommendations
        /\ req[q].count = profile.recs + 1
    BY <1>1, <1>2 DEF CommitRecommendation, IInv, CountInv, PendingInv, InTransaction,
                      At, TypeOK, Request
  <2>2. profile'.recs = req[q].count
    BY <1>1, <1>2 DEF CommitRecommendation, TypeOK, Profile
  <2>3. Ledger!Add(req[q].who)
    BY <1>2, <2>1, <2>2 DEF CommitRecommendation, Ledger!Add
  <2>. QED BY <2>1, <2>3 DEF Ledger!Next
<1>3. ASSUME NEW q \in Requests, CommitWithdrawal(q) PROVE Ledger!Next
  <2>1. /\ req[q].who \in Users /\ req[q].who \in recommendations
        /\ req[q].count = profile.recs - 1
    BY <1>1, <1>3 DEF CommitWithdrawal, IInv, CountInv, PendingInv, InTransaction,
                      At, TypeOK, Request
  <2>2. profile'.recs = req[q].count
    BY <1>1, <1>3 DEF CommitWithdrawal, TypeOK, Profile
  <2>3. Ledger!Remove(req[q].who)
    BY <1>3, <2>1, <2>2 DEF CommitWithdrawal, Ledger!Remove
  <2>. QED BY <2>1, <2>3 DEF Ledger!Next
<1>4. ASSUME NEW q \in Requests, Serve(q),
             ~CommitRecommendation(q), ~CommitWithdrawal(q)
      PROVE  UNCHANGED <<recommendations, profile.recs>>
  <2>1. CASE CommitRating(q) \/ CommitTenure(q) \/ WriteScore(q)
    BY <1>1, <2>1 DEF CommitRating, CommitTenure, WriteScore, TypeOK, Profile
  <2>2. CASE UNCHANGED <<recommendations, profile>>
    BY <2>2
  <2>. QED BY <1>4, <2>1, <2>2
        DEF Serve, InsertRating, RejectRating, SnapshotRatings, WriteAggregates,
            InsertRecommendation, RejectRecommendation, DeleteRecommendation,
            RejectWithdrawal, WriteCount, Notify, WriteTenure, ReadStats
<1>5. ASSUME NEW q \in Requests, NEW kind \in Kinds, NEW u \in Users,
             NEW y \in Tenures \cup {None}, Arrive(q, kind, u, y) \/ Fail(q)
      PROVE  UNCHANGED <<recommendations, profile.recs>>
  BY <1>5 DEF Arrive, Fail
<1>6. CASE UNCHANGED vars
  BY <1>6 DEF vars
<1>. QED BY <1>2, <1>3, <1>4, <1>5, <1>6 DEF Next, Kinds

\* The recommendations and their counter implement a counted set.
THEOREM LedgerImplemented == Spec => ImplementsCountedSet
<1>1. Init => IInv
  BY CountInit, ReputationAssumption
<1>2. Init => Ledger!Init
  BY DEF Init, Ledger!Init, RegisteredProfile
<1>3. IInv /\ [Next]_vars => IInv' /\ [Ledger!Next]_<<recommendations, profile.recs>>
  BY CountStep, LedgerStep, ReputationAssumption
<1>. QED BY <1>1, <1>2, <1>3, PTL DEF Spec, ImplementsCountedSet, Ledger!Spec

-----------------------------------------------------------------------------
(* Ratings: what the aggregates count, and what is notified.               *)

\* q has committed a rating: it is past its commit, or notified of it.
HasRated(q) == /\ req[q].kind = "rate"
               /\ q \in inbox \/ req[q].pc \in {"committed", "recompute", "scored"}

\* Everything a request or the profile remembers of the ratings is committed,
\* apart from the own row of an open transaction.
SeenInv ==
    /\ NoPhantomRating
    /\ \A q \in Requests : req[q].stats # None => req[q].stats.seen \subseteq ratings
    /\ \A q \in Requests : req[q].snap \subseteq
         IF InTransaction(q) /\ req[q].kind = "rate" THEN ratings \cup {req[q].who} ELSE ratings

\* A committed rating has one request behind it.
RaterInv ==
    /\ \A q \in Requests : q \in inbox => req[q].pc \in {"recompute", "scored", "done"}
    /\ \A q \in Requests : HasRated(q) => req[q].who \in ratings
    /\ \A p, q \in Requests : HasRated(p) /\ HasRated(q) /\ req[p].who = req[q].who => p = q

RatingInv == SeenInv /\ RaterInv
\* Steps that commit no rating: nothing new is remembered but what is already
\* committed, or the request's own uncommitted row.
LEMMA SeenStep ==
  ASSUME IInv, TypeOK', SeenInv, NEW q \in Requests,
         \A p \in Requests \ {q} : req'[p] = req[p],
         UNCHANGED ratings, profile'.seen = profile.seen,
         profile'.score = profile.score \/ profile'.score = req[q].stats,
         \/ req'[q].stats = req[q].stats \/ req'[q].stats = None
         \/ req'[q].stats.seen = profile.seen,
         \/ req'[q].snap \subseteq ratings
         \/ /\ req'[q].kind = req[q].kind /\ req'[q].who = req[q].who
            /\ InTransaction(q) => InTransaction(q)' \/ req[q].kind # "rate"
            /\ \/ req'[q].snap = req[q].snap
               \/ /\ req'[q].snap = ratings \cup {req[q].who}
                  /\ InTransaction(q)' /\ req[q].kind = "rate"
  PROVE  SeenInv'
<1> USE DEF SeenInv
<1>1. NoPhantomRating'
  BY DEF NoPhantomRating
<1>2. \A p \in Requests : req'[p].stats # None => req'[p].stats.seen \subseteq ratings'
  BY DEF NoPhantomRating
<1>3. \A p \in Requests : p # q => (InTransaction(p) <=> InTransaction(p)')
  BY DEF InTransaction
<1>4. \A p \in Requests : req'[p].snap \subseteq
        IF InTransaction(p)' /\ req'[p].kind = "rate" THEN ratings' \cup {req'[p].who} ELSE ratings'
  BY <1>3
<1>. QED BY <1>1, <1>2, <1>4 DEF InTransaction

\* Who has rated has a committed rating of its own, and only such requests are in the
\* inbox, if the request that moves sees to it.
LEMMA RaterStep ==
  ASSUME IInv, TypeOK', RaterInv, NEW q \in Requests,
         \A p \in Requests \ {q} : req'[p] = req[p],
         UNCHANGED ratings,
         \A p \in Requests \ {q} : p \in inbox' => p \in inbox,
         q \in inbox' => req'[q].pc \in {"recompute", "scored", "done"},
         req'[q].kind = "rate" /\ (q \in inbox' \/ req'[q].pc \in {"committed", "recompute", "scored"})
           => HasRated(q) /\ req'[q].who = req[q].who
  PROVE  RaterInv'
<1> USE DEF RaterInv
<1>1. \A p \in Requests : p \in inbox' => req'[p].pc \in {"recompute", "scored", "done"}
  OBVIOUS
<1>2. \A p \in Requests : HasRated(p)' => HasRated(p) /\ req'[p].who = req[p].who
  BY DEF HasRated
<1>. QED BY <1>1, <1>2

\* Every step keeps the invariant of the ratings.
LEMMA RatingStep ==
  ASSUME ReputationAssumption, IInv, RatingInv, [Next]_vars
  PROVE  RatingInv'
<1> USE DEF At
<1>1. TypeOK /\ TypeOK'
  BY TypeStep DEF IInv
<1>2. SeenInv /\ RaterInv
  BY DEF RatingInv
<1>3. ASSUME NEW q \in Requests, NEW kind \in Kinds, NEW u \in Users,
             NEW y \in Tenures \cup {None}, Arrive(q, kind, u, y)
      PROVE  RatingInv'
  <2>1. req'[q].snap \subseteq ratings
    BY <1>1, <1>2, <1>3, ArriveMoves DEF Arrive, SeenInv, InTransaction
  <2>2. SeenInv'
    BY <1>1, <1>2, <1>3, <2>1, ArriveMoves, SeenStep DEF Arrive
  <2>3. q \notin inbox /\ UNCHANGED <<ratings, inbox>>
    BY <1>2, <1>3 DEF Arrive, RaterInv
  <2>4. req'[q].pc = "arrived" /\ \A p \in Requests \ {q} : req'[p] = req[p]
    BY <1>1, <1>3, ArriveMoves
  <2>5. RaterInv'
    BY <1>1, <1>2, <2>3, <2>4, RaterStep
  <2>. QED BY <2>2, <2>5 DEF RatingInv
<1>4. ASSUME NEW q \in Requests, Serve(q) PROVE RatingInv'
  <2> USE DEF Phases, Outcomes
  <2>1. CASE \/ InsertRating(q) \/ InsertRecommendation(q) \/ DeleteRecommendation(q)
             \/ WriteAggregates(q) \/ WriteTenure(q)
    <3>1. PICK phase \in {"changed", "written"} :
             /\ Moves(q, phase) /\ req'[q].snap = req[q].snap
             /\ req'[q].stats = req[q].stats
      BY <1>1, <2>1, GotoMoves DEF InsertRating, InsertRecommendation,
                  DeleteRecommendation, WriteAggregates, WriteTenure
    <3>2. UNCHANGED <<ratings, profile, inbox>> /\ q \notin inbox
      BY <1>2, <2>1 DEF RaterInv, InsertRating, InsertRecommendation,
                  DeleteRecommendation, WriteAggregates, WriteTenure
    <3>3. SeenInv'
      BY <1>1, <1>2, <3>1, <3>2, SeenStep DEF Moves, InTransaction
    <3>4. RaterInv'
      BY <1>1, <1>2, <3>1, <3>2, RaterStep DEF Moves
    <3>. QED BY <3>3, <3>4 DEF RatingInv
  <2>2. CASE RejectRating(q) \/ RejectRecommendation(q) \/ RejectWithdrawal(q)
    <3>1. Moves(q, "done") /\ req'[q].snap = {} /\ req'[q].stats = None
      BY <1>1, <2>2, FinishMoves DEF RejectRating, RejectRecommendation, RejectWithdrawal
    <3>2. UNCHANGED <<ratings, profile, inbox>> /\ q \notin inbox
      BY <1>2, <2>2 DEF RaterInv, RejectRating, RejectRecommendation, RejectWithdrawal
    <3>3. SeenInv'
      BY <1>1, <1>2, <3>1, <3>2, SeenStep DEF Moves
    <3>4. RaterInv'
      BY <1>1, <1>2, <3>1, <3>2, RaterStep DEF Moves
    <3>. QED BY <3>3, <3>4 DEF RatingInv
  <2>3. CASE SnapshotRatings(q)
    <3>1. /\ UNCHANGED <<ratings, profile, inbox>> /\ q \notin inbox
          /\ req[q].kind = "rate"
      BY <1>2, <2>3 DEF RaterInv, SnapshotRatings
    <3>2. SeenInv'
      BY <1>1, <1>2, <2>3, <3>1, SnapshotMoves, SeenStep DEF Moves, InTransaction
    <3>3. RaterInv'
      BY <1>1, <1>2, <2>3, <3>1, SnapshotMoves, RaterStep DEF Moves
    <3>. QED BY <3>2, <3>3 DEF RatingInv
  <2>4. CASE WriteCount(q)
    <3>1. UNCHANGED <<ratings, profile, inbox>> /\ q \notin inbox
      BY <1>2, <2>4 DEF RaterInv, WriteCount
    <3>2. SeenInv'
      BY <1>1, <1>2, <2>4, <3>1, CountMoves, SeenStep DEF Moves, InTransaction
    <3>3. RaterInv'
      BY <1>1, <1>2, <2>4, <3>1, CountMoves, RaterStep DEF Moves
    <3>. QED BY <3>2, <3>3 DEF RatingInv
  <2>5. CASE CommitRating(q)
    <3>1. /\ Moves(q, "committed") /\ req'[q].snap = req[q].snap
          /\ req'[q].stats = req[q].stats
      BY <1>1, <2>5, GotoMoves DEF CommitRating
    <3>2. /\ InTransaction(q) /\ req[q].kind = "rate" /\ inbox' = inbox
          /\ ratings' = ratings \cup {req[q].who} /\ q \notin inbox
          /\ req[q].who \notin ratings
      BY <1>2, <2>5 DEF CommitRating, InTransaction, RaterInv, IInv, PendingInv
    <3>3. profile'.seen = req[q].snap /\ profile'.score = profile.score
      BY <1>1, <2>5 DEF CommitRating, TypeOK, Profile
    <3>4. SeenInv'
      BY <1>2, <3>1, <3>2, <3>3 DEF SeenInv, NoPhantomRating, Moves, InTransaction
    <3>5. \A p \in Requests : p # q => (HasRated(p)' <=> HasRated(p)) /\ req'[p] = req[p]
      BY <3>1, <3>2 DEF HasRated, Moves
    <3>6. \A p \in Requests : HasRated(p) => req[p].who # req[q].who
      BY <1>2, <3>2 DEF RaterInv
    <3>7. RaterInv'
      BY <1>2, <3>1, <3>2, <3>5, <3>6 DEF RaterInv, Moves
    <3>. QED BY <3>4, <3>7 DEF RatingInv
  <2>6. CASE CommitRecommendation(q) \/ CommitWithdrawal(q)
    <3>1. PICK phase \in {"committed", "recompute"} :
             /\ Moves(q, phase) /\ req'[q].snap = req[q].snap
             /\ req'[q].stats = req[q].stats
      BY <1>1, <2>6, GotoMoves DEF CommitRecommendation, CommitWithdrawal
    <3>2. UNCHANGED <<ratings, inbox>> /\ req[q].kind # "rate" /\ q \notin inbox
      BY <1>2, <2>6 DEF CommitRecommendation, CommitWithdrawal, RaterInv
    <3>3. profile'.seen = profile.seen /\ profile'.score = profile.score
      BY <1>1, <2>6 DEF CommitRecommendation, CommitWithdrawal, TypeOK, Profile
    <3>4. SeenInv'
      BY <1>1, <1>2, <3>1, <3>2, <3>3, SeenStep DEF Moves
    <3>5. RaterInv'
      BY <1>1, <1>2, <3>1, <3>2, RaterStep DEF Moves
    <3>. QED BY <3>4, <3>5 DEF RatingInv
  <2>7. CASE Notify(q)
    <3>1. /\ Moves(q, "recompute") /\ req'[q].snap = req[q].snap
          /\ req'[q].stats = req[q].stats
      BY <1>1, <2>7, GotoMoves DEF Notify
    <3>2. SeenInv'
      BY <1>1, <1>2, <2>7, <3>1, SeenStep DEF Moves, Notify, InTransaction
    <3>3. RaterInv'
      BY <1>1, <1>2, <2>7, <3>1, RaterStep DEF Moves, Notify, HasRated
    <3>. QED BY <3>2, <3>3 DEF RatingInv
  <2>8. CASE CommitTenure(q)
    <3>1. PICK phase \in {"done", "recompute"} :
             /\ Moves(q, phase) /\ req'[q].snap \in {req[q].snap, {}}
             /\ req'[q].stats \in {req[q].stats, None}
      BY <1>1, <2>8, GotoMoves, FinishMoves DEF CommitTenure
    <3>2. UNCHANGED <<ratings, inbox>> /\ req[q].kind # "rate" /\ q \notin inbox
      BY <1>2, <2>8 DEF CommitTenure, RaterInv
    <3>3. profile'.seen = profile.seen /\ profile'.score = profile.score
      BY <1>1, <2>8 DEF CommitTenure, TypeOK, Profile
    <3>4. SeenInv'
      BY <1>1, <1>2, <3>1, <3>2, <3>3, SeenStep DEF Moves
    <3>5. RaterInv'
      BY <1>1, <1>2, <3>1, <3>2, RaterStep DEF Moves
    <3>. QED BY <3>4, <3>5 DEF RatingInv
  <2>9. CASE ReadStats(q)
    <3>1. req'[q].stats.seen = profile.seen
      BY <1>1, <2>9, ReadMoves DEF Stats
    <3>2. SeenInv'
      BY <1>1, <1>2, <2>9, <3>1, ReadMoves, SeenStep DEF Moves, ReadStats, InTransaction
    <3>3. RaterInv'
      BY <1>1, <1>2, <2>9, ReadMoves, RaterStep DEF Moves, ReadStats, HasRated
    <3>. QED BY <3>2, <3>3 DEF RatingInv
  <2>10. CASE WriteScore(q)
    <3>1. Moves(q, "done") /\ req'[q].snap = {} /\ req'[q].stats = None
      BY <1>1, <2>10, FinishMoves DEF WriteScore
    <3>2. /\ profile'.seen = profile.seen
          /\ profile'.score = profile.score \/ profile'.score = req[q].stats
      BY <1>1, <2>10 DEF WriteScore, TypeOK, Profile
    <3>3. SeenInv'
      BY <1>1, <1>2, <2>10, <3>1, <3>2, SeenStep DEF Moves, WriteScore
    <3>4. RaterInv'
      BY <1>1, <1>2, <2>10, <3>1, RaterStep DEF Moves, WriteScore, HasRated
    <3>. QED BY <3>3, <3>4 DEF RatingInv
  <2>. QED BY <1>4, <2>1, <2>2, <2>3, <2>4, <2>5, <2>6, <2>7, <2>8, <2>9, <2>10 DEF Serve
<1>5. ASSUME NEW q \in Requests, Fail(q) PROVE RatingInv'
  <2>1. Moves(q, "done") /\ req'[q].snap = {} /\ req'[q].stats = None
    BY <1>1, <1>5, FinishMoves DEF Fail, Outcomes
  <2>2. SeenInv'
    BY <1>1, <1>2, <1>5, <2>1, SeenStep DEF Moves, Fail
  <2>3. RaterInv'
    BY <1>1, <1>2, <1>5, <2>1, RaterStep DEF Moves, Fail, HasRated
  <2>. QED BY <2>2, <2>3 DEF RatingInv
<1>6. CASE UNCHANGED vars
  BY <1>6, <1>2 DEF vars, RatingInv, SeenInv, RaterInv, NoPhantomRating, HasRated, InTransaction
<1>. QED BY <1>3, <1>4, <1>5, <1>6 DEF Next

\* It holds before the first request.
LEMMA RatingInit == ASSUME ReputationAssumption, Init PROVE RatingInv
  BY DEF Init, NewRequest, RegisteredProfile, RatingInv, SeenInv, RaterInv,
         NoPhantomRating, HasRated, InTransaction

\* It holds throughout, with that of the count.
LEMMA RatingAlways == Spec => [](IInv /\ RatingInv)
<1>1. Init => IInv /\ RatingInv
  BY CountInit, RatingInit, ReputationAssumption
<1>2. IInv /\ RatingInv /\ [Next]_vars => (IInv /\ RatingInv)'
  BY CountStep, RatingStep, ReputationAssumption
<1>. QED BY <1>1, <1>2, PTL DEF Spec

\* Neither the aggregates nor the score counts a rating that is not committed.
THEOREM PhantomsAreExcluded == Spec => []NoPhantomRating
<1>1. IInv /\ RatingInv => NoPhantomRating
  BY DEF RatingInv, SeenInv
<1>. QED BY <1>1, RatingAlways, PTL

\* A resident's rating is notified at most once, and only if it is committed.
THEOREM NoticesAreUnique == Spec => []OneNoticePerRating
<1>1. IInv /\ RatingInv => OneNoticePerRating
  BY DEF RatingInv, RaterInv, OneNoticePerRating, HasRated, IInv, TypeOK
<1>. QED BY <1>1, RatingAlways, PTL

-----------------------------------------------------------------------------
(* The aggregates, as long as no two ratings overlap.                      *)

\* A rating's transaction is open while no other rating's is.
RatingsApart ==
    \A p, q \in Requests :
        /\ InTransaction(p) /\ req[p].kind = "rate"
        /\ InTransaction(q) /\ req[q].kind = "rate"
        => p = q

\* What the subqueries of a rating saw is all there is, and its own row.
SnapInv ==
    \A q \in Requests : req[q].kind = "rate" /\ req[q].pc \in {"snapped", "written"}
        => req[q].snap = ratings \cup {req[q].who}

\* A step that commits no rating: who has seen all still has, and who takes its
\* snapshot now sees all.
LEMMA SnapAside ==
  ASSUME TypeOK, AggregatesExact, SnapInv, NEW q \in Requests,
         \A p \in Requests \ {q} : req'[p] = req[p],
         UNCHANGED ratings, profile'.seen = profile.seen,
         \/ req'[q].pc \notin {"snapped", "written"}
         \/ req'[q].kind # "rate"
         \/ req'[q].snap = ratings \cup {req'[q].who}
  PROVE  (AggregatesExact /\ SnapInv)'
<1>1. ASSUME NEW p \in Requests, req'[p].kind = "rate", req'[p].pc \in {"snapped", "written"}
      PROVE  req'[p].snap = ratings \cup {req'[p].who}
  BY <1>1 DEF SnapInv
<1>. QED BY <1>1 DEF AggregatesExact, SnapInv

\* The commit of a rating makes its snapshot the aggregates: it is the set of
\* ratings from then on, and nobody else has a snapshot to commit.
LEMMA SnapCommit ==
  ASSUME TypeOK, AggregatesExact, SnapInv, RatingsApart, NEW q \in Requests, CommitRating(q)
  PROVE  (AggregatesExact /\ SnapInv)'
<1>1. Moves(q, "committed")
  BY GotoMoves DEF CommitRating, Phases
<1>2. req[q].snap = ratings \cup {req[q].who} /\ ratings' = ratings \cup {req[q].who}
  BY DEF CommitRating, SnapInv, At
<1>3. profile'.seen = req[q].snap
  BY DEF CommitRating, TypeOK, Profile
<1>4. \A p \in Requests \ {q} : ~(req[p].kind = "rate" /\ req[p].pc \in {"snapped", "written"})
  BY DEF CommitRating, RatingsApart, InTransaction, At
<1>. QED BY <1>1, <1>2, <1>3, <1>4 DEF AggregatesExact, SnapInv, Moves

\* Of the other steps only SnapshotRatings gives a rating its snapshot, and only
\* WriteAggregates and CommitRating go on with it.
LEMMA SnapStep ==
  ASSUME ReputationAssumption, IInv, AggregatesExact, SnapInv, RatingsApart, [Next]_vars
  PROVE  (AggregatesExact /\ SnapInv)'
<1> USE DEF At
<1>1. TypeOK /\ PhaseInv
  BY DEF IInv
<1>2. ASSUME NEW q \in Requests, NEW kind \in Kinds, NEW u \in Users,
             NEW y \in Tenures \cup {None}, Arrive(q, kind, u, y)
      PROVE  (AggregatesExact /\ SnapInv)'
  BY <1>1, <1>2, ArriveMoves, SnapAside DEF Arrive
<1>3. ASSUME NEW q \in Requests, Serve(q)
      PROVE  (AggregatesExact /\ SnapInv)'
  <2> USE DEF Phases, Outcomes
  <2>1. CASE InsertRating(q) \/ InsertRecommendation(q) \/ DeleteRecommendation(q) \/ Notify(q)
    <3>1. PICK phase \in {"changed", "recompute"} : Moves(q, phase)
      BY <1>1, <2>1, GotoMoves DEF InsertRating, InsertRecommendation, DeleteRecommendation, Notify
    <3>2. UNCHANGED <<ratings, profile>>
      BY <2>1 DEF InsertRating, InsertRecommendation, DeleteRecommendation, Notify
    <3>. QED BY <1>1, <3>1, <3>2, SnapAside DEF Moves
  <2>2. CASE RejectRating(q) \/ RejectRecommendation(q) \/ RejectWithdrawal(q)
    <3>1. Moves(q, "done") /\ UNCHANGED <<ratings, profile>>
      BY <1>1, <2>2, FinishMoves DEF RejectRating, RejectRecommendation, RejectWithdrawal
    <3>. QED BY <1>1, <3>1, SnapAside DEF Moves
  <2>3. CASE SnapshotRatings(q)
    <3>1. Moves(q, "snapped") /\ req'[q].snap = ratings \cup {req[q].who}
      BY <1>1, <2>3, SnapshotMoves
    <3>. QED BY <1>1, <2>3, <3>1, SnapAside DEF Moves, SnapshotRatings
  <2>4. CASE WriteAggregates(q)
    <3>1. Moves(q, "written") /\ req'[q].snap = req[q].snap
      BY <1>1, <2>4, GotoMoves DEF WriteAggregates
    <3>2. req[q].snap = ratings \cup {req[q].who}
      BY <1>1, <2>4 DEF WriteAggregates, PhaseInv, SnapInv
    <3>. QED BY <1>1, <2>4, <3>1, <3>2, SnapAside DEF Moves, WriteAggregates
  <2>5. CASE WriteCount(q) \/ WriteTenure(q)
    <3>1. Moves(q, "written") /\ req[q].kind # "rate" /\ UNCHANGED <<ratings, profile>>
      BY <1>1, <2>5, CountMoves, GotoMoves DEF WriteCount, WriteTenure
    <3>. QED BY <1>1, <3>1, SnapAside DEF Moves
  <2>6. CASE CommitRecommendation(q) \/ CommitWithdrawal(q) \/ CommitTenure(q)
    <3>1. PICK phase \in {"committed", "recompute", "done"} : Moves(q, phase)
      BY <1>1, <2>6, GotoMoves, FinishMoves DEF CommitRecommendation, CommitWithdrawal, CommitTenure
    <3>2. profile'.seen = profile.seen /\ UNCHANGED ratings
      BY <1>1, <2>6 DEF CommitRecommendation, CommitWithdrawal, CommitTenure, TypeOK, Profile
    <3>. QED BY <1>1, <3>1, <3>2, SnapAside DEF Moves
  <2>7. CASE ReadStats(q)
    BY <1>1, <2>7, ReadMoves, SnapAside DEF Moves, ReadStats
  <2>8. CASE WriteScore(q)
    <3>1. Moves(q, "done") /\ UNCHANGED ratings
      BY <1>1, <2>8, FinishMoves DEF WriteScore
    <3>2. profile'.seen = profile.seen
      BY <1>1, <2>8 DEF WriteScore, TypeOK, Profile
    <3>. QED BY <1>1, <3>1, <3>2, SnapAside DEF Moves
  <2>9. CASE CommitRating(q)
    BY <1>1, <2>9, SnapCommit
  <2>. QED BY <1>3, <2>1, <2>2, <2>3, <2>4, <2>5, <2>6, <2>7, <2>8, <2>9 DEF Serve
<1>4. ASSUME NEW q \in Requests, Fail(q)
      PROVE  (AggregatesExact /\ SnapInv)'
  <2>1. Moves(q, "done") /\ UNCHANGED <<ratings, profile>>
    BY <1>1, <1>4, FinishMoves DEF Fail, Outcomes
  <2>. QED BY <1>1, <2>1, SnapAside DEF Moves
<1>5. CASE UNCHANGED vars
  BY <1>5 DEF vars, AggregatesExact, SnapInv
<1>. QED BY <1>2, <1>3, <1>4, <1>5 DEF Next

\* At the start there is no rating and nobody rates.
LEMMA SnapInit == ASSUME Init PROVE AggregatesExact /\ SnapInv
  BY DEF Init, NewRequest, RegisteredProfile, AggregatesExact, SnapInv

\* In a run in which the transactions of no two ratings overlap, whatever else
\* overlaps and whatever fails, avg_rating and total_clients are those of all
\* committed ratings (service/rating.go:64-76).
THEOREM AggregatesFollow == Spec /\ []RatingsApart => []AggregatesExact
<1>1. Init => AggregatesExact /\ SnapInv
  BY SnapInit
<1>2. IInv /\ AggregatesExact /\ SnapInv /\ RatingsApart /\ [Next]_vars => (AggregatesExact /\ SnapInv)'
  BY SnapStep, ReputationAssumption
<1>. QED BY <1>1, <1>2, RatingAlways, PTL DEF Spec

-----------------------------------------------------------------------------
(* The score, as long as nobody commits while it is calculated.            *)

\* No recompute is between its two statements while a transaction that has
\* written the row is about to commit.  Transactions may overlap each other, and
\* recomputes each other.
RecomputesApart == \A p, q \in Requests : At(p, "scored") => ~At(q, "written")

\* A score is about to be written from the row as it is.
FreshInv == \A q \in Requests : At(q, "scored") => req[q].stats = Stats(profile)

\* Only a commit changes the columns that RecomputeScore reads.
LEMMA StatsStay ==
  ASSUME TypeOK, NEW q \in Requests, Serve(q) \/ Fail(q)
  PROVE  At(q, "written") \/ Stats(profile)' = Stats(profile)
<1>1. CASE CommitRating(q) \/ CommitRecommendation(q) \/ CommitWithdrawal(q) \/ CommitTenure(q)
  BY <1>1 DEF CommitRating, CommitRecommendation, CommitWithdrawal, CommitTenure
<1>2. CASE WriteScore(q)
  <2>1. UNCHANGED profile \/ profile' = [profile EXCEPT !.score = req[q].stats]
    BY <1>2 DEF WriteScore
  <2>2. /\ profile'.seen = profile.seen /\ profile'.years = profile.years
        /\ profile'.recs = profile.recs
    BY <2>1 DEF TypeOK, Profile
  <2>. QED BY <2>2 DEF Stats
<1>3. CASE \/ InsertRating(q) \/ RejectRating(q) \/ SnapshotRatings(q) \/ WriteAggregates(q)
           \/ InsertRecommendation(q) \/ RejectRecommendation(q) \/ DeleteRecommendation(q)
           \/ RejectWithdrawal(q) \/ WriteCount(q) \/ Notify(q) \/ WriteTenure(q)
           \/ ReadStats(q) \/ Fail(q)
  <2>1. UNCHANGED profile
    BY <1>3 DEF InsertRating, RejectRating, SnapshotRatings, WriteAggregates,
                InsertRecommendation, RejectRecommendation, DeleteRecommendation,
                RejectWithdrawal, WriteCount, Notify, WriteTenure, ReadStats, Fail
  <2>. QED BY <2>1 DEF Stats
<1>. QED BY <1>1, <1>2, <1>3 DEF Serve

\* So what a recompute has read stays so until it writes: nobody commits in
\* between, and the score that others write is not read.
LEMMA FreshStep ==
  ASSUME ReputationAssumption, TypeOK, RecomputesApart, FreshInv, [Next]_vars
  PROVE  FreshInv'
<1>1. ASSUME NEW q \in Requests,
             \A p \in Requests \ {q} : req'[p] = req[p],
             At(q, "written") \/ Stats(profile)' = Stats(profile),
             req'[q].pc = "scored" => req'[q].stats = Stats(profile)'
      PROVE  FreshInv'
  BY <1>1 DEF FreshInv, RecomputesApart, At
<1>2. ASSUME NEW q \in Requests, NEW kind \in Kinds, NEW u \in Users,
             NEW y \in Tenures \cup {None}, Arrive(q, kind, u, y)
      PROVE  FreshInv'
  <2>1. /\ req'[q].pc = "arrived" /\ UNCHANGED profile
        /\ \A p \in Requests \ {q} : req'[p] = req[p]
    BY <1>2, ArriveMoves DEF Arrive
  <2>. QED BY <2>1 DEF FreshInv, At, Stats
<1>3. ASSUME NEW q \in Requests, ReadStats(q)
      PROVE  FreshInv'
  <2>1. Moves(q, "scored") /\ req'[q].stats = Stats(profile) /\ UNCHANGED profile
    BY <1>3, ReadMoves DEF ReadStats
  <2>2. Stats(profile)' = Stats(profile)
    BY <2>1 DEF Stats
  <2>. QED BY <1>1, <2>1, <2>2 DEF Moves
<1>4. ASSUME NEW q \in Requests, Serve(q) \/ Fail(q), ~ReadStats(q)
      PROVE  FreshInv'
  <2>1. At(q, "written") \/ Stats(profile)' = Stats(profile)
    BY <1>4, StatsStay
  <2>2. PICK phase \in Phases \ {"scored"} : Moves(q, phase)
    <3>1. CASE SnapshotRatings(q)
      BY <3>1, SnapshotMoves DEF Phases
    <3>2. CASE WriteCount(q)
      BY <3>2, CountMoves DEF Phases
    <3>3. CASE \/ RejectRating(q) \/ RejectRecommendation(q) \/ RejectWithdrawal(q)
               \/ WriteScore(q) \/ Fail(q)
      <4>1. \E outcome \in Outcomes : Finish(q, outcome)
        BY <3>3 DEF RejectRating, RejectRecommendation, RejectWithdrawal, WriteScore, Fail, Outcomes
      <4>. QED BY <4>1, FinishMoves DEF Phases
    <3>4. CASE CommitTenure(q)
      BY <3>4, GotoMoves, FinishMoves DEF CommitTenure, Phases, Outcomes
    <3>5. CASE \/ InsertRating(q) \/ WriteAggregates(q) \/ CommitRating(q)
               \/ InsertRecommendation(q) \/ DeleteRecommendation(q)
               \/ CommitRecommendation(q) \/ CommitWithdrawal(q) \/ Notify(q) \/ WriteTenure(q)
      <4>1. PICK phase \in Phases \ {"scored"} : Goto(q, phase)
        BY <3>5 DEF InsertRating, WriteAggregates, CommitRating, InsertRecommendation,
                    DeleteRecommendation, CommitRecommendation, CommitWithdrawal, Notify,
                    WriteTenure, Phases
      <4>. QED BY <4>1, GotoMoves
    <3>. QED BY <1>4, <3>1, <3>2, <3>3, <3>4, <3>5 DEF Serve
  <2>. QED BY <1>1, <2>1, <2>2 DEF Moves
<1>5. CASE UNCHANGED vars
  BY <1>5 DEF vars, FreshInv, At, Stats
<1>. QED BY <1>2, <1>3, <1>4, <1>5 DEF Next

\* No score is being calculated at the start.
LEMMA FreshInit == ASSUME Init PROVE FreshInv
  BY DEF Init, NewRequest, FreshInv, At

\* Only WriteScore ends with success what recomputes the score.
LEMMA SuccessOfScore ==
  ASSUME ReputationAssumption, TypeOK, [Next]_vars, NEW q \in Requests, Succeeds(q), Recomputes(q)
  PROVE  WriteScore(q) /\ req'[q].outcome = "ok"
<1>1. req[q].pc # "done" /\ req'[q].pc = "done" /\ req'[q].outcome = "ok" /\ req'[q] # req[q]
  BY DEF Succeeds, InProgress
<1>2. ASSUME NEW p \in Requests, NEW kind \in Kinds, NEW u \in Users,
             NEW y \in Tenures \cup {None}, Arrive(p, kind, u, y)
      PROVE  FALSE
  BY <1>1, <1>2, ArriveMoves
<1>3. ASSUME NEW p \in Requests, Serve(p) \/ Fail(p)
      PROVE  p = q
  <2>1. \E r : req' = [req EXCEPT ![p] = r]
    BY <1>3 DEF Serve, Fail, Goto, Finish, InsertRating, RejectRating, SnapshotRatings,
                WriteAggregates, CommitRating, InsertRecommendation, RejectRecommendation,
                DeleteRecommendation, RejectWithdrawal, WriteCount, CommitRecommendation,
                CommitWithdrawal, Notify, WriteTenure, CommitTenure, ReadStats, WriteScore
  <2>. QED BY <1>1, <2>1 DEF TypeOK
<1>4. ASSUME NEW outcome, Finish(q, outcome) PROVE req'[q].outcome = outcome
  BY <1>4 DEF Finish, TypeOK, Request
<1>5. ~Fail(q) /\ ~RejectRating(q) /\ ~RejectRecommendation(q) /\ ~RejectWithdrawal(q)
  BY <1>1, <1>4 DEF Fail, RejectRating, RejectRecommendation, RejectWithdrawal
<1>6. ~SnapshotRatings(q) /\ ~WriteCount(q) /\ ~ReadStats(q)
  BY <1>1, SnapshotMoves, CountMoves, ReadMoves DEF Moves
<1>7. ~(\E phase \in Phases \ {"done"} : Goto(q, phase))
  BY <1>1, GotoMoves DEF Moves
<1>8. /\ ~InsertRating(q) /\ ~WriteAggregates(q) /\ ~CommitRating(q) /\ ~InsertRecommendation(q)
      /\ ~DeleteRecommendation(q) /\ ~CommitRecommendation(q) /\ ~CommitWithdrawal(q)
      /\ ~Notify(q) /\ ~WriteTenure(q)
  BY <1>7 DEF InsertRating, WriteAggregates, CommitRating, InsertRecommendation,
              DeleteRecommendation, CommitRecommendation, CommitWithdrawal, Notify,
              WriteTenure, Phases
<1>9. ~CommitTenure(q)
  BY <1>7 DEF CommitTenure, Recomputes, Phases
<1>10. UNCHANGED vars => FALSE
  BY <1>1 DEF vars
<1>11. Serve(q)
  BY <1>2, <1>3, <1>5, <1>10 DEF Next
<1>. QED BY <1>1, <1>5, <1>6, <1>8, <1>9, <1>11 DEF Serve

\* In a run in which nobody commits between the two statements of a recompute,
\* whatever else overlaps and whatever fails, every request that recomputes and
\* answers without an error leaves the score of the row as it is, even after
\* others failed between their commit and their recompute
\* (service/provider.go:656-673).
THEOREM FreshScores == Spec /\ []RecomputesApart => SuccessLeavesFreshScore
<1>1. Init => FreshInv
  BY FreshInit
<1>2. IInv /\ FreshInv /\ RecomputesApart /\ [Next]_vars => FreshInv'
  BY FreshStep, ReputationAssumption DEF IInv
<1>3. IInv /\ FreshInv /\ [Next]_vars
        => [\A q \in Requests : Succeeds(q) /\ Recomputes(q) => profile'.score = Stats(profile')]_vars
  <2> SUFFICES ASSUME IInv, FreshInv, [Next]_vars,
                      NEW q \in Requests, Succeeds(q), Recomputes(q)
               PROVE  profile'.score = Stats(profile')
    OBVIOUS
  <2>1. TypeOK
    BY DEF IInv
  <2>2. WriteScore(q) /\ req'[q].outcome = "ok"
    BY <2>1, SuccessOfScore, ReputationAssumption
  <2>3. profile' = [profile EXCEPT !.score = req[q].stats]
    BY <2>1, <2>2 DEF WriteScore, Finish, TypeOK, Request
  <2>4. req[q].stats = Stats(profile)
    BY <2>2 DEF WriteScore, FreshInv
  <2>. QED BY <2>1, <2>3, <2>4 DEF Stats, TypeOK, Profile
<1>. QED BY <1>1, <1>2, <1>3, RatingAlways, PTL DEF Spec, SuccessLeavesFreshScore

-----------------------------------------------------------------------------
(* Nobody waits for ever.                                                  *)

\* The guards of the steps of q: it waits for nobody, or for a key that is free,
\* or for the row of the provider, which nobody holds.
Ready(q) ==
    \/ req[q].pc \in {"written", "committed", "recompute"}
    \/ At(q, "changed") /\ req[q].kind = "rate"
    \/ At(q, "arrived") /\ req[q].kind # "tenure" /\ ~RowBusy(q)
    \/ /\ rowLock = None
       /\ \/ At(q, "snapped") \/ At(q, "scored")
          \/ At(q, "arrived") /\ req[q].kind = "tenure"
          \/ At(q, "changed") /\ req[q].kind # "rate"

\* Whoever holds the row is about to commit; while nobody does, every open
\* transaction goes on; and while there is none, no key is taken.  So some
\* request can always go on, and there is no circle of requests that wait for
\* one another, of any number of them.
THEOREM SomebodyIsReady ==
  Spec => []((\E q \in Requests : InProgress(q)) => \E q \in Requests : Ready(q))
<1>1. ASSUME IInv, NEW q \in Requests, InProgress(q)
      PROVE  \E p \in Requests : Ready(p)
  <2>1. rowLock \in Requests \cup {None} /\ LockInv
        /\ req[q].pc \in Phases \ {"new", "done"}
    BY <1>1 DEF IInv, TypeOK, Request, InProgress
  <2>2. CASE rowLock # None
    BY <2>1, <2>2 DEF LockInv, Ready, At
  <2>3. ASSUME rowLock = None, NEW p \in Requests, InTransaction(p)
        PROVE  Ready(p)
    BY <2>3 DEF InTransaction, Ready, At
  <2>4. CASE rowLock = None /\ ~(\E p \in Requests : InTransaction(p))
    <3>1. ~InTransaction(q) /\ ~RowBusy(q)
      BY <2>4 DEF RowBusy
    <3>2. req[q].pc \in {"arrived", "committed", "recompute", "scored"}
      BY <2>1, <3>1 DEF InTransaction, Phases
    <3>3. Ready(q)
      BY <2>4, <3>1, <3>2 DEF Ready, At
    <3>. QED BY <3>3
  <2>. QED BY <2>2, <2>3, <2>4
<1>2. IInv => ((\E q \in Requests : InProgress(q)) => \E q \in Requests : Ready(q))
  BY <1>1
<1>. QED BY <1>2, RatingAlways, PTL
=============================================================================
