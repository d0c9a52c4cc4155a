----------------------------- MODULE Reputation -----------------------------
(***************************************************************************)
(* The reputation of one provider: the rows of ratings and recommendations *)
(* about it, the counters derived from them in its provider_profiles row,  *)
(* and the Score Aldeia derived from the counters.                         *)
(*                                                                         *)
(* Four HTTP requests write this state, each as a PostgreSQL transaction   *)
(* (READ COMMITTED) followed, outside of it, by a recomputation of the     *)
(* score that reads the row with one statement and writes it with another: *)
(*                                                                         *)
(*   rate       POST   /providers/:id/ratings          RatingService.Create*)
(*   recommend  POST   /providers/:id/recommendations  RecommendationService*)
(*   withdraw   DELETE /providers/:id/recommendations   .Create and .Delete*)
(*   tenure     PUT    /providers/me                   ProviderService     *)
(*                                                      .UpdateMe          *)
(*                                                                         *)
(* Requests run concurrently and may fail between any two statements.      *)
(* Everything is per provider (the unique keys, the row, the recompute),   *)
(* so one provider is the general case.                                    *)
(*                                                                         *)
(* Data abstraction.  A resident rates a provider at most once, so the     *)
(* mark it would give is a constant (Mark) and a rating is its rater.      *)
(* avg_rating and total_clients are both aggregates of the rating rows     *)
(* that the UPDATE's subqueries saw: the model keeps that set ("seen") and *)
(* derives both from it.  Likewise score_aldeia is kept as the statistics  *)
(* it was calculated from.                                                 *)
(***************************************************************************)
EXTENDS ScoreAldeia

CONSTANTS
    Users,        \* the accounts of the community, Provider among them
    Provider,     \* the account the profile belongs to
    Mark,         \* Mark[u]: the sum of the four criteria u gives
    Requests,     \* identities of requests, each served once
    Tenures,      \* the values of years_in_neighborhood clients send
    MaxInFlight,  \* bound on requests in progress at the same time
    Failures,     \* whether a request may fail half way
    None          \* no value: SQL NULL, JSON null, no holder

ASSUME ReputationAssumption ==
    /\ IsFiniteSet(Users)
    /\ Provider \in Users
    /\ Mark \in [Users -> 4 .. 20]
    /\ Tenures \subseteq Int
    /\ MaxInFlight \in Nat
    /\ Failures \in BOOLEAN
    /\ None \notin Users \cup Requests \cup Int

VARIABLES
    ratings,          \* raters with a committed row in ratings
    recommendations,  \* recommenders with a committed row in recommendations
    profile,          \* the committed provider_profiles row
    rowLock,          \* the request whose transaction has updated that row
    req,              \* what each request is doing
    inbox             \* requests whose notification row was inserted

vars == <<ratings, recommendations, profile, rowLock, req, inbox>>

-----------------------------------------------------------------------------
(* State.                                                                  *)

Kinds == {"rate", "recommend", "withdraw", "tenure"}

\* The columns RecomputeScore reads.
Basis == [seen : SUBSET Users, years : Int, recs : Nat]

\* score = None: the column still has its default 0, never calculated.
Profile == [seen : SUBSET Users, years : Int, recs : Nat, score : Basis \cup {None}]

\* new -> arrived -> changed -> (snapped) -> written -> committed -> recompute
\* -> scored -> done; see the actions.
Phases == {"new", "arrived", "changed", "snapped", "written",
           "committed", "recompute", "scored", "done"}

Outcomes == {"none", "ok", "rejected", "error"}

Request == [kind    : Kinds,
            who     : Users,                \* rater or recommender
            years   : Tenures \cup {None},  \* the body of PUT /providers/me
            pc      : Phases,
            snap    : SUBSET Users,         \* ratings the subqueries see
            count   : Nat,                  \* recommendation_count to commit
            stats   : Basis \cup {None},      \* what RecomputeScore read
            outcome : Outcomes]

NewRequest == [kind |-> "tenure", who |-> Provider, years |-> None, pc |-> "new",
               snap |-> {}, count |-> 0, stats |-> None, outcome |-> "none"]

TypeOK ==
    /\ ratings \subseteq Users
    /\ recommendations \subseteq Users
    /\ profile \in Profile
    /\ rowLock \in Requests \cup {None}
    /\ req \in [Requests -> Request]
    /\ inbox \subseteq Requests

-----------------------------------------------------------------------------
(* Control state of a request.                                             *)

At(q, phase) == req[q].pc = phase
InProgress(q) == req[q].pc \notin {"new", "done"}

\* A transaction is open from its first write to its commit or rollback.
InTransaction(q) == req[q].pc \in {"changed", "snapped", "written"}

\* Requests for the same key of the same table; both recommendation requests
\* work on the row (provider, who) of recommendations.
SameRow(p, q) ==
    /\ req[p].who = req[q].who
    /\ \/ req[p].kind = "rate" /\ req[q].kind = "rate"
       \/ /\ req[p].kind \in {"recommend", "withdraw"}
          /\ req[q].kind \in {"recommend", "withdraw"}

\* PostgreSQL makes an INSERT wait for the transaction that inserted or
\* deleted the same unique key, and a DELETE for the one that deleted the row.
RowBusy(q) == \E p \in Requests \ {q} : InTransaction(p) /\ SameRow(p, q)

\* The columns RecomputeScore reads, as committed.
Stats(p) == [seen |-> p.seen, years |-> p.years, recs |-> p.recs]

Goto(q, phase) == req' = [req EXCEPT ![q].pc = phase]

Finish(q, outcome) ==
    req' = [req EXCEPT ![q] = [@ EXCEPT !.pc = "done", !.outcome = outcome,
                                        !.snap = {}, !.count = 0, !.stats = None]]

Unlock == rowLock' = None

-----------------------------------------------------------------------------
(* Initial state: the profile as RegisterPrestador inserts it.  It writes  *)
(* the tenure and leaves every counter and the score at their defaults.    *)

RegisteredProfile(y) == [seen |-> {}, years |-> y, recs |-> 0, score |-> None]

Init ==
    /\ ratings = {} /\ recommendations = {}
    /\ \E y \in Tenures : profile = RegisteredProfile(y)
    /\ rowLock = None
    /\ req = [q \in Requests |-> NewRequest]
    /\ inbox = {}

-----------------------------------------------------------------------------
(* Variants with a defect, for the sensitivity of the properties.          *)

\* The unique key of ratings is not there.
InsertRatingUnchecked(q) ==
    /\ At(q, "arrived") /\ req[q].kind = "rate"
    /\ req[q].who # Provider
    /\ Goto(q, "changed")
    /\ UNCHANGED <<ratings, recommendations, profile, rowLock, inbox>>

\* The subqueries read rows of other open transactions.
SnapshotRatingsDirty(q) ==
    /\ At(q, "changed") /\ req[q].kind = "rate"
    /\ req' = [req EXCEPT ![q] = [@ EXCEPT !.pc = "snapped",
                 !.snap = ratings \cup {req[p].who : p \in {r \in Requests :
                                          InTransaction(r) /\ req[r].kind = "rate"}}]]
    /\ UNCHANGED <<ratings, recommendations, profile, rowLock, inbox>>

\* The aggregates are computed outside the transaction that inserts the row.
SnapshotRatingsOutside(q) ==
    /\ At(q, "changed") /\ req[q].kind = "rate"
    /\ req' = [req EXCEPT ![q] = [@ EXCEPT !.pc = "snapped", !.snap = ratings]]
    /\ UNCHANGED <<ratings, recommendations, profile, rowLock, inbox>>

\* RowsAffected() is not looked at.
DeleteRecommendationUnchecked(q) ==
    /\ At(q, "arrived") /\ req[q].kind = "withdraw"
    /\ ~RowBusy(q)
    /\ Goto(q, "changed")
    /\ UNCHANGED <<ratings, recommendations, profile, rowLock, inbox>>

\* The count is read before the row is locked, and written back.
WriteCountUnlocked(q) ==
    /\ At(q, "changed") /\ req[q].kind \in {"recommend", "withdraw"}
    /\ rowLock' = q
    /\ req' = [req EXCEPT ![q] = [@ EXCEPT !.pc = "written",
                   !.count = IF req[q].kind = "recommend" THEN profile.recs + 1
                                                          ELSE profile.recs - 1]]
    /\ UNCHANGED <<ratings, recommendations, profile, inbox>>

\* PUT /providers/me as it was before it recomputed the score.
CommitTenureOnly(q) ==
    /\ At(q, "written") /\ req[q].kind = "tenure"
    /\ Finish(q, "ok")
    /\ profile' = [profile EXCEPT !.years = IF req[q].years = None THEN @ ELSE req[q].years]
    /\ Unlock
    /\ UNCHANGED <<ratings, recommendations, inbox>>

\* No deferred rollback.
FailWithoutRollback(q) ==
    /\ Failures /\ InProgress(q)
    /\ Finish(q, "error")
    /\ UNCHANGED <<ratings, recommendations, profile, rowLock, inbox>>

-----------------------------------------------------------------------------
(* Arrival: the handler has parsed the body and called the service.        *)

Arrive(q, kind, u, y) ==
    /\ At(q, "new")
    /\ Cardinality({p \in Requests : InProgress(p)}) < MaxInFlight
    /\ kind # "tenure" => y = None
    /\ kind = "tenure" => u = Provider
    /\ req' = [req EXCEPT ![q] = [@ EXCEPT !.pc = "arrived", !.kind = kind,
                                           !.who = u, !.years = y]]
    /\ UNCHANGED <<ratings, recommendations, profile, rowLock, inbox>>

(* RatingService.Create.                                                   *)

\* INSERT INTO ratings: the row is there, but only this transaction sees it.
InsertRating(q) ==
    /\ At(q, "arrived") /\ req[q].kind = "rate"
    /\ req[q].who # Provider
    /\ ~RowBusy(q) /\ req[q].who \notin ratings
    /\ Goto(q, "changed")
    /\ UNCHANGED <<ratings, recommendations, profile, rowLock, inbox>>

\* ErrCannotRateSelf, or the unique key: ErrAlreadyRated.
RejectRating(q) ==
    /\ At(q, "arrived") /\ req[q].kind = "rate"
    /\ \/ req[q].who = Provider
       \/ ~RowBusy(q) /\ req[q].who \in ratings
    /\ Finish(q, "rejected")
    /\ UNCHANGED <<ratings, recommendations, profile, rowLock, inbox>>

\* UPDATE provider_profiles starts: its two subqueries see the rows committed
\* so far and the transaction's own.  Then the statement waits for the row; it
\* does not look at ratings again when it gets it.
SnapshotRatings(q) ==
    /\ At(q, "changed") /\ req[q].kind = "rate"
    /\ req' = [req EXCEPT ![q] = [@ EXCEPT !.pc = "snapped",
                                           !.snap = ratings \cup {req[q].who}]]
    /\ UNCHANGED <<ratings, recommendations, profile, rowLock, inbox>>

WriteAggregates(q) ==
    /\ At(q, "snapped") /\ rowLock = None
    /\ rowLock' = q
    /\ Goto(q, "written")
    /\ UNCHANGED <<ratings, recommendations, profile, inbox>>

CommitRating(q) ==
    /\ At(q, "written") /\ req[q].kind = "rate"
    /\ ratings' = ratings \cup {req[q].who}
    /\ profile' = [profile EXCEPT !.seen = req[q].snap]
    /\ Unlock
    /\ Goto(q, "committed")
    /\ UNCHANGED <<recommendations, inbox>>

(* RecommendationService.Create and .Delete.                               *)

InsertRecommendation(q) ==
    /\ At(q, "arrived") /\ req[q].kind = "recommend"
    /\ ~RowBusy(q) /\ req[q].who \notin recommendations
    /\ Goto(q, "changed")
    /\ UNCHANGED <<ratings, recommendations, profile, rowLock, inbox>>

\* The unique key: ErrAlreadyRecommended.
RejectRecommendation(q) ==
    /\ At(q, "arrived") /\ req[q].kind = "recommend"
    /\ ~RowBusy(q) /\ req[q].who \in recommendations
    /\ Finish(q, "rejected")
    /\ UNCHANGED <<ratings, recommendations, profile, rowLock, inbox>>

DeleteRecommendation(q) ==
    /\ At(q, "arrived") /\ req[q].kind = "withdraw"
    /\ ~RowBusy(q) /\ req[q].who \in recommendations
    /\ Goto(q, "changed")
    /\ UNCHANGED <<ratings, recommendations, profile, rowLock, inbox>>

\* RowsAffected() = 0: ErrRecommendationNotFound.  A row another transaction
\* has inserted and not committed is not seen, and not waited for.
RejectWithdrawal(q) ==
    /\ At(q, "arrived") /\ req[q].kind = "withdraw"
    /\ req[q].who \notin recommendations
    /\ Finish(q, "rejected")
    /\ UNCHANGED <<ratings, recommendations, profile, rowLock, inbox>>

Increment(n) == n + 1
Decrement(n) == IF n > 0 THEN n - 1 ELSE 0      \* GREATEST(n - 1, 0)

\* UPDATE provider_profiles SET recommendation_count = f(recommendation_count):
\* evaluated on the row as it is once the lock is held.
WriteCount(q) ==
    /\ At(q, "changed") /\ req[q].kind \in {"recommend", "withdraw"}
    /\ rowLock = None
    /\ rowLock' = q
    /\ req' = [req EXCEPT ![q] = [@ EXCEPT !.pc = "written",
                   !.count = IF req[q].kind = "recommend" THEN Increment(profile.recs)
                                                          ELSE Decrement(profile.recs)]]
    /\ UNCHANGED <<ratings, recommendations, profile, inbox>>

CommitRecommendation(q) ==
    /\ At(q, "written") /\ req[q].kind = "recommend"
    /\ recommendations' = recommendations \cup {req[q].who}
    /\ profile' = [profile EXCEPT !.recs = req[q].count]
    /\ Unlock
    /\ Goto(q, "committed")
    /\ UNCHANGED <<ratings, inbox>>

\* A withdrawal is not notified: it goes straight to the recompute.
CommitWithdrawal(q) ==
    /\ At(q, "written") /\ req[q].kind = "withdraw"
    /\ recommendations' = recommendations \ {req[q].who}
    /\ profile' = [profile EXCEPT !.recs = req[q].count]
    /\ Unlock
    /\ Goto(q, "recompute")
    /\ UNCHANGED <<ratings, inbox>>

\* NotificationService.Create after the commit; its error is discarded.
Notify(q) ==
    /\ At(q, "committed")
    /\ \/ inbox' = inbox \cup {q}
       \/ Failures /\ UNCHANGED inbox
    /\ Goto(q, "recompute")
    /\ UNCHANGED <<ratings, recommendations, profile, rowLock>>

(* ProviderService.UpdateMe.  Its other columns, and the categories it     *)
(* replaces under the same row lock, feed no counter.                      *)

WriteTenure(q) ==
    /\ At(q, "arrived") /\ req[q].kind = "tenure"
    /\ rowLock = None
    /\ rowLock' = q
    /\ Goto(q, "written")
    /\ UNCHANGED <<ratings, recommendations, profile, inbox>>

\* COALESCE keeps the tenure, and nothing is recomputed, if the body has none.
CommitTenure(q) ==
    /\ At(q, "written") /\ req[q].kind = "tenure"
    /\ IF req[q].years = None
       THEN /\ Finish(q, "ok")
            /\ UNCHANGED profile
       ELSE /\ Goto(q, "recompute")
            /\ profile' = [profile EXCEPT !.years = req[q].years]
    /\ Unlock
    /\ UNCHANGED <<ratings, recommendations, inbox>>

(* ProviderService.RecomputeScore: two statements, no transaction.         *)

ReadStats(q) ==
    /\ At(q, "recompute")
    /\ req' = [req EXCEPT ![q] = [@ EXCEPT !.pc = "scored", !.stats = Stats(profile)]]
    /\ UNCHANGED <<ratings, recommendations, profile, rowLock, inbox>>

Points(b) == CalculateScore([avg |-> AvgRating(Mark, b.seen), years |-> b.years,
                             clients |-> TotalClients(b.seen), recs |-> b.recs])

WriteScore(q) ==
    /\ At(q, "scored") /\ rowLock = None
    /\ IF Storable(Points(req[q].stats))
       THEN /\ profile' = [profile EXCEPT !.score = req[q].stats]
            /\ Finish(q, "ok")
       ELSE /\ Finish(q, "error")
            /\ UNCHANGED profile
    /\ UNCHANGED <<ratings, recommendations, rowLock, inbox>>

(* A statement fails, the client goes away (its context is cancelled) or   *)
(* the process dies: an open transaction rolls back, a committed one stays *)
(* committed and what was to follow it never happens.                      *)
Fail(q) ==
    /\ Failures /\ InProgress(q)
    /\ IF rowLock = q THEN Unlock ELSE UNCHANGED rowLock
    /\ Finish(q, "error")
    /\ UNCHANGED <<ratings, recommendations, profile, inbox>>

-----------------------------------------------------------------------------
Serve(q) ==
    \/ InsertRating(q) \/ RejectRating(q) \/ SnapshotRatings(q)
    \/ WriteAggregates(q) \/ CommitRating(q)
    \/ InsertRecommendation(q) \/ RejectRecommendation(q)
    \/ DeleteRecommendation(q) \/ RejectWithdrawal(q)
    \/ WriteCount(q) \/ CommitRecommendation(q) \/ CommitWithdrawal(q)
    \/ Notify(q) \/ WriteTenure(q) \/ CommitTenure(q)
    \/ ReadStats(q) \/ WriteScore(q)

Next ==
    \E q \in Requests :
        \/ \E kind \in Kinds, u \in Users, y \in Tenures \cup {None} : Arrive(q, kind, u, y)
        \/ Serve(q)
        \/ Fail(q)

Spec == Init /\ [][Next]_vars

-----------------------------------------------------------------------------
(* Properties.                                                             *)

\* recommendation_count is the number of recommendation rows, in every
\* committed state: increments and decrements of concurrent requests, of
\* different recommenders and of the same one, never lose one another, and
\* GREATEST(.., 0) never hides a count that would go below zero.
RecommendationCountExact == profile.recs = Cardinality(recommendations)

\* Neither the aggregates nor the score ever counted a rating that was rolled
\* back, whatever fails: only rows that are committed by then contribute.
NoPhantomRating ==
    /\ profile.seen \subseteq ratings
    /\ profile.score # None => profile.score.seen \subseteq ratings

\* The provider is notified at most once of a resident's rating, and only of
\* one that stays: a retry after a late failure is rejected by the unique key.
OneNoticePerRating ==
    \A q \in inbox : req[q].kind = "rate" =>
        /\ req[q].who \in ratings
        /\ \A p \in inbox : req[p].kind = "rate" /\ req[p].who = req[q].who => p = q

\* avg_rating and total_clients are the aggregates of all committed ratings
\* (domain/score.go:16-17).  Holds as long as the transactions of no two
\* ratings overlap.
AggregatesExact == profile.seen = ratings

\* A request that recomputes and answers without an error leaves the score
\* calculated from the row as it then is, even if earlier requests failed
\* between their commit and their recompute.  Holds as long as nobody commits
\* between the two statements of a recompute.
Recomputes(q) == req[q].kind # "tenure" \/ req[q].years # None
Succeeds(q) == InProgress(q) /\ req'[q].pc = "done" /\ req'[q].outcome = "ok"
SuccessLeavesFreshScore ==
    [][\A q \in Requests : Succeeds(q) /\ Recomputes(q) => profile'.score = Stats(profile')]_vars

\* The recommendations and their counter are a counted set: every step of the
\* program adds one member and one to the count, removes one and subtracts
\* one, or changes neither.
Ledger == INSTANCE CountedSet WITH Elements <- Users, members <- recommendations,
                                   count <- profile.recs
ImplementsCountedSet == Ledger!Spec

\* As long as a request is in progress some request can go on: none waits for
\* the provider's row, or for another request on its own row, for ever.  A
\* request has finitely many steps, so all of them are answered.
NobodyIsStuck ==
    (\E q \in Requests : InProgress(q)) => \E q \in Requests : ENABLED Serve(q)
=============================================================================
