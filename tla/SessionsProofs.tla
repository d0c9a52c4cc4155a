--------------------------- MODULE SessionsProofs ---------------------------
(***************************************************************************)
(* Safety of Sessions for every number of requests: what holds whatever    *)
(* overlaps, and for what does not, the one overlap that breaks it.        *)
(***************************************************************************)
EXTENDS Sessions, FiniteSetTheorems, TLAPS

-----------------------------------------------------------------------------
(* The inductive invariant.                                                *)

\* The request between its first UPDATE of the account and its commit is the
\* one the open deletion belongs to: there is at most one.
Holder == \A q \in Requests : At(q, "marked") \/ At(q, "swept") => deletion.by = q

\* While a deletion is open the account is not deleted: everything that writes
\* the users row waits for it.
StillThere == deletion.by # None => account.deletedBy = None

IInv == TypeOK /\ Holder /\ StillThere

-----------------------------------------------------------------------------
(* How the control state changes: a request moves alone.                   *)

Moves(q, phase) ==
    /\ req' \in [Requests -> Request]
    /\ \A p \in Requests \ {q} : req'[p] = req[p]
    /\ req'[q].pc = phase
    /\ req'[q].kind = req[q].kind /\ req'[q].token = req[q].token
    /\ req'[q].login = req[q].login

\* A request that goes on is otherwise as it was.
LEMMA GotoMoves ==
  ASSUME TypeOK, NEW q \in Requests, NEW phase \in Phases, Goto(q, phase)
  PROVE  Moves(q, phase) /\ req'[q].outcome = req[q].outcome
<1> DEFINE r == [req[q] EXCEPT !.pc = phase]
<1>1. r \in Request /\ r.pc = phase /\ r.kind = req[q].kind /\ r.token = req[q].token
      /\ r.login = req[q].login /\ r.outcome = req[q].outcome
  BY DEF TypeOK, Request
<1>2. req' = [req EXCEPT ![q] = r]
  BY DEF Goto
<1> HIDE DEF r
<1>. QED BY <1>1, <1>2 DEF TypeOK, Moves

\* A request that is answered is otherwise as it was.
LEMMA FinishMoves ==
  ASSUME TypeOK, NEW q \in Requests, NEW outcome \in Outcomes, Finish(q, outcome)
  PROVE  Moves(q, "done") /\ req'[q].outcome = outcome
<1> DEFINE r == [req[q] EXCEPT !.pc = "done", !.outcome = outcome]
<1>1. r \in Request /\ r.pc = "done" /\ r.kind = req[q].kind /\ r.token = req[q].token
      /\ r.login = req[q].login /\ r.outcome = outcome
  BY DEF TypeOK, Request, Phases
<1>2. req' = [req EXCEPT ![q] = r]
  BY DEF Finish
<1> HIDE DEF r
<1>. QED BY <1>1, <1>2 DEF TypeOK, Moves

\* A reactivation that may go on remembers the status it read.
LEMMA ReadOwnDeletionMoves ==
  ASSUME TypeOK, NEW q \in Requests, ReadOwnDeletion(q), account.deletedBy = "owner"
  PROVE  Moves(q, "checked") /\ req'[q].outcome = req[q].outcome
<1> DEFINE s == account.status
           r == [req[q] EXCEPT !.pc = "checked", !.status = s]
<1>1. s \in Statuses
  BY DEF TypeOK, Account
<1>2. req' = [req EXCEPT ![q] = r]
  BY DEF ReadOwnDeletion
<1> HIDE DEF s
<1>3. r \in Request /\ r.pc = "checked" /\ r.kind = req[q].kind /\ r.token = req[q].token
      /\ r.login = req[q].login /\ r.outcome = req[q].outcome
  BY <1>1 DEF TypeOK, Request, Phases
<1> HIDE DEF r
<1>. QED BY <1>2, <1>3 DEF TypeOK, Moves

\* A request that arrives belongs to the login of the token it presents.
LEMMA ArriveMoves ==
  ASSUME TypeOK, NEW q \in Requests, NEW kind \in Kinds, NEW t \in Requests \cup {None},
         NEW status \in Statuses, Arrive(q, kind, t, status)
  PROVE  /\ req' \in [Requests -> Request]
         /\ \A p \in Requests \ {q} : req'[p] = req[p]
         /\ req'[q].pc = "arrived" /\ req'[q].kind = kind /\ req'[q].token = t
         /\ req'[q].login = (IF t = None THEN q ELSE req[t].login)
         /\ req'[q].outcome = "none"
<1> DEFINE l == IF t = None THEN q ELSE req[t].login
           r == [kind |-> kind, token |-> t, status |-> status, pc |-> "arrived",
                 outcome |-> "none", login |-> l]
<1>1. l \in Requests \cup {None}
  BY DEF TypeOK, Request
<1>2. req' = [req EXCEPT ![q] = r]
  BY DEF Arrive
<1> HIDE DEF l
<1>3. r \in Request /\ r.pc = "arrived" /\ r.kind = kind /\ r.token = t
      /\ r.login = l /\ r.outcome = "none"
  BY <1>1 DEF Request, Phases, Outcomes
<1> HIDE DEF r
<1>4. /\ req' \in [Requests -> Request]
      /\ \A p \in Requests \ {q} : req'[p] = req[p]
      /\ req'[q] = r
  BY <1>2, <1>3 DEF TypeOK
<1>. QED BY <1>3, <1>4 DEF l

\* What is revoked cannot be exchanged any more.
LEMMA RevokeTypes ==
  ASSUME TypeOK, NEW S, Revoke(S)
  PROVE  /\ tokens' \in [Requests -> {"none", "live", "revoked"}]
         /\ Live' = Live \ S
  BY DEF TypeOK, Revoke, Live

-----------------------------------------------------------------------------
(* The invariant is inductive.                                             *)

\* A step of a request that has no deletion open, or leaves its own alone.
LEMMA OtherStep ==
  ASSUME IInv, NEW q \in Requests, NEW phase \in Phases \ {"marked", "swept"},
         Moves(q, phase), account' \in Account,
         tokens' \in [Requests -> {"none", "live", "revoked"}],
         UNCHANGED deletion, UNCHANGED account \/ AccountFree
  PROVE  IInv'
<1>1. TypeOK'
  BY DEF IInv, TypeOK, Moves
<1>2. Holder'
  BY DEF IInv, Holder, Moves, At
<1>3. StillThere'
  BY DEF IInv, StillThere, AccountFree
<1>. QED BY <1>1, <1>2, <1>3 DEF IInv

\* The same for a request that moves to a phase or ends, in the form the
\* actions have.
LEMMA PlainStep ==
  ASSUME IInv, NEW q \in Requests,
         \/ \E phase \in Phases \ {"marked", "swept"} : Goto(q, phase)
         \/ \E outcome \in Outcomes : Finish(q, outcome),
         account' \in Account,
         tokens' \in [Requests -> {"none", "live", "revoked"}],
         UNCHANGED deletion, UNCHANGED account \/ AccountFree
  PROVE  IInv'
<1>1. TypeOK
  BY DEF IInv
<1>2. CASE \E phase \in Phases \ {"marked", "swept"} : Goto(q, phase)
  <2>1. PICK phase \in Phases \ {"marked", "swept"} : Goto(q, phase)
    BY <1>2
  <2>2. Moves(q, phase)
    BY <1>1, <2>1, GotoMoves
  <2>. QED BY <2>2, OtherStep
<1>3. CASE \E outcome \in Outcomes : Finish(q, outcome)
  <2>1. Moves(q, "done")
    BY <1>1, <1>3, FinishMoves
  <2>2. "done" \in Phases \ {"marked", "swept"}
    BY DEF Phases
  <2>. QED BY <2>1, <2>2, OtherStep
<1>. QED BY <1>2, <1>3

\* A statement of a request keeps the invariant.
LEMMA ServeStep ==
  ASSUME SessionsAssumption, IInv, NEW q \in Requests, Serve(q) PROVE IInv'
<1>1. TypeOK /\ Holder /\ StillThere
  BY DEF IInv
<1>2. account \in Account /\ tokens \in [Requests -> {"none", "live", "revoked"}]
  BY <1>1 DEF TypeOK
<1> USE DEF Phases, Outcomes
<1>3. CASE ReadAccount(q)
  BY <1>2, <1>3, PlainStep DEF ReadAccount
<1>4. CASE InsertToken(q)
  <2>1. tokens' \in [Requests -> {"none", "live", "revoked"}]
    BY <1>2, <1>4 DEF InsertToken
  <2>. QED BY <1>2, <1>4, <2>1, PlainStep DEF InsertToken
<1>5. CASE ReadOwnDeletion(q)
  <2>1. CASE account.deletedBy = "owner"
    BY <1>1, <1>2, <1>5, <2>1, ReadOwnDeletionMoves, OtherStep DEF ReadOwnDeletion
  <2>2. CASE account.deletedBy # "owner"
    BY <1>2, <1>5, <2>2, PlainStep DEF ReadOwnDeletion
  <2>. QED BY <2>1, <2>2
<1>6. CASE Undelete(q)
  <2>1. account' \in Account
    BY <1>2, <1>6 DEF Undelete, Account
  <2>. QED BY <1>2, <1>6, <2>1, PlainStep DEF Undelete
<1>7. CASE ReadToken(q)
  BY <1>2, <1>7, PlainStep DEF ReadToken
<1>8. CASE Rotate(q)
  <2>1. tokens' \in [Requests -> {"none", "live", "revoked"}]
    BY <1>1, <1>8, RevokeTypes DEF Rotate
  <2>. QED BY <1>2, <1>8, <2>1, PlainStep DEF Rotate
<1>9. CASE KillFamily(q)
  <2>1. tokens' \in [Requests -> {"none", "live", "revoked"}]
    BY <1>1, <1>9, RevokeTypes DEF KillFamily
  <2>. QED BY <1>2, <1>9, <2>1, PlainStep DEF KillFamily
<1>10. CASE RevokePresented(q)
  <2>1. tokens' \in [Requests -> {"none", "live", "revoked"}]
    BY <1>1, <1>10, RevokeTypes DEF RevokePresented
  <2>. QED BY <1>2, <1>10, <2>1, PlainStep DEF RevokePresented
<1>11. CASE FindTarget(q)
  BY <1>2, <1>11, PlainStep DEF FindTarget
<1>12. CASE MarkDeleted(q)
  <2>1. CASE account.deletedBy = None
    <3>1. Moves(q, "marked")
      BY <1>1, <1>12, <2>1, GotoMoves DEF MarkDeleted
    <3>2. deletion' = [by |-> q, doomed |-> {}] /\ UNCHANGED <<account, tokens>> /\ AccountFree
      BY <1>12, <2>1 DEF MarkDeleted
    <3>3. TypeOK'
      BY <1>1, <3>1, <3>2 DEF TypeOK, Moves
    <3>4. Holder'
      BY <1>1, <3>1, <3>2, SessionsAssumption DEF Holder, Moves, At, AccountFree
    <3>5. StillThere'
      BY <2>1, <3>2 DEF StillThere
    <3>. QED BY <3>3, <3>4, <3>5 DEF IInv
  <2>2. CASE account.deletedBy # None
    BY <1>2, <1>12, <2>2, PlainStep DEF MarkDeleted
  <2>. QED BY <2>1, <2>2
<1>13. CASE Sweep(q)
  <2>1. Moves(q, "swept")
    BY <1>1, <1>13, GotoMoves DEF Sweep
  <2>2. deletion' = [deletion EXCEPT !.doomed = Live] /\ UNCHANGED <<account, tokens>>
    BY <1>13 DEF Sweep
  <2>3. deletion'.by = deletion.by /\ TypeOK'
    BY <1>1, <2>1, <2>2 DEF TypeOK, Moves, Live
  <2>4. Holder'
    BY <1>1, <1>13, <2>1, <2>3 DEF Holder, Moves, At, Sweep
  <2>5. StillThere'
    BY <1>1, <2>2, <2>3 DEF StillThere
  <2>. QED BY <2>3, <2>4, <2>5 DEF IInv
<1>14. CASE CommitDeletion(q)
  <2>1. Moves(q, "done")
    BY <1>1, <1>14, FinishMoves DEF CommitDeletion
  <2>2. account' \in Account
    BY <1>2, <1>14 DEF CommitDeletion, Account
  <2>3. tokens' \in [Requests -> {"none", "live", "revoked"}]
    BY <1>1, <1>14, RevokeTypes DEF CommitDeletion
  <2>4. deletion' = [by |-> None, doomed |-> {}]
    BY <1>14 DEF CommitDeletion, NoDeletion
  <2>5. TypeOK'
    BY <1>1, <2>1, <2>2, <2>3, <2>4 DEF TypeOK, Moves
  <2>6. Holder'
    BY <1>1, <1>14, <2>1 DEF Holder, Moves, At, CommitDeletion
  <2>7. StillThere'
    BY <2>4 DEF StillThere
  <2>. QED BY <2>5, <2>6, <2>7 DEF IInv
<1>15. CASE WriteStatus(q)
  <2>1. account' \in Account
    BY <1>1, <1>2, <1>15 DEF WriteStatus, Account, TypeOK, Request
  <2>. QED BY <1>2, <1>15, <2>1, PlainStep DEF WriteStatus
<1>. QED
  BY <1>3, <1>4, <1>5, <1>6, <1>7, <1>8, <1>9, <1>10, <1>11, <1>12, <1>13, <1>14, <1>15
  DEF Serve

\* So does a failure: a deletion that is rolled back locks nothing.
LEMMA FailStep ==
  ASSUME SessionsAssumption, IInv, NEW q \in Requests, Fail(q) PROVE IInv'
<1>1. TypeOK /\ Holder /\ StillThere
  BY DEF IInv
<1>2. Moves(q, "done")
  BY <1>1, FinishMoves DEF Fail, Outcomes
<1>3. /\ UNCHANGED <<account, tokens>>
      /\ deletion' = IF deletion.by = q THEN NoDeletion ELSE deletion
  BY DEF Fail
<1>4. TypeOK'
  BY <1>1, <1>2, <1>3 DEF TypeOK, Moves, NoDeletion
<1>5. Holder'
  BY <1>1, <1>2, <1>3 DEF Holder, Moves, At
<1>6. StillThere'
  BY <1>1, <1>3 DEF StillThere, NoDeletion
<1>. QED BY <1>4, <1>5, <1>6 DEF IInv

\* So does every step.
LEMMA NextStep == ASSUME SessionsAssumption, IInv, [Next]_vars PROVE IInv'
<1>1. TypeOK
  BY DEF IInv
<1>2. ASSUME NEW q \in Requests, NEW kind \in Kinds, NEW t \in Requests \cup {None},
             NEW status \in Statuses, Arrive(q, kind, t, status)
      PROVE  IInv'
  <2>1. /\ req' \in [Requests -> Request]
        /\ \A p \in Requests \ {q} : req'[p] = req[p]
        /\ req'[q].pc = "arrived"
    BY <1>1, <1>2, ArriveMoves
  <2>2. UNCHANGED <<account, tokens, deletion>>
    BY <1>2 DEF Arrive
  <2>. QED BY <2>1, <2>2 DEF IInv, TypeOK, Holder, StillThere, At
<1>3. ASSUME NEW q \in Requests, Deny(q) PROVE IInv'
  BY <1>1, <1>3, PlainStep DEF Deny, TypeOK, Outcomes
<1>4. CASE UNCHANGED vars
  BY <1>4 DEF vars, IInv, TypeOK, Holder, StillThere, At
<1>. QED BY <1>2, <1>3, <1>4, ServeStep, FailStep DEF Next

\* It holds before the first request.
LEMMA InitIInv == ASSUME SessionsAssumption, Init PROVE IInv
  BY DEF Init, NewRequest, NoDeletion, IInv, TypeOK, Holder, StillThere, At, Account,
         Request, Kinds, Statuses, Phases, Outcomes

\* It holds throughout.
LEMMA Always == Spec => []IInv
<1>1. Init => IInv
  BY InitIInv, SessionsAssumption
<1>2. IInv /\ [Next]_vars => IInv'
  BY NextStep, SessionsAssumption
<1>. QED BY <1>1, <1>2, PTL DEF Spec

\* Every variable keeps its type, for any number of requests.
THEOREM TypeCorrect == Spec => []TypeOK
<1>1. IInv => TypeOK
  BY DEF IInv
<1>. QED BY <1>1, Always, PTL

\* Whatever overlaps, a deleted account is not deleted again: the deletions of
\* its owner and of an admin never overwrite each other.
THEOREM DeletionsDoNotOverlap == Spec => DeletedOnce
<1> DEFINE Once == account.deletedBy # None => account'.deletedBy \in {None, account.deletedBy}
<1>1. ASSUME IInv, Next PROVE Once
  <2>1. ASSUME NEW q \in Requests, CommitDeletion(q) PROVE account.deletedBy = None
    BY <1>1, <2>1, SessionsAssumption
    DEF IInv, Holder, StillThere, CommitDeletion
  <2>2. ASSUME NEW q \in Requests, WriteStatus(q) PROVE account'.deletedBy = account.deletedBy
    BY <1>1, <2>2 DEF IInv, TypeOK, Account, WriteStatus
  <2>3. ASSUME NEW q \in Requests, Undelete(q) PROVE account'.deletedBy = None
    BY <1>1, <2>3 DEF IInv, TypeOK, Account, Undelete
  <2>4. ASSUME NEW q \in Requests, Serve(q) PROVE Once
    BY <2>1, <2>2, <2>3, <2>4
    DEF Serve, ReadAccount, InsertToken, ReadOwnDeletion, ReadToken, Rotate, KillFamily,
        RevokePresented, FindTarget, MarkDeleted, Sweep
  <2>5. ASSUME NEW q \in Requests, Deny(q) \/ Fail(q) PROVE Once
    BY <2>5 DEF Deny, Fail
  <2>6. ASSUME NEW q \in Requests, NEW kind \in Kinds, NEW t \in Requests \cup {None},
               NEW status \in Statuses, Arrive(q, kind, t, status)
        PROVE  Once
    BY <2>6 DEF Arrive
  <2>. QED BY <1>1, <2>4, <2>5, <2>6 DEF Next
<1>2. IInv /\ [Next]_vars => [Once]_vars
  BY <1>1
<1>. QED BY <1>2, Always, PTL DEF Spec, DeletedOnce

-----------------------------------------------------------------------------
(* Nobody waits for ever.                                                  *)

\* The open deletion is one of a request between its first UPDATE and its
\* commit, and no token row is locked without it.  The three kinds of request
\* that look before they write are the ones that can be found there.
DeletionHeld == deletion.by # None => At(deletion.by, "marked") \/ At(deletion.by, "swept")
NoneDoomed == deletion.by = None => deletion.doomed = {}
CheckedKinds == \A q \in Requests :
    At(q, "checked") => Kind(q) \in {"refresh", "reactivate", "ban"}
LockInv == DeletionHeld /\ NoneDoomed /\ CheckedKinds

\* A step of a request that does not touch the deletion.
LEMMA LockOther ==
  ASSUME TypeOK, LockInv, NEW q \in Requests, NEW phase \in Phases, Moves(q, phase),
         UNCHANGED deletion, ~At(q, "marked"), ~At(q, "swept"),
         phase = "checked" => Kind(q) \in {"refresh", "reactivate", "ban"}
  PROVE  LockInv'
<1>1. DeletionHeld'
  BY DEF LockInv, DeletionHeld, Moves, At, TypeOK
<1>2. NoneDoomed' /\ CheckedKinds'
  BY DEF LockInv, NoneDoomed, CheckedKinds, Moves, At, Kind
<1>. QED BY <1>1, <1>2 DEF LockInv

\* The same, in the form the actions have.
LEMMA LockPlain ==
  ASSUME TypeOK, LockInv, NEW q \in Requests, UNCHANGED deletion,
         ~At(q, "marked"), ~At(q, "swept"),
         \/ \E phase \in Phases \ {"checked"} : Goto(q, phase)
         \/ Kind(q) \in {"refresh", "reactivate", "ban"} /\ Goto(q, "checked")
         \/ \E outcome \in Outcomes : Finish(q, outcome)
  PROVE  LockInv'
<1>1. ASSUME NEW phase \in Phases, Goto(q, phase),
             phase = "checked" => Kind(q) \in {"refresh", "reactivate", "ban"}
      PROVE  LockInv'
  BY <1>1, GotoMoves, LockOther
<1>2. ASSUME NEW outcome \in Outcomes, Finish(q, outcome) PROVE LockInv'
  BY <1>2, FinishMoves, LockOther DEF Phases
<1>3. "checked" \in Phases
  BY DEF Phases
<1>. QED BY <1>1, <1>2, <1>3

\* A statement of a request keeps the invariant of the locks.
LEMMA LockServe ==
  ASSUME SessionsAssumption, IInv, LockInv, NEW q \in Requests, Serve(q) PROVE LockInv'
<1> USE DEF Phases, Outcomes
<1>1. TypeOK /\ Holder
  BY DEF IInv
<1>2. CASE ReadAccount(q) \/ InsertToken(q)
  BY <1>1, <1>2, LockPlain DEF ReadAccount, InsertToken, At
<1>3. CASE ReadOwnDeletion(q)
  <2>1. CASE account.deletedBy = "owner"
    BY <1>1, <1>3, <2>1, ReadOwnDeletionMoves, LockOther DEF ReadOwnDeletion, At
  <2>2. CASE account.deletedBy # "owner"
    BY <1>1, <1>3, <2>2, LockPlain DEF ReadOwnDeletion, At
  <2>. QED BY <2>1, <2>2
<1>4. CASE Undelete(q)
  BY <1>1, <1>4, LockPlain DEF Undelete, At
<1>5. CASE ReadToken(q) \/ Rotate(q)
  BY <1>1, <1>5, LockPlain DEF ReadToken, Rotate, At
<1>6. CASE KillFamily(q) \/ RevokePresented(q)
  BY <1>1, <1>6, LockPlain DEF KillFamily, RevokePresented, At
<1>7. CASE FindTarget(q)
  BY <1>1, <1>7, LockPlain DEF FindTarget, At
<1>8. CASE MarkDeleted(q)
  <2>1. CASE account.deletedBy = None
    <3>1. Moves(q, "marked") /\ deletion' = [by |-> q, doomed |-> {}]
      BY <1>1, <1>8, <2>1, GotoMoves DEF MarkDeleted
    <3>2. DeletionHeld' /\ NoneDoomed'
      BY <3>1 DEF DeletionHeld, NoneDoomed, Moves, At
    <3>3. CheckedKinds'
      BY <3>1 DEF LockInv, CheckedKinds, Moves, At, Kind
    <3>. QED BY <3>2, <3>3 DEF LockInv
  <2>2. CASE account.deletedBy # None
    BY <1>1, <1>8, <2>2, LockPlain DEF MarkDeleted, At
  <2>. QED BY <2>1, <2>2
<1>9. CASE Sweep(q)
  <2>1. Moves(q, "swept") /\ deletion' = [deletion EXCEPT !.doomed = Live]
    BY <1>1, <1>9, GotoMoves DEF Sweep
  <2>2. deletion.by = q /\ deletion'.by = q
    BY <1>1, <1>9, <2>1 DEF Holder, Sweep, TypeOK
  <2>3. DeletionHeld' /\ NoneDoomed'
    BY <2>1, <2>2, SessionsAssumption DEF DeletionHeld, NoneDoomed, Moves, At
  <2>4. CheckedKinds'
    BY <2>1 DEF LockInv, CheckedKinds, Moves, At, Kind
  <2>. QED BY <2>3, <2>4 DEF LockInv
<1>10. CASE CommitDeletion(q)
  <2>1. Moves(q, "done") /\ deletion' = NoDeletion
    BY <1>1, <1>10, FinishMoves DEF CommitDeletion
  <2>2. DeletionHeld' /\ NoneDoomed'
    BY <2>1 DEF DeletionHeld, NoneDoomed, NoDeletion
  <2>3. CheckedKinds'
    BY <2>1 DEF LockInv, CheckedKinds, Moves, At, Kind
  <2>. QED BY <2>2, <2>3 DEF LockInv
<1>11. CASE WriteStatus(q)
  BY <1>1, <1>11, LockPlain DEF WriteStatus, At
<1>. QED
  BY <1>2, <1>3, <1>4, <1>5, <1>6, <1>7, <1>8, <1>9, <1>10, <1>11 DEF Serve

\* So does every step.
LEMMA LockStep ==
  ASSUME SessionsAssumption, IInv, LockInv, [Next]_vars PROVE LockInv'
<1>1. TypeOK /\ Holder
  BY DEF IInv
<1>2. ASSUME NEW q \in Requests, NEW kind \in Kinds, NEW t \in Requests \cup {None},
             NEW status \in Statuses, Arrive(q, kind, t, status)
      PROVE  LockInv'
  <2>1. /\ \A p \in Requests \ {q} : req'[p] = req[p]
        /\ req'[q].pc = "arrived" /\ UNCHANGED deletion
    BY <1>1, <1>2, ArriveMoves DEF Arrive
  <2>2. DeletionHeld'
    BY <1>1, <1>2, <2>1 DEF LockInv, DeletionHeld, Arrive, At, TypeOK
  <2>3. NoneDoomed' /\ CheckedKinds'
    BY <2>1 DEF LockInv, NoneDoomed, CheckedKinds, At, Kind
  <2>. QED BY <2>2, <2>3 DEF LockInv
<1>3. ASSUME NEW q \in Requests, Deny(q) PROVE LockInv'
  BY <1>1, <1>3, LockPlain DEF Deny, At, Outcomes
<1>4. ASSUME NEW q \in Requests, Fail(q) PROVE LockInv'
  <2>1. Moves(q, "done") /\ deletion' = IF deletion.by = q THEN NoDeletion ELSE deletion
    BY <1>1, <1>4, FinishMoves DEF Fail, Outcomes
  <2>2. DeletionHeld' /\ NoneDoomed'
    BY <1>1, <2>1 DEF LockInv, DeletionHeld, NoneDoomed, NoDeletion, Moves, At, TypeOK
  <2>3. CheckedKinds'
    BY <2>1 DEF LockInv, CheckedKinds, Moves, At, Kind
  <2>. QED BY <2>2, <2>3 DEF LockInv
<1>5. CASE UNCHANGED vars
  BY <1>5 DEF vars, LockInv, DeletionHeld, NoneDoomed, CheckedKinds, At, Kind
<1>. QED BY <1>2, <1>3, <1>4, <1>5, LockServe DEF Next

\* The guards of the steps of q: it needs no row, or the row of the account, or
\* rows of tokens, and nobody has locked what it needs.
Ready(q) ==
    \/ At(q, "issuing") \/ At(q, "marked") \/ At(q, "swept")
    \/ At(q, "arrived") /\ Kind(q) \in {"login", "reactivate", "refresh", "ban"}
    \/ /\ AccountFree
       /\ \/ At(q, "arrived") /\ Kind(q) \in {"leave", "status"}
          \/ At(q, "checked") /\ Kind(q) \in {"reactivate", "ban"}
    \/ /\ \/ At(q, "arrived") /\ Kind(q) = "logout"
          \/ At(q, "checked") /\ Kind(q) = "refresh"
       /\ TokenFree(req[q].token)
    \/ At(q, "reuse") /\ \A t \in Live : TokenFree(t)

\* However many requests work on the account and its tokens, while one is in
\* progress there is one that waits for no row: whoever has locked rows is a
\* deletion, which never waits again once it has the users row, although its
\* second statement locks many more.
THEOREM SomebodyIsReady ==
  Spec => []((\E q \in Requests : InProgress(q)) => \E q \in Requests : Ready(q))
<1>1. Init => LockInv
  BY DEF Init, NewRequest, NoDeletion, LockInv, DeletionHeld, NoneDoomed, CheckedKinds, At
<1>2. IInv /\ LockInv /\ [Next]_vars => LockInv'
  BY LockStep, SessionsAssumption
<1>3. ASSUME IInv, LockInv, NEW q \in Requests, InProgress(q)
      PROVE  \E p \in Requests : Ready(p)
  <2>1. deletion.by \in Requests \cup {None} /\ req[q].pc \in Phases \ {"new", "done"}
        /\ Kind(q) \in Kinds
    BY <1>3 DEF IInv, TypeOK, Request, InProgress, Kind
  <2>2. CASE deletion.by # None
    BY <1>3, <2>1, <2>2 DEF LockInv, DeletionHeld, Ready
  <2>3. CASE deletion.by = None
    <3>1. AccountFree /\ \A t : TokenFree(t)
      BY <1>3, <2>3 DEF LockInv, NoneDoomed, AccountFree, TokenFree
    <3>2. At(q, "checked") => Kind(q) \in {"refresh", "reactivate", "ban"}
      BY <1>3 DEF LockInv, CheckedKinds
    <3>3. Ready(q)
      BY <2>1, <3>1, <3>2 DEF Ready, At, Phases, Kinds
    <3>. QED BY <3>3
  <2>. QED BY <2>2, <2>3
<1>4. IInv /\ LockInv => ((\E q \in Requests : InProgress(q)) => \E q \in Requests : Ready(q))
  BY <1>3
<1>. QED BY <1>1, <1>2, <1>4, Always, PTL DEF Spec

-----------------------------------------------------------------------------
(* What depends on which requests overlap.                                 *)

\* The request has seen all it needs to issue a token: nothing it reads again
\* can stop it.
Entering(q) == At(q, "issuing") \/ (At(q, "checked") /\ Kind(q) = "refresh")

\* Nobody is about to issue a token while a deletion is open.
DeletionsApart == deletion.by # None => \A q \in Requests : ~Entering(q)

\* No reactivation waits between its two statements while an admin removes the
\* account.
ReturnsApart == \A p, q \in Requests :
    At(p, "checked") /\ Kind(p) = "reactivate" /\ Kind(q) = "ban" => deletion.by # q

\* No two tokens of one login are about to be issued.
RenewalsApart == \A p, q \in Requests : Entering(p) /\ Entering(q) /\ SameLogin(p, q) => p = q

\* No token of a login is about to be issued while a reused one is answered.
ReusesApart == \A p, q \in Requests : Entering(p) /\ At(q, "reuse") => ~SameLogin(p, q)

-----------------------------------------------------------------------------
(* What a step of one request does to the tokens.                          *)

Step(q) ==
    \/ \E kind \in Kinds, t \in Requests \cup {None}, status \in Statuses :
           Arrive(q, kind, t, status)
    \/ Deny(q) \/ Serve(q) \/ Fail(q)

\* The others stay as they are, and so does what q presents.
Alone(q) ==
    /\ \A p \in Requests \ {q} : req'[p] = req[p]
    /\ ~At(q, "new") => /\ req'[q].kind = req[q].kind /\ req'[q].token = req[q].token
                        /\ req'[q].login = req[q].login

\* A login, or a reactivation, is about to issue the first token of its own.
Opens(q) ==
    /\ Kind(q) \in {"login", "reactivate"} /\ InProgress(q) /\ account'.deletedBy = None
    /\ req'[q].pc = "issuing" /\ req'[q].outcome = req[q].outcome
    /\ UNCHANGED <<tokens, deletion>>

\* A refresh finds its token live.
Presents(q) ==
    /\ Kind(q) = "refresh" /\ At(q, "arrived") /\ tokens[req[q].token] = "live"
    /\ req'[q].pc = "checked" /\ req'[q].outcome = req[q].outcome
    /\ UNCHANGED <<account, tokens, deletion>>

\* A refresh gives its token up.
Rotates(q) ==
    /\ Kind(q) = "refresh" /\ At(q, "checked")
    /\ Live' = Live \ {req[q].token}
    /\ req'[q].pc = "issuing" /\ req'[q].outcome = req[q].outcome
    /\ UNCHANGED <<account, deletion>>

\* The token is issued.
Issues(q) ==
    /\ At(q, "issuing") /\ Live' = Live \cup {q}
    /\ req'[q].pc = "done" /\ req'[q].outcome = "ok"
    /\ UNCHANGED <<account, deletion>>

\* A reuse is answered.
Kills(q) ==
    /\ At(q, "reuse") /\ Live' = {}
    /\ req'[q].pc = "done" /\ req'[q].outcome = "reused"
    /\ UNCHANGED <<account, deletion>>

\* Whatever else q does brings no token to life, nor q nearer to issuing one.
Calm(q) == Live' \subseteq Live /\ ~Entering(q)' /\ req'[q].outcome # "reused"

Effect(q) ==
    Alone(q) /\ (Opens(q) \/ Presents(q) \/ Rotates(q) \/ Issues(q) \/ Kills(q) \/ Calm(q))

\* Before it is answered a request has no answer.
Unanswered == \A q \in Requests : ~At(q, "done") => req[q].outcome = "none"

\* A step that ends the request, or leads to a phase from which no token is issued.
LEMMA CalmStep ==
  ASSUME TypeOK, NEW q \in Requests, Live' \subseteq Live, ~At(q, "done"), Unanswered,
         \/ \E phase \in Phases \ {"issuing", "checked"} : Goto(q, phase)
         \/ Kind(q) # "refresh" /\ Goto(q, "checked")
         \/ \E outcome \in Outcomes \ {"reused"} : Finish(q, outcome)
  PROVE  Effect(q)
<1>1. ASSUME NEW phase \in Phases \ {"issuing", "checked"}, Goto(q, phase) PROVE Effect(q)
  BY <1>1, GotoMoves DEF Effect, Alone, Calm, Entering, Moves, At, Unanswered
<1>2. ASSUME Kind(q) # "refresh", Goto(q, "checked") PROVE Effect(q)
  <2>1. Moves(q, "checked") /\ req'[q].outcome = req[q].outcome
    BY <1>2, GotoMoves DEF Phases
  <2>. QED BY <1>2, <2>1 DEF Effect, Alone, Calm, Entering, Moves, At, Kind, Unanswered
<1>3. ASSUME NEW outcome \in Outcomes \ {"reused"}, Finish(q, outcome) PROVE Effect(q)
  BY <1>3, FinishMoves DEF Effect, Alone, Calm, Entering, Moves, At
<1>. QED BY <1>1, <1>2, <1>3

\* A statement does one of these.
LEMMA ServeEffect ==
  ASSUME TypeOK, Unanswered, NEW q \in Requests, Serve(q) PROVE Effect(q)
<1>1. InProgress(q) /\ ~At(q, "new") /\ ~At(q, "done")
  BY DEF Serve, ReadAccount, InsertToken, ReadOwnDeletion, Undelete, ReadToken, Rotate,
         KillFamily, RevokePresented, FindTarget, MarkDeleted, Sweep, CommitDeletion,
         WriteStatus, At, InProgress
<1>2. UNCHANGED tokens => Live' \subseteq Live
  BY DEF Live
<1> USE DEF Phases, Outcomes
<1>3. CASE ReadAccount(q)
  <2>1. CASE MayEnter
    <3>1. Moves(q, "issuing") /\ req'[q].outcome = req[q].outcome
      BY <1>3, <2>1, GotoMoves DEF ReadAccount
    <3>2. Opens(q)
      BY <1>1, <1>3, <2>1, <3>1 DEF Opens, ReadAccount, MayEnter, Moves
    <3>. QED BY <3>1, <3>2 DEF Effect, Alone, Moves
  <2>2. CASE ~MayEnter
    BY <1>1, <1>2, <1>3, <2>2, CalmStep DEF ReadAccount
  <2>. QED BY <2>1, <2>2
<1>4. CASE InsertToken(q)
  <2>1. Moves(q, "done") /\ req'[q].outcome = "ok"
    BY <1>4, FinishMoves DEF InsertToken
  <2>2. Live' = Live \cup {q}
    BY <1>4 DEF InsertToken, Live, TypeOK
  <2>3. Issues(q)
    BY <1>4, <2>1, <2>2 DEF Issues, InsertToken, Moves
  <2>. QED BY <2>1, <2>3 DEF Effect, Alone, Moves
<1>5. CASE ReadOwnDeletion(q)
  <2>1. CASE account.deletedBy = "owner"
    <3>1. Moves(q, "checked") /\ req'[q].outcome = req[q].outcome
      BY <1>5, <2>1, ReadOwnDeletionMoves
    <3>2. Calm(q)
      BY <1>1, <1>2, <1>5, <3>1
      DEF Calm, Entering, Moves, ReadOwnDeletion, At, Kind, Unanswered
    <3>. QED BY <3>1, <3>2 DEF Effect, Alone, Moves
  <2>2. CASE account.deletedBy # "owner"
    BY <1>1, <1>2, <1>5, <2>2, CalmStep DEF ReadOwnDeletion
  <2>. QED BY <2>1, <2>2
<1>6. CASE Undelete(q)
  <2>1. account'.deletedBy = None
    BY <1>6 DEF Undelete, TypeOK, Account
  <2>2. CASE req[q].status = "active"
    <3>1. Moves(q, "issuing") /\ req'[q].outcome = req[q].outcome
      BY <1>6, <2>2, GotoMoves DEF Undelete
    <3>2. Opens(q)
      BY <1>1, <1>6, <2>1, <3>1 DEF Opens, Undelete, Moves
    <3>. QED BY <3>1, <3>2 DEF Effect, Alone, Moves
  <2>3. CASE req[q].status # "active"
    BY <1>1, <1>2, <1>6, <2>3, CalmStep DEF Undelete
  <2>. QED BY <2>2, <2>3
<1>7. CASE ReadToken(q)
  <2>1. CASE tokens[req[q].token] = "live"
    <3>1. Moves(q, "checked") /\ req'[q].outcome = req[q].outcome
      BY <1>7, <2>1, GotoMoves DEF ReadToken
    <3>2. Presents(q)
      BY <1>7, <2>1, <3>1 DEF Presents, ReadToken, Moves
    <3>. QED BY <3>1, <3>2 DEF Effect, Alone, Moves
  <2>2. CASE tokens[req[q].token] # "live"
    BY <1>1, <1>2, <1>7, <2>2, CalmStep DEF ReadToken
  <2>. QED BY <2>1, <2>2
<1>8. CASE Rotate(q)
  <2>1. Moves(q, "issuing") /\ req'[q].outcome = req[q].outcome
    BY <1>8, GotoMoves DEF Rotate
  <2>2. Live' = Live \ {req[q].token}
    BY <1>8, RevokeTypes DEF Rotate
  <2>3. Rotates(q)
    BY <1>8, <2>1, <2>2 DEF Rotates, Rotate, Moves
  <2>. QED BY <2>1, <2>3 DEF Effect, Alone, Moves
<1>9. CASE KillFamily(q)
  <2>1. Moves(q, "done") /\ req'[q].outcome = "reused"
    BY <1>9, FinishMoves DEF KillFamily
  <2>2. Live' = {}
    BY <1>9, RevokeTypes DEF KillFamily
  <2>3. Kills(q)
    BY <1>9, <2>1, <2>2 DEF Kills, KillFamily, Moves
  <2>. QED BY <2>1, <2>3 DEF Effect, Alone, Moves
<1>10. CASE RevokePresented(q)
  <2>1. Live' \subseteq Live
    BY <1>10, RevokeTypes DEF RevokePresented
  <2>. QED BY <1>1, <1>10, <2>1, CalmStep DEF RevokePresented
<1>11. CASE FindTarget(q)
  BY <1>1, <1>2, <1>11, CalmStep DEF FindTarget, Kind
<1>12. CASE MarkDeleted(q)
  BY <1>1, <1>2, <1>12, CalmStep DEF MarkDeleted
<1>13. CASE Sweep(q)
  BY <1>1, <1>2, <1>13, CalmStep DEF Sweep
<1>14. CASE CommitDeletion(q)
  <2>1. Live' \subseteq Live
    BY <1>14, RevokeTypes DEF CommitDeletion
  <2>. QED BY <1>1, <1>14, <2>1, CalmStep DEF CommitDeletion
<1>15. CASE WriteStatus(q)
  BY <1>1, <1>2, <1>15, CalmStep DEF WriteStatus
<1>. QED
  BY <1>3, <1>4, <1>5, <1>6, <1>7, <1>8, <1>9, <1>10, <1>11, <1>12, <1>13, <1>14, <1>15
  DEF Serve

\* So does an arrival, a refusal, a failure.
LEMMA StepEffect == ASSUME TypeOK, Unanswered, NEW q \in Requests, Step(q) PROVE Effect(q)
<1>1. UNCHANGED tokens => Live' \subseteq Live
  BY DEF Live
<1>2. CASE \E kind \in Kinds, t \in Requests \cup {None}, status \in Statuses :
               Arrive(q, kind, t, status)
  <2>1. PICK kind \in Kinds, t \in Requests \cup {None}, status \in Statuses :
            Arrive(q, kind, t, status)
    BY <1>2
  <2>2. /\ \A p \in Requests \ {q} : req'[p] = req[p]
        /\ req'[q].pc = "arrived" /\ req'[q].outcome = "none"
    BY <2>1, ArriveMoves
  <2>. QED BY <1>1, <2>1, <2>2 DEF Arrive, Effect, Alone, Calm, Entering, At
<1>3. CASE Deny(q)
  BY <1>1, <1>3, CalmStep DEF Deny, At, Outcomes
<1>4. CASE Fail(q)
  BY <1>1, <1>4, CalmStep DEF Fail, At, InProgress, Outcomes
<1>. QED BY <1>2, <1>3, <1>4, ServeEffect DEF Step

\* Every step is one of one request, or none.
LEMMA OneStep == ASSUME [Next]_vars PROVE UNCHANGED vars \/ \E q \in Requests : Step(q)
  BY DEF Next, Step

-----------------------------------------------------------------------------
(* What holds of the requests and tokens whatever overlaps.                *)

\* The client of these three presents a pair it was issued.
PresentsToken == \A q \in Requests :
    Kind(q) \in {"refresh", "logout", "leave"} =>
        req[q].token \in Requests /\ tokens[req[q].token] # "none"

\* A request has issued nothing and answered nothing until it is done.
Fresh == \A q \in Requests : ~At(q, "done") => tokens[q] = "none"

\* What goes back to a login came after the token of that login was issued.
Rooted == \A p, q \in Requests : p # q /\ req[p].login = q => tokens[q] # "none"

\* A login, or a reactivation, is the login its own token goes back to.
Named == \A q \in Requests :
    ~At(q, "new") /\ Kind(q) \in {"login", "reactivate"} => req[q].login = q

\* A refresh goes back to the same login as its token.
Chain == \A q \in Requests : Kind(q) = "refresh" => SameLogin(q, req[q].token)

\* A deletion revokes tokens that were issued.
Doomed == \A t \in deletion.doomed : tokens[t] # "none"

Lineage == Unanswered /\ PresentsToken /\ Fresh /\ Rooted /\ Named /\ Chain /\ Doomed

\* Whatever a request does, it presents what it was issued, and belongs to the
\* login of what it presents.
LEMMA LineageStep ==
  ASSUME SessionsAssumption, TypeOK, Lineage, [Next]_vars PROVE Lineage'
<1>1. Unanswered /\ PresentsToken /\ Fresh /\ Rooted /\ Named /\ Chain /\ Doomed
  BY DEF Lineage
<1>2. \A t \in Requests : tokens[t] # "none" => tokens'[t] # "none"
  BY DEF TypeOK, Next, vars, Arrive, Deny, Fail, Serve, ReadAccount, InsertToken,
         ReadOwnDeletion, Undelete, ReadToken, Rotate, KillFamily, RevokePresented,
         FindTarget, MarkDeleted, Sweep, CommitDeletion, WriteStatus, Revoke
<1>3. ASSUME NEW q \in Requests, NEW kind \in Kinds, NEW t \in Requests \cup {None},
             NEW status \in Statuses, Arrive(q, kind, t, status)
      PROVE  Lineage'
  <2>1. /\ \A p \in Requests \ {q} : req'[p] = req[p]
        /\ req'[q].pc = "arrived" /\ req'[q].kind = kind /\ req'[q].token = t
        /\ req'[q].login = (IF t = None THEN q ELSE req[t].login)
        /\ req'[q].outcome = "none"
    BY <1>3, ArriveMoves
  <2>2. UNCHANGED tokens /\ tokens[q] = "none"
    BY <1>1, <1>3 DEF Arrive, Fresh, At
  <2>3. IF kind \in {"refresh", "logout", "leave"}
        THEN t \in Requests /\ t # None /\ t # q /\ tokens[t] # "none"
        ELSE t = None
    BY <1>3, <2>2, SessionsAssumption DEF Arrive, Issued, SessionsAssumption
  <2>4. Unanswered' /\ Fresh'
    BY <1>1, <2>1, <2>2 DEF Unanswered, Fresh, At
  <2>5. PresentsToken' /\ Named'
    BY <1>1, <2>1, <2>2, <2>3 DEF PresentsToken, Named, At, Kind
  <2>6. Rooted'
    BY <1>1, <2>1, <2>2, <2>3 DEF Rooted
  <2>7. Chain'
    <3>1. ASSUME NEW p \in Requests, p # q, Kind(p) = "refresh" PROVE req[p].token # q
      BY <1>1, <2>2, <3>1 DEF PresentsToken
    <3>. QED BY <1>1, <2>1, <2>3, <3>1 DEF Chain, SameLogin, PresentsToken, Kind
  <2>8. Doomed'
    BY <1>1, <1>3 DEF Doomed, Arrive
  <2>. QED BY <2>4, <2>5, <2>6, <2>7, <2>8 DEF Lineage
<1>4. ASSUME NEW q \in Requests, ~At(q, "new"), Alone(q), ~At(q, "done"),
             ~At(q, "done")' => req'[q].outcome = "none" /\ UNCHANGED tokens[q],
             \A t \in Requests \ {q} : tokens[t] = "none" => tokens'[t] = "none",
             ~At(q, "new")', Doomed'
      PROVE  Lineage'
  <2>1. /\ \A p \in Requests \ {q} : req'[p] = req[p]
        /\ \A p \in Requests : /\ req'[p].login = req[p].login
                               /\ req'[p].token = req[p].token
                               /\ req'[p].kind = req[p].kind
    BY <1>4 DEF Alone
  <2>2. Unanswered' /\ Fresh'
    BY <1>1, <1>4, <2>1 DEF Unanswered, Fresh, At
  <2>3. PresentsToken' /\ Chain'
    BY <1>1, <1>2, <2>1 DEF PresentsToken, Chain, SameLogin, Kind
  <2>4. Rooted' /\ Named'
    BY <1>1, <1>2, <1>4, <2>1 DEF Rooted, Named, At, Kind
  <2>. QED BY <1>4, <2>2, <2>3, <2>4 DEF Lineage
<1>5. ASSUME NEW q \in Requests, Deny(q) \/ Serve(q) \/ Fail(q) PROVE Lineage'
  <2>1. Effect(q)
    BY <1>1, <1>5, StepEffect DEF Step
  <2>2. ~At(q, "new") /\ ~At(q, "done")
    BY <1>5
    DEF Deny, Fail, Serve, ReadAccount, InsertToken, ReadOwnDeletion, Undelete, ReadToken,
        Rotate, KillFamily, RevokePresented, FindTarget, MarkDeleted, Sweep, CommitDeletion,
        WriteStatus, At, InProgress
  <2>3. \E phase \in Phases \ {"new"} : Moves(q, phase)
                                        /\ (phase # "done" => req'[q].outcome = req[q].outcome)
    BY <1>5, GotoMoves, FinishMoves, ReadOwnDeletionMoves
    DEF Deny, Fail, Serve, ReadAccount, InsertToken, ReadOwnDeletion, Undelete, ReadToken,
        Rotate, KillFamily, RevokePresented, FindTarget, MarkDeleted, Sweep, CommitDeletion,
        WriteStatus, Phases, Outcomes
  <2>4. \A t \in Requests : tokens[t] = "none" => tokens'[t] = "none" \/ (InsertToken(q) /\ t = q)
    <3>1. CASE RevokePresented(q) \/ Rotate(q)
      BY <1>1, <3>1 DEF RevokePresented, Rotate, Revoke, PresentsToken
    <3>2. CASE KillFamily(q)
      BY <3>2 DEF KillFamily, Revoke, Live
    <3>3. CASE CommitDeletion(q)
      BY <1>1, <3>3 DEF CommitDeletion, Revoke, Doomed
    <3>4. CASE InsertToken(q)
      BY <3>4 DEF InsertToken, TypeOK
    <3>5. CASE UNCHANGED tokens
      BY <3>5
    <3>. QED BY <1>5, <3>1, <3>2, <3>3, <3>4, <3>5
             DEF Deny, Fail, Serve, ReadAccount, ReadOwnDeletion, Undelete, ReadToken,
                 FindTarget, MarkDeleted, Sweep, WriteStatus
  <2>5. Doomed'
    <3>1. UNCHANGED deletion \/ deletion' = [by |-> q, doomed |-> {}]
          \/ deletion' = [deletion EXCEPT !.doomed = Live] \/ deletion' = NoDeletion
      BY <1>5
      DEF Deny, Fail, Serve, ReadAccount, InsertToken, ReadOwnDeletion, Undelete, ReadToken,
          Rotate, KillFamily, RevokePresented, FindTarget, MarkDeleted, Sweep, CommitDeletion,
          WriteStatus
    <3>2. deletion'.doomed \in {deletion.doomed, {}, Live}
      BY <3>1 DEF TypeOK, NoDeletion
    <3>. QED BY <1>1, <1>2, <3>2 DEF Doomed, Live, TypeOK
  <2>6. CASE InsertToken(q)
    <3>1. Moves(q, "done")
      BY <2>6, FinishMoves DEF InsertToken, Outcomes
    <3>. QED BY <1>4, <2>1, <2>2, <2>4, <2>5, <3>1 DEF Effect, Moves, At
  <2>7. CASE ~InsertToken(q)
    <3>1. PICK phase \in Phases \ {"new"} : Moves(q, phase)
               /\ (phase # "done" => req'[q].outcome = req[q].outcome)
      BY <2>3
    <3>2. ~At(q, "new")' /\ (~At(q, "done")' => req'[q].outcome = "none")
      BY <1>1, <2>2, <3>1 DEF Moves, At, Unanswered
    <3>3. UNCHANGED tokens[q]
      BY <1>1, <2>2, <2>4, <2>7 DEF Fresh
    <3>. QED BY <1>4, <2>1, <2>2, <2>4, <2>5, <2>7, <3>2, <3>3 DEF Effect
  <2>. QED BY <2>6, <2>7
<1>6. CASE UNCHANGED vars
  BY <1>6 DEF vars, Lineage, Unanswered, PresentsToken, Fresh, Rooted, Named, Chain,
              Doomed, SameLogin, At, Kind
<1>. QED BY <1>3, <1>5, <1>6 DEF Next

\* It holds throughout, with the invariant of the deletions.
LEMMA LineageAlways == Spec => [](IInv /\ Lineage)
<1>1. Init => IInv /\ Lineage
  BY InitIInv, SessionsAssumption
  DEF SessionsAssumption, Init, NewRequest, Lineage, Unanswered, PresentsToken, Fresh, Rooted,
      Named, Chain, Doomed, NoDeletion, SameLogin, At, Kind
<1>2. IInv /\ Lineage /\ [Next]_vars => (IInv /\ Lineage)'
  BY NextStep, LineageStep, SessionsAssumption DEF IInv
<1>. QED BY <1>1, <1>2, PTL DEF Spec

-----------------------------------------------------------------------------
(* Deletion: what closes an account closes its sessions.                   *)

\* On a deleted account nothing can be exchanged and nothing is about to be
\* issued, and a deletion that has updated the tokens has missed none.
Closed ==
    /\ account.deletedBy # None => Live = {} /\ \A q \in Requests : ~Entering(q)
    /\ \A q \in Requests : At(q, "swept") => Live \subseteq deletion.doomed

\* What a step does to the deletion and the account.
LEMMA DeletionEffect ==
  ASSUME TypeOK, NEW q \in Requests, Step(q)
  PROVE  \/ /\ UNCHANGED deletion /\ account'.deletedBy \in {None, account.deletedBy}
            /\ ~At(q, "swept")'
         \/ deletion' = [by |-> q, doomed |-> {}] /\ AccountFree /\ UNCHANGED account
            /\ req'[q].pc = "marked"
         \/ Sweep(q) \/ CommitDeletion(q)
         \/ deletion' = NoDeletion /\ deletion.by = q /\ UNCHANGED account
            /\ req'[q].pc = "done"
<1> USE DEF Phases, Outcomes
<1>1. CASE \E kind \in Kinds, t \in Requests \cup {None}, status \in Statuses :
               Arrive(q, kind, t, status)
  BY <1>1, ArriveMoves DEF Arrive, At
<1>2. CASE Deny(q)
  BY <1>2, FinishMoves DEF Deny, At, Moves
<1>3. CASE Fail(q)
  BY <1>3, FinishMoves DEF Fail, At, Moves
<1>4. CASE ReadAccount(q) \/ InsertToken(q)
  BY <1>4, GotoMoves, FinishMoves DEF ReadAccount, InsertToken, At, Moves
<1>5. CASE ReadOwnDeletion(q)
  BY <1>5, ReadOwnDeletionMoves, FinishMoves DEF ReadOwnDeletion, At, Moves
<1>6. CASE Undelete(q)
  <2>1. account'.deletedBy = None
    BY <1>6 DEF Undelete, TypeOK, Account
  <2>2. ~At(q, "swept")'
    BY <1>6, GotoMoves, FinishMoves DEF Undelete, At, Moves
  <2>. QED BY <1>6, <2>1, <2>2 DEF Undelete
<1>7. CASE ReadToken(q) \/ Rotate(q) \/ KillFamily(q) \/ RevokePresented(q)
  BY <1>7, GotoMoves, FinishMoves
  DEF ReadToken, Rotate, KillFamily, RevokePresented, At, Moves
<1>8. CASE FindTarget(q) \/ MarkDeleted(q)
  BY <1>8, GotoMoves, FinishMoves DEF FindTarget, MarkDeleted, At, Moves
<1>9. CASE WriteStatus(q)
  <2>1. account'.deletedBy = account.deletedBy
    BY <1>9 DEF WriteStatus, TypeOK, Account
  <2>. QED BY <1>9, <2>1, FinishMoves DEF WriteStatus, At, Moves
<1>. QED BY <1>1, <1>2, <1>3, <1>4, <1>5, <1>6, <1>7, <1>8, <1>9 DEF Step, Serve

\* Unless somebody was about to issue a token while a deletion was open, what
\* is closed stays closed.
LEMMA ClosedStep ==
  ASSUME SessionsAssumption, IInv, Lineage, DeletionsApart, Closed, [Next]_vars
  PROVE  Closed'
<1>1. TypeOK /\ Holder /\ Unanswered /\ PresentsToken
  BY DEF IInv, Lineage
<1>2. CASE UNCHANGED vars
  BY <1>2 DEF vars, Closed, Live, Entering, At, Kind
<1>3. ASSUME NEW q \in Requests, Step(q) PROVE Closed'
  <2>1. Effect(q)
    BY <1>1, <1>3, StepEffect
  <2>2. \A p \in Requests \ {q} : req'[p] = req[p]
    BY <2>1 DEF Effect, Alone
  <2>3. ASSUME deletion.by = None \/ deletion.by = q
        PROVE  \A p \in Requests \ {q} : ~At(p, "swept")'
    BY <1>1, <2>2, <2>3, SessionsAssumption DEF Holder, At, SessionsAssumption
  <2>4. CASE Calm(q)
    <3>1. Live' \subseteq Live /\ ~Entering(q)'
      BY <2>4 DEF Calm
    <3>2. ASSUME \A p \in Requests : ~Entering(p) PROVE \A p \in Requests : ~Entering(p)'
      BY <2>2, <3>1, <3>2 DEF Entering, At, Kind
    <3>3. CASE UNCHANGED deletion /\ account'.deletedBy \in {None, account.deletedBy}
               /\ ~At(q, "swept")'
      BY <2>2, <3>1, <3>2, <3>3 DEF Closed, At
    <3>4. CASE deletion' = [by |-> q, doomed |-> {}] /\ AccountFree /\ UNCHANGED account
               /\ req'[q].pc = "marked"
      BY <2>2, <2>3, <3>1, <3>2, <3>4 DEF Closed, At, AccountFree
    <3>5. CASE Sweep(q)
      <4>1. deletion.by = q /\ UNCHANGED account /\ deletion'.doomed = Live
        BY <1>1, <3>5 DEF Sweep, Holder, TypeOK
      <4>. QED BY <2>3, <3>1, <3>2, <4>1 DEF Closed
    <3>6. CASE CommitDeletion(q)
      <4>1. At(q, "swept") /\ deletion.by = q /\ Live' = Live \ deletion.doomed
        BY <1>1, <3>6, RevokeTypes DEF CommitDeletion, Holder
      <4>2. Live' = {} /\ \A p \in Requests : ~Entering(p)
        BY <4>1, SessionsAssumption DEF Closed, DeletionsApart, SessionsAssumption
      <4>. QED BY <3>2, <4>2 DEF Closed
    <3>7. CASE deletion' = NoDeletion /\ deletion.by = q /\ UNCHANGED account
               /\ req'[q].pc = "done"
      BY <2>3, <3>1, <3>2, <3>7 DEF Closed, At
    <3>. QED BY <1>1, <1>3, <3>3, <3>4, <3>5, <3>6, <3>7, DeletionEffect
  <2>5. CASE Opens(q)
    BY <2>2, <2>5 DEF Opens, Closed, Live, At
  <2>6. CASE Presents(q)
    <3>1. account.deletedBy = None
      BY <1>1, <2>6 DEF Presents, PresentsToken, Closed, Live
    <3>. QED BY <2>2, <2>6, <3>1 DEF Presents, Closed, Live, At
  <2>7. CASE Rotates(q)
    BY <2>2, <2>7 DEF Rotates, Closed, Entering, At
  <2>8. CASE Issues(q)
    <3>1. Entering(q) /\ account.deletedBy = None /\ deletion.by = None
      BY <2>8 DEF Issues, Closed, DeletionsApart, Entering
    <3>. QED BY <2>2, <2>3, <2>8, <3>1 DEF Issues, Closed, At
  <2>9. CASE Kills(q)
    BY <2>2, <2>9 DEF Kills, Closed, Entering, At, Kind
  <2>. QED BY <2>1, <2>4, <2>5, <2>6, <2>7, <2>8, <2>9 DEF Effect
<1>. QED BY <1>2, <1>3, OneStep

\* Whatever else overlaps, and whatever fails, no refresh token of a deleted
\* account can be exchanged, unless a login, a reactivation or a refresh was
\* about to issue one while the deletion was open: the only overlap that gets
\* past the revocation.
THEOREM DeletionClosesSessions == Spec /\ []DeletionsApart => []DeletedHasNoLiveToken
<1>1. Init => Closed
  BY DEF Init, NewRequest, Closed, Live, Entering, At
<1>2. IInv /\ Lineage /\ DeletionsApart /\ Closed /\ [Next]_vars => Closed'
  BY ClosedStep, SessionsAssumption
<1>3. Closed => DeletedHasNoLiveToken
  BY DEF Closed, DeletedHasNoLiveToken
<1>. QED BY <1>1, <1>2, <1>3, LineageAlways, PTL DEF Spec

-----------------------------------------------------------------------------
(* The life of the account.                                                *)

\* A reactivation about to write has not been overtaken by an admin.
OwnReturn == \A q \in Requests :
    At(q, "checked") /\ Kind(q) = "reactivate" => account.deletedBy # "admin"

\* What an admin's deletion commits is "admin", what its owner's does "owner".
LEMMA CommitEffect ==
  ASSUME SessionsAssumption, IInv, NEW q \in Requests, CommitDeletion(q)
  PROVE  /\ account.deletedBy = None /\ deletion.by = q
         /\ account'.deletedBy = IF Kind(q) = "ban" THEN "admin" ELSE "owner"
  BY SessionsAssumption
  DEF CommitDeletion, IInv, Holder, StillThere, TypeOK, Account, SessionsAssumption

\* Unless an admin removes the account while a reactivation waits, no
\* reactivation is overtaken.
LEMMA OwnReturnStep ==
  ASSUME SessionsAssumption, IInv, Lineage, ReturnsApart, OwnReturn, [Next]_vars
  PROVE  OwnReturn'
<1>1. TypeOK /\ Unanswered
  BY DEF IInv, Lineage
<1>2. CASE UNCHANGED vars
  BY <1>2 DEF vars, OwnReturn, At, Kind
<1>3. ASSUME NEW q \in Requests, Step(q) PROVE OwnReturn'
  <2>1. \A p \in Requests \ {q} : req'[p] = req[p]
    BY <1>1, <1>3, StepEffect DEF Effect, Alone
  <2>2. CASE CommitDeletion(q)
    <3>1. req'[q].pc = "done"
      BY <1>1, <2>2, FinishMoves DEF CommitDeletion, Outcomes, Moves
    <3>. QED BY <2>1, <2>2, <3>1, CommitEffect, SessionsAssumption
             DEF ReturnsApart, OwnReturn, At, Kind
  <2>3. CASE ReadOwnDeletion(q)
    <3>1. CASE account.deletedBy = "owner"
      BY <2>1, <2>3, <3>1 DEF OwnReturn, ReadOwnDeletion, At, Kind
    <3>2. CASE account.deletedBy # "owner"
      <4>1. req'[q].pc = "done" /\ UNCHANGED account
        BY <1>1, <2>3, <3>2, FinishMoves DEF ReadOwnDeletion, Outcomes, Moves
      <4>. QED BY <2>1, <4>1 DEF OwnReturn, At, Kind
    <3>. QED BY <3>1, <3>2
  <2>4. CASE ~CommitDeletion(q) /\ ~ReadOwnDeletion(q)
    <3>1. account'.deletedBy \in {None, account.deletedBy}
      BY <1>1, <1>3, <2>4, DeletionEffect DEF Sweep
    <3>2. ~(At(q, "checked")' /\ Kind(q)' = "reactivate")
      <4> USE DEF Phases, Outcomes, At, Kind, Moves
      <4>1. CASE \E kind \in Kinds, t \in Requests \cup {None}, status \in Statuses :
                     Arrive(q, kind, t, status)
        BY <1>1, <4>1, ArriveMoves
      <4>2. CASE Deny(q) \/ Fail(q)
        BY <1>1, <4>2, FinishMoves DEF Deny, Fail
      <4>3. CASE ReadAccount(q) \/ InsertToken(q) \/ Undelete(q)
        BY <1>1, <4>3, GotoMoves, FinishMoves DEF ReadAccount, InsertToken, Undelete
      <4>4. CASE ReadToken(q) \/ Rotate(q)
        BY <1>1, <4>4, GotoMoves DEF ReadToken, Rotate
      <4>5. CASE KillFamily(q) \/ RevokePresented(q) \/ WriteStatus(q)
        BY <1>1, <4>5, FinishMoves DEF KillFamily, RevokePresented, WriteStatus
      <4>6. CASE FindTarget(q) \/ MarkDeleted(q) \/ Sweep(q)
        BY <1>1, <4>6, GotoMoves, FinishMoves DEF FindTarget, MarkDeleted, Sweep
      <4>. QED BY <1>3, <2>4, <4>1, <4>2, <4>3, <4>4, <4>5, <4>6 DEF Step, Serve
    <3>3. None # "admin"
      BY SessionsAssumption DEF SessionsAssumption
    <3>. QED BY <2>1, <3>1, <3>2, <3>3 DEF OwnReturn, At, Kind
  <2>. QED BY <2>2, <2>3, <2>4
<1>. QED BY <1>2, <1>3, OneStep

\* Whatever else overlaps, the account lives as AccountLife says, and nobody
\* brings back what an admin has removed, unless the admin's deletion was open
\* while a reactivation was between its two statements.
THEOREM DeletionsAndReturns == Spec /\ []ReturnsApart => ImplementsAccountLife
<1>1. Init => Life!Init /\ OwnReturn
  BY DEF Init, NewRequest, Account, Life!Init, OwnReturn, At
<1>2. IInv /\ Lineage /\ ReturnsApart /\ OwnReturn /\ [Next]_vars => OwnReturn'
  BY OwnReturnStep, SessionsAssumption
<1>3. IInv /\ Lineage /\ OwnReturn /\ [Next]_vars => [Life!Next]_(account.deletedBy)
  <2> SUFFICES ASSUME IInv, Lineage, OwnReturn, [Next]_vars
               PROVE  [Life!Next]_(account.deletedBy)
    OBVIOUS
  <2>2. TypeOK /\ account \in Account
    BY DEF IInv, TypeOK
  <2>3. ASSUME NEW q \in Requests, Undelete(q) PROVE [Life!Next]_(account.deletedBy)
    <3>1. account.deletedBy \in {None, "owner"} /\ account'.deletedBy = None
      BY <2>2, <2>3 DEF Undelete, OwnReturn, Account
    <3>. QED BY <3>1 DEF Life!Next, Life!Return
  <2>4. ASSUME NEW q \in Requests, CommitDeletion(q) PROVE [Life!Next]_(account.deletedBy)
    BY <2>4, CommitEffect, SessionsAssumption DEF Life!Next, Life!Leave, Life!Ban
  <2>5. ASSUME NEW q \in Requests, Step(q), ~Undelete(q), ~CommitDeletion(q)
        PROVE  UNCHANGED account.deletedBy
    BY <2>2, <2>5
    DEF Step, Arrive, Deny, Fail, Serve, ReadAccount, InsertToken, ReadOwnDeletion, ReadToken,
        Rotate, KillFamily, RevokePresented, FindTarget, MarkDeleted, Sweep, WriteStatus,
        Account
  <2>6. CASE UNCHANGED vars
    BY <2>6 DEF vars
  <2>. QED BY <2>3, <2>4, <2>5, <2>6, OneStep
<1>. QED BY <1>1, <1>2, <1>3, LineageAlways, PTL DEF Spec, ImplementsAccountLife, Life!Spec

-----------------------------------------------------------------------------
(* The rotation of refresh tokens.                                         *)

\* The step of a request changes the login of no token, and of no request that
\* has arrived.
LEMMA LoginsKept ==
  ASSUME Lineage, NEW q \in Requests, Alone(q)
  PROVE  /\ \A p \in Requests : p # q \/ ~At(q, "new") => req'[p].login = req[p].login
         /\ At(q, "new") => q \notin Live /\ ~Entering(q) /\ req[q].outcome = "none"
  BY DEF Lineage, Fresh, Unanswered, Alone, At, Live, Entering

\* A login that has issued nothing shares it with nobody.
LEMMA NewLoginApart ==
  ASSUME Lineage, NEW q \in Requests, InProgress(q), Kind(q) \in {"login", "reactivate"}
  PROVE  tokens[q] = "none" /\ \A p \in Requests : SameLogin(p, q) => p = q
<1>1. tokens[q] = "none" /\ req[q].login = q
  BY DEF Lineage, Fresh, Named, At, InProgress
<1>. QED BY <1>1 DEF Lineage, Rooted, SameLogin

\* At most one token of a login is live; who is about to issue another one has
\* given up the only one there was, or presents it.
Rotation ==
    /\ OneLiveTokenPerLogin
    /\ \A q \in Requests : \A t \in Live :
           Entering(q) /\ SameLogin(t, q) => At(q, "checked") /\ t = req[q].token

\* Unless two requests were about to issue tokens of one login, a step leaves
\* it so.
LEMMA RotationStep ==
  ASSUME SessionsAssumption, IInv, Lineage, RenewalsApart, Rotation, [Next]_vars
  PROVE  Rotation'
<1>1. TypeOK /\ Unanswered /\ PresentsToken /\ Chain /\ Live \subseteq Requests
      /\ OneLiveTokenPerLogin
  BY DEF IInv, Lineage, Live, Rotation
<1>2. CASE UNCHANGED vars
  BY <1>2 DEF vars, Rotation, OneLiveTokenPerLogin, SameLogin, Live, Entering, At, Kind
<1>3. ASSUME NEW q \in Requests, Step(q) PROVE Rotation'
  <2>1. Effect(q) /\ Alone(q)
    BY <1>1, <1>3, StepEffect DEF Effect
  <2>2. \A p \in Requests \ {q} : req'[p] = req[p]
    BY <2>1 DEF Alone
  <2>3. /\ \A p \in Requests : p # q \/ ~At(q, "new") => req'[p].login = req[p].login
        /\ At(q, "new") => q \notin Live
    BY <2>1, LoginsKept
  <2>4. ASSUME Live' \subseteq Live
        PROVE  /\ OneLiveTokenPerLogin'
               /\ \A p \in Requests \ {q} : \A t \in Live' :
                      Entering(p)' /\ SameLogin(t, p)' => At(p, "checked")' /\ t = req'[p].token
    <3>1. \A t \in Live' : t \in Live /\ req'[t].login = req[t].login
      BY <1>1, <2>3, <2>4
    <3>2. OneLiveTokenPerLogin'
      BY <1>1, <3>1 DEF OneLiveTokenPerLogin, SameLogin
    <3>. QED BY <2>2, <3>1, <3>2 DEF Rotation, SameLogin, Entering, At, Kind
  <2>5. CASE Calm(q)
    BY <2>4, <2>5 DEF Calm, Rotation
  <2>6. CASE Opens(q)
    <3>1. Live' = Live /\ ~At(q, "new")
      BY <2>6 DEF Opens, Live, At, InProgress
    <3>2. \A t \in Live' : ~SameLogin(t, q)'
      BY <1>1, <2>3, <2>6, <3>1, NewLoginApart DEF Opens, SameLogin, Live
    <3>. QED BY <2>4, <3>1, <3>2 DEF Rotation
  <2>7. CASE Presents(q)
    <3> DEFINE u == req[q].token
    <3>1. Live' = Live /\ ~At(q, "new") /\ At(q, "checked")' /\ req'[q].token = u
      BY <2>1, <2>7 DEF Presents, Live, At, Alone
    <3>2. u \in Live /\ SameLogin(q, u)
      BY <1>1, <2>7 DEF Presents, PresentsToken, Chain, Live, Kind
    <3>3. \A t \in Live : SameLogin(t, q) => t = u
      BY <1>1, <3>2 DEF OneLiveTokenPerLogin, SameLogin
    <3> HIDE DEF u
    <3>4. \A t \in Live' : SameLogin(t, q)' => t = u
      BY <1>1, <2>3, <3>1, <3>3 DEF SameLogin
    <3>. QED BY <2>4, <3>1, <3>4 DEF Rotation
  <2>8. CASE Rotates(q)
    <3>1. Live' = Live \ {req[q].token} /\ ~At(q, "new") /\ Entering(q)
      BY <2>8 DEF Rotates, At, Entering
    <3>2. \A t \in Live' : ~SameLogin(t, q)
      BY <3>1 DEF Rotation
    <3>3. \A t \in Live' : ~SameLogin(t, q)'
      BY <1>1, <2>3, <3>1, <3>2 DEF SameLogin
    <3>. QED BY <2>4, <3>1, <3>3 DEF Rotation
  <2>9. CASE Issues(q)
    <3>1. Live' = Live \cup {q} /\ ~At(q, "new") /\ Entering(q) /\ ~Entering(q)'
      BY <2>9 DEF Issues, At, Entering
    <3>2. \A t \in Live : ~SameLogin(t, q)
      BY <2>9 DEF Rotation, Issues, At, Entering
    <3>3. \A p \in Requests \ {q} : ~(Entering(p) /\ SameLogin(p, q))
      BY <3>1 DEF RenewalsApart
    <3>4. OneLiveTokenPerLogin'
      BY <1>1, <2>3, <3>1, <3>2 DEF OneLiveTokenPerLogin, SameLogin
    <3>5. ASSUME NEW p \in Requests \ {q}, NEW t \in Live', Entering(p)', SameLogin(t, p)'
          PROVE  At(p, "checked")' /\ t = req'[p].token
      <4>1. Entering(p) /\ req'[p] = req[p] /\ SameLogin(t, p) /\ ~SameLogin(p, q)
        BY <1>1, <2>2, <2>3, <3>1, <3>3, <3>5 DEF Entering, At, Kind, SameLogin
      <4>2. t \in Live
        BY <3>1, <4>1 DEF SameLogin
      <4>. QED BY <4>1, <4>2 DEF Rotation, At
    <3>. QED BY <3>1, <3>4, <3>5 DEF Rotation
  <2>10. CASE Kills(q)
    BY <2>4, <2>10 DEF Kills, Rotation
  <2>. QED BY <2>1, <2>5, <2>6, <2>7, <2>8, <2>9, <2>10 DEF Effect
<1>. QED BY <1>2, <1>3, OneStep

\* Whatever else overlaps, and whatever fails, at most one token of a login can
\* be exchanged, unless two requests were about to issue one for it at the same
\* time: two exchanges of the same token.
THEOREM RotationLeavesOne == Spec /\ []RenewalsApart => []OneLiveTokenPerLogin
<1>1. Init => Rotation
  BY DEF Init, NewRequest, Rotation, OneLiveTokenPerLogin, Live
<1>2. IInv /\ Lineage /\ RenewalsApart /\ Rotation /\ [Next]_vars => Rotation'
  BY RotationStep, SessionsAssumption
<1>3. Rotation => OneLiveTokenPerLogin
  BY DEF Rotation
<1>. QED BY <1>1, <1>2, <1>3, LineageAlways, PTL DEF Spec

\* A login that was ended by a reuse has no live token, and nobody is about to
\* issue one.
Ended ==
    \A q \in Requests : req[q].outcome = "reused" =>
        /\ \A t \in Live : ~SameLogin(t, q)
        /\ \A p \in Requests : Entering(p) => ~SameLogin(p, q)

\* Unless a token of the login was about to be issued while the reuse was
\* answered, a login that was ended stays so.
LEMMA EndedStep ==
  ASSUME SessionsAssumption, IInv, Lineage, ReusesApart, Ended, [Next]_vars
  PROVE  Ended'
<1>1. TypeOK /\ Unanswered /\ PresentsToken /\ Chain /\ Live \subseteq Requests
  BY DEF IInv, Lineage, Live
<1>2. CASE UNCHANGED vars
  BY <1>2 DEF vars, Ended, SameLogin, Live, Entering, At, Kind
<1>3. ASSUME NEW q \in Requests, Step(q) PROVE Ended'
  <2>1. Effect(q) /\ Alone(q)
    BY <1>1, <1>3, StepEffect DEF Effect
  <2>2. \A p \in Requests \ {q} : req'[p] = req[p]
    BY <2>1 DEF Alone
  <2>3. /\ \A p \in Requests : p # q \/ ~At(q, "new") => req'[p].login = req[p].login
        /\ At(q, "new") => q \notin Live /\ ~Entering(q) /\ req[q].outcome = "none"
    BY <2>1, LoginsKept
  <2>4. ASSUME NEW r \in Requests, req'[r].outcome = "reused", req[r].outcome = "reused",
               \A t \in Live' : t \in Live \/ ~SameLogin(t, r)',
               Entering(q)' => Entering(q) \/ ~SameLogin(q, r)'
        PROVE  /\ \A t \in Live' : ~SameLogin(t, r)'
               /\ \A p \in Requests : Entering(p)' => ~SameLogin(p, r)'
    <3>1. req'[r].login = req[r].login
      BY <2>3, <2>4
    <3>2. ASSUME NEW t \in Live', t \in Live PROVE ~SameLogin(t, r)'
      <4>1. req'[t].login = req[t].login
        BY <1>1, <2>3, <3>2
      <4>. QED BY <2>4, <3>1, <3>2, <4>1 DEF Ended, SameLogin
    <3>3. ASSUME NEW p \in Requests, Entering(p)', p # q \/ Entering(q)
          PROVE  ~SameLogin(p, r)'
      <4>1. Entering(p)
        BY <2>2, <3>3 DEF Entering, At, Kind
      <4>2. req'[p].login = req[p].login
        BY <2>3, <3>3
      <4>. QED BY <2>4, <3>1, <4>1, <4>2 DEF Ended, SameLogin
    <3>. QED BY <2>4, <3>2, <3>3
  <2>5. \A r \in Requests : r # q => req'[r].outcome = req[r].outcome
    BY <2>2
  <2>6. CASE Calm(q)
    BY <2>4, <2>5, <2>6 DEF Calm, Ended
  <2>7. CASE Opens(q)
    <3>1. Live' = Live /\ ~At(q, "new") /\ req'[q].outcome = "none"
      BY <1>1, <2>7 DEF Opens, Live, At, InProgress, Unanswered
    <3>2. \A r \in Requests \ {q} : ~SameLogin(q, r)'
      BY <2>3, <2>7, <3>1, NewLoginApart DEF Opens, SameLogin
    <3>. QED BY <2>4, <2>5, <3>1, <3>2 DEF Ended
  <2>8. CASE Presents(q)
    <3>1. Live' = Live /\ ~At(q, "new") /\ req'[q].outcome = "none"
      BY <1>1, <2>8 DEF Presents, Live, At, Unanswered
    <3>2. req[q].token \in Live /\ SameLogin(q, req[q].token)
      BY <1>1, <2>8 DEF Presents, PresentsToken, Chain, Live, Kind
    <3>3. \A r \in Requests : req[r].outcome = "reused" => ~SameLogin(q, r)
      BY <3>2 DEF Ended, SameLogin
    <3>4. \A r \in Requests : req'[r].outcome = "reused" => ~SameLogin(q, r)'
      BY <2>3, <2>5, <3>1, <3>3 DEF SameLogin
    <3>. QED BY <2>4, <2>5, <3>1, <3>4 DEF Ended
  <2>9. CASE Rotates(q)
    <3>1. Live' \subseteq Live /\ Entering(q) /\ req'[q].outcome = "none"
      BY <1>1, <2>9 DEF Rotates, At, Entering, Unanswered
    <3>. QED BY <2>4, <2>5, <3>1 DEF Ended
  <2>10. CASE Issues(q)
    <3>1. Live' = Live \cup {q} /\ ~At(q, "new") /\ Entering(q) /\ ~Entering(q)'
          /\ req'[q].outcome = "ok"
      BY <2>10 DEF Issues, At, Entering
    <3>2. \A r \in Requests : req'[r].outcome = "reused" => req[r].outcome = "reused"
      BY <2>5, <3>1
    <3>3. \A r \in Requests : req[r].outcome = "reused" => ~SameLogin(q, r)'
      BY <2>3, <3>1 DEF Ended, SameLogin
    <3>. QED BY <2>4, <3>1, <3>2, <3>3 DEF Ended
  <2>11. CASE Kills(q)
    <3>1. Live' = {} /\ ~At(q, "new") /\ ~Entering(q)' /\ At(q, "reuse")
      BY <2>11 DEF Kills, At, Entering
    <3>2. \A p \in Requests : Entering(p)' => p # q /\ Entering(p)
      BY <2>2, <3>1 DEF Entering, At, Kind
    <3>3. \A p \in Requests : Entering(p) => ~SameLogin(p, q)
      BY <3>1 DEF ReusesApart
    <3>4. \A p, r \in Requests : SameLogin(p, r)' <=> SameLogin(p, r)
      BY <2>3, <3>1 DEF SameLogin
    <3>5. \A r \in Requests : req'[r].outcome = "reused" => r = q \/ req[r].outcome = "reused"
      BY <2>5
    <3>. QED BY <3>1, <3>2, <3>3, <3>4, <3>5 DEF Ended
  <2>. QED BY <2>1, <2>6, <2>7, <2>8, <2>9, <2>10, <2>11 DEF Effect
<1>. QED BY <1>2, <1>3, OneStep

\* Whatever else overlaps, and whatever fails, a reuse that was answered ends
\* its login for good, unless a token of that login was about to be issued when
\* the reuse was found: the overlap by which a family comes back.
THEOREM ReuseEndsForGood == Spec /\ []ReusesApart => []ReuseEndsLogin
<1>1. Init => Ended
  BY DEF Init, NewRequest, Ended
<1>2. IInv /\ Lineage /\ ReusesApart /\ Ended /\ [Next]_vars => Ended'
  BY EndedStep, SessionsAssumption
<1>3. Ended => ReuseEndsLogin
  BY DEF Ended, ReuseEndsLogin, SameLogin, Live
<1>. QED BY <1>1, <1>2, <1>3, LineageAlways, PTL DEF Spec
=============================================================================
