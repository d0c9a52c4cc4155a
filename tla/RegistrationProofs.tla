------------------------- MODULE RegistrationProofs -------------------------
(***************************************************************************)
(* What registration keeps for any number of requests, invites, addresses  *)
(* and connections, whatever overlaps and fails: its types, that an invite *)
(* is spent once, that who is invited is sponsored by two, that answers    *)
(* are true, that it implements Admission, and that nothing but the pool   *)
(* makes all requests wait.                                                *)
(***************************************************************************)
EXTENDS Registration, FiniteSetTheorems, TLAPS

\* The account of a request: its registration has committed, whatever it was told.
Entered(q) == \E e \in Emails : accounts[e].owner = q

\* Where a request is, what it has read is still so: codes it has locked are
\* unspent, the key it has inserted is free, and the accounts and invites that
\* name it are those of its own commit.
Course(q) ==
    LET r == req[q] IN
    /\ r.kind = "provider" => r.codes = <<>>
    /\ r.pc = "done" <=> r.outcome # "none"
    /\ r.pc # "new" => r.email \in Emails
    /\ r.pc \in {"first", "second"} => Len(r.codes) = 2
    /\ (r.pc \in {"inserted", "duplicate"} \/ Entered(q)) => r.codes = <<>> \/ Len(r.codes) = 2
    /\ (Len(r.codes) = 2 /\ (r.pc \in {"second", "inserted", "duplicate"} \/ Entered(q))) =>
          Sponsor[r.codes[1]] # Sponsor[r.codes[2]]
    /\ r.pc = "inserted" => accounts[r.email].how = "none"
    /\ (r.pc = "duplicate" \/ r.outcome \in {"taken", "takenDeleted"}) =>
          accounts[r.email].how # "none"
    /\ r.outcome = "taken" => ~accounts[r.email].deleted \/ r.failed
    /\ r.outcome = "takenDeleted" => accounts[r.email].deleted
    /\ \A i \in Locked(q) : invites[i].usedBy = None

Traces(q) ==
    LET r == req[q] IN
    /\ \A e \in Emails : accounts[e].owner = q =>
          r.email = e /\ (r.outcome = "ok" \/ (r.outcome = "error" /\ r.failed))
    /\ r.outcome = "ok" => Entered(q)
    /\ Entered(q) =>
          /\ accounts[r.email].owner = q
          /\ accounts[r.email].how \in (IF r.codes = <<>> THEN {"provider", "waiting", "approved"}
                                                         ELSE {"sponsored"})
    /\ SpentOn(q) = IF Entered(q) THEN Codes(q) ELSE {}

\* Requests exclude each other from invites and from the e-mail.
Exclusive ==
    \A p, q \in Requests : p # q =>
        /\ Locked(p) \cap Locked(q) = {}
        /\ At(p, "inserted") /\ At(q, "inserted") => req[p].email # req[q].email

IInv ==
    /\ TypeOK /\ Exclusive
    /\ \A q \in Requests : Course(q) /\ Traces(q)

-----------------------------------------------------------------------------
(* One request goes on, the tables stay.                                   *)

\* The two codes of a request.
LEMMA TwoCodes ==
    ASSUME NEW q \in Requests, Len(req[q].codes) = 2, req[q].codes \in Seq(Invites)
    PROVE  /\ Codes(q) = {req[q].codes[1], req[q].codes[2]}
           /\ req[q].codes[1] \in Invites /\ req[q].codes[2] \in Invites
<1>1. DOMAIN req[q].codes = {1, 2}
  OBVIOUS
<1> QED
  BY <1>1 DEF Codes

\* A step of a request replaces its phase and its outcome, and is a failure when
\* it breaks off.
LEMMA OneRequest ==
    ASSUME TypeOK, NEW q \in Requests, NEW phase \in Phases, NEW outcome \in Outcomes,
           \/ Goto(q, phase) /\ outcome = req[q].outcome
           \/ Finish(q, outcome) /\ phase = "done"
           \/ Break(q) /\ outcome = FailureOf(q) /\ phase = "done"
    PROVE  /\ req' \in [Requests -> Request]
           /\ \A p \in Requests \ {q} : req'[p] = req[p]
           /\ req'[q].pc = phase /\ req'[q].outcome = outcome
           /\ Break(q) => req'[q].failed
           /\ req'[q].kind = req[q].kind /\ req'[q].codes = req[q].codes
           /\ req'[q].email = req[q].email
<1>1. req \in [Requests -> Request] /\ req[q] \in Request
  BY DEF TypeOK
<1>2. CASE Goto(q, phase) /\ outcome = req[q].outcome
  <2> DEFINE r == [req[q] EXCEPT !.pc = phase]
  <2>1. /\ r \in Request /\ r.pc = phase /\ r.outcome = outcome
        /\ r.kind = req[q].kind /\ r.codes = req[q].codes /\ r.email = req[q].email
    BY <1>1, <1>2 DEF Request
  <2>2. req' = [req EXCEPT ![q] = r]
    BY <1>2 DEF Goto
  <2>3. Break(q) => req'[q].failed
    BY <1>1 DEF Break, Request
  <2> HIDE DEF r
  <2>4. req'[q] = r /\ \A p \in Requests \ {q} : req'[p] = req[p]
    BY <1>1, <2>2
  <2>5. req' \in [Requests -> Request]
    BY <1>1, <2>1, <2>2
  <2> QED
    BY <2>1, <2>3, <2>4, <2>5
<1>3. CASE Finish(q, outcome) /\ phase = "done"
  <2> DEFINE r == [req[q] EXCEPT !.pc = "done", !.outcome = outcome]
  <2>1. /\ r \in Request /\ r.pc = phase /\ r.outcome = outcome
        /\ r.kind = req[q].kind /\ r.codes = req[q].codes /\ r.email = req[q].email
    BY <1>1, <1>3 DEF Request
  <2>2. req' = [req EXCEPT ![q] = r]
    BY <1>3 DEF Finish
  <2>3. Break(q) => req'[q].failed
    BY <1>1 DEF Break, Request
  <2> HIDE DEF r
  <2>4. req'[q] = r /\ \A p \in Requests \ {q} : req'[p] = req[p]
    BY <1>1, <2>2
  <2>5. req' \in [Requests -> Request]
    BY <1>1, <2>1, <2>2
  <2> QED
    BY <2>1, <2>3, <2>4, <2>5
<1>4. CASE Break(q) /\ outcome = FailureOf(q) /\ phase = "done"
  <2> DEFINE r == [req[q] EXCEPT !.pc = "done", !.outcome = outcome, !.failed = TRUE]
  <2>1. /\ r \in Request /\ r.pc = phase /\ r.outcome = outcome /\ r.failed
        /\ r.kind = req[q].kind /\ r.codes = req[q].codes /\ r.email = req[q].email
    BY <1>1, <1>4 DEF Request
  <2>2. req' = [req EXCEPT ![q] = r]
    BY <1>4 DEF Break
  <2> HIDE DEF r
  <2>4. req'[q] = r /\ \A p \in Requests \ {q} : req'[p] = req[p]
    BY <1>1, <2>2
  <2>5. req' \in [Requests -> Request]
    BY <1>1, <2>1, <2>2
  <2> QED
    BY <2>1, <2>4, <2>5
<1> QED
  BY <1>2, <1>3, <1>4

\* The others do not notice a request that leaves the tables alone and locks
\* nothing that they have.
LEMMA OthersStay ==
    ASSUME IInv, NEW q \in Requests, UNCHANGED <<invites, accounts>>,
           req' \in [Requests -> Request], Len(req'[q].codes) <= 2,
           \A p \in Requests \ {q} : req'[p] = req[p],
           Course(q)', Traces(q)',
           \A p \in Requests \ {q} : Locked(q)' \cap Locked(p) = {},
           \A p \in Requests \ {q} :
              At(p, "inserted") /\ req'[q].pc = "inserted" => req[p].email # req'[q].email
    PROVE  IInv'
<1> USE DEF IInv
<1>1. \A p \in Requests \ {q} : Locked(p)' = Locked(p) /\ Codes(p)' = Codes(p)
  BY DEF Locked, Codes, At
<1>2. \A p \in Requests \ {q} : Course(p)' /\ Traces(p)'
  BY <1>1 DEF Course, Traces, SpentOn, Entered
<1>3. TypeOK'
  BY DEF TypeOK
<1>4. Exclusive'
  BY <1>1 DEF Exclusive, At
<1> QED
  BY <1>2, <1>3, <1>4

\* A request that is refused, or fails, lets everything go.
LEMMA Finishing ==
    ASSUME IInv, NEW q \in Requests, InProgress(q),
           NEW o \in Outcomes \ {"none", "ok"}, UNCHANGED <<invites, accounts>>,
           o \in {"taken", "takenDeleted"} => accounts[req[q].email].how # "none",
           o = "takenDeleted" => accounts[req[q].email].deleted,
           o = "taken" => ~accounts[req[q].email].deleted \/ Break(q),
           Finish(q, o) \/ (Break(q) /\ o = FailureOf(q))
    PROVE  IInv'
<1> USE DEF IInv
<1>2. /\ req' \in [Requests -> Request]
      /\ \A p \in Requests \ {q} : req'[p] = req[p]
      /\ req'[q].pc = "done" /\ req'[q].outcome = o /\ (Break(q) => req'[q].failed)
      /\ req'[q].kind = req[q].kind /\ req'[q].codes = req[q].codes
      /\ req'[q].email = req[q].email
  BY OneRequest DEF Phases
<1>3. Locked(q)' = {}
  BY <1>2 DEF Locked, At
<1>4. req[q].outcome = "none" /\ Course(q) /\ Traces(q)
  BY DEF Course, InProgress, At, TypeOK, Request, Outcomes
<1>5. ~Entered(q) /\ ~Entered(q)'
  BY <1>4 DEF Traces, Entered
<1>6. Course(q)'
  BY <1>2, <1>3, <1>4, <1>5 DEF Course, InProgress, At
<1>7. Traces(q)'
  BY <1>2, <1>4, <1>5 DEF Traces, SpentOn, Entered
<1>8. Len(req'[q].codes) <= 2
  BY <1>2 DEF TypeOK
<1> QED
  BY <1>2, <1>3, <1>6, <1>7, <1>8, OthersStay

\* A request that goes on keeps what it has and may lock one more invite, or
\* insert a key, that nobody else has.
LEMMA GoingOn ==
    ASSUME IInv, NEW q \in Requests, InProgress(q),
           NEW phase \in Phases \ {"new", "done"}, Goto(q, phase), UNCHANGED <<invites, accounts>>,
           phase \in {"first", "second"} => Len(req[q].codes) = 2,
           phase \in {"inserted", "duplicate"} => req[q].codes = <<>> \/ At(q, "second"),
           phase = "second" => Sponsor[req[q].codes[1]] # Sponsor[req[q].codes[2]],
           phase = "inserted" => accounts[req[q].email].how = "none" /\ ~BeingInserted(q),
           phase = "duplicate" => accounts[req[q].email].how # "none",
           \A i \in Locked(q)' : i \in Locked(q) \/ (Usable(i) /\ ~LockedByOther(q, i))
    PROVE  IInv'
<1> USE DEF IInv
<1>1. req[q].outcome \in Outcomes
  BY DEF TypeOK, Request
<1>2. /\ req' \in [Requests -> Request]
      /\ \A p \in Requests \ {q} : req'[p] = req[p]
      /\ req'[q].pc = phase /\ req'[q].outcome = req[q].outcome
      /\ req'[q].kind = req[q].kind /\ req'[q].codes = req[q].codes
      /\ req'[q].email = req[q].email
  BY <1>1, OneRequest
<1>3. req[q].outcome = "none" /\ Course(q) /\ Traces(q)
  BY DEF Course, InProgress, At, TypeOK, Request, Outcomes
<1>4. \A i \in Locked(q)' : invites[i].usedBy = None
  BY <1>3 DEF Course, Usable
<1>0. ~Entered(q) /\ ~Entered(q)'
  BY <1>3 DEF Traces, Entered
<1>5. Course(q)'
  BY <1>0, <1>2, <1>3, <1>4 DEF Course, InProgress, At
<1>6. Traces(q)'
  BY <1>0, <1>2, <1>3 DEF Traces, SpentOn, Entered
<1>7. \A p \in Requests \ {q} : Locked(q)' \cap Locked(p) = {}
  BY DEF Exclusive, LockedByOther, Others
<1>8. \A p \in Requests \ {q} :
         At(p, "inserted") /\ req'[q].pc = "inserted" => req[p].email # req'[q].email
  BY <1>2 DEF BeingInserted, Others
<1>9. Len(req'[q].codes) <= 2
  BY <1>2 DEF TypeOK
<1> QED
  BY <1>2, <1>5, <1>6, <1>7, <1>8, <1>9, OthersStay

-----------------------------------------------------------------------------
(* The steps.                                                              *)

\* Who waits is in progress.
LEMMA WaitersAreInProgress ==
    ASSUME NEW q \in Requests, InCycle(q)
    PROVE  InProgress(q)
<1>1. \E p \in Requests : p \in WaitsFor(q)
  BY DEF InCycle
<1> QED
  BY <1>1 DEF WaitsFor, Wants, Ready, InProgress, At

\* The steps of a request that leave the tables alone.
LEMMA ServeStep ==
    ASSUME IInv, NEW q \in Requests,
           \/ Begin(q) \/ RefuseIncomplete(q) \/ AbortDeadlocked(q)
           \/ InsertUser(q) \/ AskReason(q) \/ Fail(q)
           \/ \E n \in 1 .. 2 : LockInvite(q, n) \/ RefuseCode(q, n)
    PROVE  IInv'
<1> USE DEF IInv
<1>0. req[q] \in Request /\ req[q].codes \in Seq(Invites) /\ Course(q)
  BY DEF TypeOK, Request
<1>1. CASE Begin(q)
  <2>1. Locked(q)' = {}
    BY <1>0, <1>1 DEF Begin, Goto, TypeOK, Request, Locked, At
  <2> QED
    BY <1>1, <2>1, GoingOn DEF Begin, InProgress, At, Phases
<1>2. CASE RefuseIncomplete(q)
  BY <1>2, Finishing DEF RefuseIncomplete, InProgress, At, Outcomes
<1>3. CASE AbortDeadlocked(q) \/ Fail(q)
  <2>1. InProgress(q) /\ Break(q) /\ UNCHANGED <<invites, accounts>>
    BY <1>3, WaitersAreInProgress DEF AbortDeadlocked, Fail
  <2>2. FailureOf(q) \in {"invalidCode", "taken", "error"}
    BY DEF FailureOf
  <2>3. FailureOf(q) = "taken" => accounts[req[q].email].how # "none"
    BY <1>0 DEF FailureOf, Course, At
  <2>4. FailureOf(q) \in Outcomes \ {"none", "ok"}
    BY <2>2 DEF Outcomes
  <2> QED
    BY <2>1, <2>2, <2>3, <2>4, Finishing
<1>5. CASE AskReason(q)
  <2>1. accounts[req[q].email].how # "none" /\ InProgress(q)
    BY <1>0, <1>5 DEF AskReason, Course, At, InProgress
  <2>2. CASE accounts[req[q].email].deleted
    BY <1>5, <2>1, <2>2, Finishing DEF AskReason, Outcomes
  <2>3. CASE ~accounts[req[q].email].deleted
    BY <1>5, <2>1, <2>3, Finishing DEF AskReason, Outcomes
  <2> QED
    BY <2>2, <2>3
<1>6. CASE InsertUser(q)
  <2>1. /\ InProgress(q) /\ (At(q, "second") \/ req[q].codes = <<>>)
        /\ At(q, "second") \/ At(q, "begun")
    BY <1>6 DEF InsertUser, Ready, InProgress, At
  <2>2. PICK phase \in {"inserted", "duplicate"} :
           /\ Goto(q, phase)
           /\ (phase = "inserted") <=> accounts[req[q].email].how = "none"
    BY <1>6 DEF InsertUser
  <2>3. req'[q].codes = req[q].codes /\ req'[q].pc = phase
    BY <1>0, <2>2 DEF Goto, TypeOK, Request
  <2>4. Locked(q)' = Locked(q)
    <3>1. CASE At(q, "second")
      BY <2>3, <3>1 DEF Locked, Codes, At
    <3>2. CASE At(q, "begun")
      BY <2>1, <2>3, <3>2 DEF Locked, Codes, At
    <3> QED
      BY <2>1, <3>1, <3>2
  <2> QED
    BY <1>6, <2>1, <2>2, <2>4, GoingOn DEF InsertUser, Phases
<1>7. ASSUME NEW n \in 1 .. 2, RefuseCode(q, n)
      PROVE  IInv'
  BY <1>7, Finishing DEF RefuseCode, Wants, InProgress, At, Outcomes
<1>8. ASSUME NEW n \in 1 .. 2, LockInvite(q, n)
      PROVE  IInv'
  <2>1. InProgress(q) /\ Len(req[q].codes) = 2
    BY <1>8 DEF LockInvite, Wants, InProgress, At
  <2>2. CASE n = 2 /\ Sponsor[req[q].codes[1]] = Sponsor[req[q].codes[2]]
    BY <1>8, <2>1, <2>2, Finishing DEF LockInvite, Outcomes
  <2>3. CASE n = 1
    <3>1. Goto(q, "first")
      BY <1>8, <2>3 DEF LockInvite
    <3>2. Locked(q)' = {req[q].codes[1]}
      BY <1>0, <3>1 DEF Goto, TypeOK, Request, Locked, At
    <3> QED
      BY <1>8, <2>1, <2>3, <3>1, <3>2, GoingOn DEF LockInvite, Phases
  <2>4. CASE n = 2 /\ Sponsor[req[q].codes[1]] # Sponsor[req[q].codes[2]]
    <3>1. Goto(q, "second") /\ At(q, "first")
      BY <1>8, <2>4 DEF LockInvite, Wants
    <3>2. req'[q].codes = req[q].codes /\ req'[q].pc = "second"
      BY <1>0, <3>1 DEF Goto, TypeOK, Request
    <3>3. Locked(q)' = Codes(q) /\ Locked(q) = {req[q].codes[1]}
      BY <3>1, <3>2 DEF Locked, Codes, At
    <3>4. \A i \in Codes(q) : i = req[q].codes[1] \/ i = req[q].codes[2]
      BY <1>0, <2>1, TwoCodes
    <3> QED
      BY <1>8, <2>1, <2>4, <3>1, <3>3, <3>4, GoingOn DEF LockInvite, Phases
  <2> QED
    BY <2>2, <2>3, <2>4
<1> QED
  BY <1>1, <1>2, <1>3, <1>5, <1>6, <1>7, <1>8

\* A new request has done nothing yet.
LEMMA ArriveStep ==
    ASSUME IInv, NEW q \in Requests, NEW kind \in {"resident", "provider"},
           NEW codes \in CodeLists, NEW e \in Emails, Arrive(q, kind, codes, e)
    PROVE  IInv'
<1> USE DEF IInv
<1> DEFINE r == [kind |-> kind, codes |-> codes, email |-> e, pc |-> "arrived",
                 outcome |-> "none", failed |-> FALSE]
<1>1. codes \in Seq(Invites) /\ Len(codes) <= 2
  <2>1. CASE codes = <<>>
    BY <2>1
  <2>2. ASSUME NEW i \in Invites, codes = <<i>>
        PROVE  codes \in Seq(Invites) /\ Len(codes) <= 2
    BY <2>2
  <2>3. ASSUME NEW i \in Invites, NEW j \in Invites, codes = <<i, j>>
        PROVE  codes \in Seq(Invites) /\ Len(codes) <= 2
    BY <2>3
  <2> QED
    BY <2>1, <2>2, <2>3 DEF CodeLists
<1>2. r \in Request
  BY <1>1 DEF Request, Phases, Outcomes
<1>3. /\ req' \in [Requests -> Request] /\ req'[q] = r
      /\ \A p \in Requests \ {q} : req'[p] = req[p]
  BY <1>2 DEF Arrive, TypeOK
<1>4. req[q].outcome = "none" /\ Course(q) /\ Traces(q)
  BY DEF Arrive, Course, At, TypeOK, Request, Outcomes
<1>5. Locked(q)' = {}
  BY <1>3 DEF Locked, At
<1>0. ~Entered(q) /\ ~Entered(q)'
  BY <1>4 DEF Traces, Entered, Arrive
<1>6. Course(q)'
  BY <1>0, <1>3, <1>5 DEF Course, Arrive
<1>7. Traces(q)'
  BY <1>0, <1>3, <1>4 DEF Traces, SpentOn, Entered, Arrive
<1>8. UNCHANGED <<invites, accounts>>
  BY DEF Arrive
<1> QED
  BY <1>1, <1>3, <1>5, <1>6, <1>7, <1>8, OthersStay

\* Invites and accounts that change otherwise: nobody's course depends on
\* whether an invite is open, nor on who has been approved.
LEMMA TablesStep ==
    ASSUME IInv, (\E i \in Invites : CreateInvite(i) \/ Expire(i)) \/ (\E e \in Emails : Approve(e))
    PROVE  IInv'
<1> USE DEF IInv
<1>1. UNCHANGED req
  BY DEF CreateInvite, Expire, Approve
<1>2. \A q \in Requests : Locked(q)' = Locked(q) /\ Codes(q)' = Codes(q)
  BY <1>1 DEF Locked, Codes, At
<1>3. invites \in [Invites -> Invite] /\ accounts \in [Emails -> Account]
  BY DEF TypeOK
<1>4. /\ invites' \in [Invites -> Invite]
      /\ \A i \in Invites : invites'[i].usedBy = invites[i].usedBy
  BY <1>3 DEF CreateInvite, Expire, Approve, Invite
<1>5. /\ accounts' \in [Emails -> Account]
      /\ \A e \in Emails :
            /\ accounts'[e].owner = accounts[e].owner /\ accounts'[e].deleted = accounts[e].deleted
            /\ \/ accounts'[e].how = accounts[e].how
               \/ accounts[e].how = "waiting" /\ accounts'[e].how = "approved"
  BY <1>3 DEF CreateInvite, Expire, Approve, Account
<1>6. TypeOK' /\ Exclusive'
  BY <1>1, <1>2, <1>4, <1>5 DEF TypeOK, Exclusive, At
<1>7. ASSUME NEW q \in Requests
      PROVE  Course(q)' /\ Traces(q)'
  <2>1. Course(q) /\ Traces(q) /\ req[q] \in Request
    BY DEF TypeOK
  <2>2. \A i \in Locked(q) : i \in Invites
    <3>1. req[q].codes \in Seq(Invites)
      BY <2>1 DEF Request
    <3>2. At(q, "first") => Len(req[q].codes) = 2
      BY <2>1 DEF Course, At
    <3> QED
      BY <3>1, <3>2 DEF Locked, Codes
  <2>3. req[q].email \in Emails \/ req[q].pc = "new"
    BY <2>1 DEF Course
  <2>0. Entered(q)' <=> Entered(q)
    BY <1>5 DEF Entered
  <2>4. Course(q)'
    BY <1>1, <1>2, <1>4, <1>5, <2>0, <2>1, <2>2, <2>3 DEF Course
  <2>6. Entered(q) => req[q].email \in Emails
    BY <2>1 DEF Traces, Entered
  <2>5. Traces(q)'
    BY <1>1, <1>2, <1>4, <1>5, <2>0, <2>1, <2>6 DEF Traces, SpentOn
  <2> QED
    BY <2>4, <2>5
<1> QED
  BY <1>6, <1>7

\* The commit gives the e-mail and the invites to the newcomer, and nobody else
\* had them.
LEMMA CommitStep ==
    ASSUME IInv, NEW q \in Requests, Commit(q)
    PROVE  IInv'
<1> USE DEF IInv
<1> DEFINE email == req[q].email
           account == accounts'[email]
<1>1. /\ req[q] \in Request /\ req[q].codes \in Seq(Invites) /\ email \in Emails
      /\ Len(req[q].codes) \in Nat
      /\ req[q].codes = <<>> \/ Len(req[q].codes) = 2
      /\ Course(q) /\ Traces(q) /\ req[q].outcome = "none"
      /\ accounts[email].how = "none"
  BY DEF TypeOK, Request, Course, Commit, At, Outcomes
<1>2. PICK o \in {"ok", "error"} :
         \/ o = "ok" /\ Finish(q, o)
         \/ o = "error" /\ Break(q) /\ o = FailureOf(q)
  <2>1. FailureOf(q) = "error"
    BY DEF Commit, FailureOf, Wants, At
  <2> QED
    BY <2>1 DEF Commit
<1>15. "done" \in Phases /\ {"ok", "error"} \subseteq Outcomes
  BY DEF Phases, Outcomes
<1>3. /\ req' \in [Requests -> Request]
      /\ \A p \in Requests \ {q} : req'[p] = req[p]
      /\ req'[q].pc = "done" /\ req'[q].outcome = o /\ (o = "error" => req'[q].failed)
      /\ req'[q].kind = req[q].kind /\ req'[q].codes = req[q].codes
      /\ req'[q].email = email
  BY <1>2, <1>15, OneRequest
<1>4. /\ accounts' \in [Emails -> Account]
      /\ account.owner = q /\ ~account.deleted
      /\ account.how \in (IF req[q].codes = <<>> THEN {"provider", "waiting"} ELSE {"sponsored"})
      /\ \A e \in Emails \ {email} : accounts'[e] = accounts[e]
  <2> DEFINE new == [owner |-> q,
                     how |-> IF req[q].kind = "provider" THEN "provider"
                             ELSE IF req[q].codes = <<>> THEN "waiting" ELSE "sponsored",
                     deleted |-> FALSE]
  <2>1. /\ new \in Account /\ new.owner = q /\ ~new.deleted
        /\ new.how \in (IF req[q].codes = <<>> THEN {"provider", "waiting"} ELSE {"sponsored"})
    BY <1>1 DEF Account, Course
  <2>2. accounts' = [accounts EXCEPT ![email] = new] /\ accounts \in [Emails -> Account]
    BY DEF Commit, TypeOK
  <2> HIDE DEF new
  <2> QED
    BY <1>1, <2>1, <2>2
<1>5. Locked(q) = Codes(q)
  BY DEF Commit, Locked, At
<1>6. /\ invites' \in [Invites -> Invite]
      /\ \A i \in Invites : invites'[i].usedBy = IF i \in Codes(q) THEN q ELSE invites[i].usedBy
  <2>1. invites' = [i \in Invites |-> IF i \in Codes(q) THEN [invites[i] EXCEPT !.usedBy = q]
                                                        ELSE invites[i]]
    BY DEF Commit
  <2>2. \A i \in Invites : /\ invites[i] \in Invite
                           /\ [invites[i] EXCEPT !.usedBy = q] \in Invite
                           /\ [invites[i] EXCEPT !.usedBy = q].usedBy = q
    BY DEF TypeOK, Invite
  <2> QED
    BY <2>1, <2>2
<1>7. \A p \in Requests \ {q} : Locked(p)' = Locked(p) /\ Codes(p)' = Codes(p)
  BY <1>3 DEF Locked, Codes, At
<1>8. Locked(q)' = {} /\ Codes(q)' = Codes(q)
  BY <1>3 DEF Locked, Codes, At
<1>9. \A i \in Codes(q) : i \in Invites /\ invites[i].usedBy = None
  <2>1. \A i \in Codes(q) : i \in Invites
    BY <1>1 DEF Codes
  <2> QED
    BY <1>1, <1>5, <2>1 DEF Course
<1>10. TypeOK'
  BY <1>3, <1>4, <1>6 DEF TypeOK
<1>11. Exclusive'
  BY <1>3, <1>7, <1>8 DEF Exclusive, At
<1>0. Entered(q)' /\ ~Entered(q)
  BY <1>1, <1>4 DEF Traces, Entered
<1>12. Course(q)'
  BY <1>1, <1>3, <1>8 DEF Course, At, Commit
<1>13. Traces(q)'
  <2>1. \A e \in Emails : accounts'[e].owner = q => e = email
    BY <1>1, <1>4 DEF Traces
  <2>2. SpentOn(q) = {}
    BY <1>0, <1>1 DEF Traces
  <2>3. SpentOn(q)' = Codes(q)
    BY <1>6, <1>9, <2>2 DEF SpentOn
  <2> QED
    BY <1>0, <1>1, <1>3, <1>4, <1>8, <2>1, <2>3 DEF Traces
<1>14. ASSUME NEW p \in Requests \ {q}
       PROVE  Course(p)' /\ Traces(p)'
  <2>1. Course(p) /\ Traces(p) /\ req'[p] = req[p] /\ req[p] \in Request
    BY <1>3 DEF TypeOK
  <2>2. Locked(p) \cap Codes(q) = {}
    BY <1>5 DEF Exclusive
  <2>3. \A i \in Locked(p) : i \in Invites
    <3>1. req[p].codes \in Seq(Invites)
      BY <2>1 DEF Request
    <3>2. At(p, "first") => Len(req[p].codes) = 2
      BY <2>1 DEF Course, At
    <3> QED
      BY <3>1, <3>2 DEF Locked, Codes
  <2>4. req[p].pc = "inserted" => req[p].email # email
    BY DEF Exclusive, Commit, At
  <2>5. (req[p].pc = "duplicate" \/ req[p].outcome \in {"taken", "takenDeleted"}) =>
           req[p].email # email
    BY <1>1, <2>1 DEF Course
  <2>6. req[p].pc # "new" => req[p].email \in Emails
    BY <2>1 DEF Course
  <2>7. (req[p].pc \in {"inserted", "duplicate"} \/ req[p].outcome \in {"taken", "takenDeleted"}) =>
           accounts'[req[p].email] = accounts[req[p].email]
    <3>1. req[p].outcome # "none" => req[p].pc # "new"
      BY <2>1 DEF Course
    <3> QED
      BY <1>4, <2>4, <2>5, <2>6, <3>1
  <2>8. \A i \in Locked(p) : invites'[i].usedBy = None
    BY <1>6, <2>1, <2>2, <2>3 DEF Course
  <2>10. \A e \in Emails : accounts'[e].owner = p => accounts[e].owner = p
    BY <1>4
  <2>11. Entered(p) => /\ req[p].email \in Emails
                       /\ accounts'[req[p].email] = accounts[req[p].email]
    <3>1. Entered(p) => req[p].email \in Emails /\ accounts[req[p].email].how # "none"
      BY <2>1 DEF Traces, Entered
    <3> QED
      BY <1>1, <1>4, <3>1
  <2>14. Entered(p)' <=> Entered(p)
    BY <2>1, <2>10, <2>11 DEF Entered, Traces
  <2>9. Course(p)'
    BY <1>7, <2>1, <2>6, <2>7, <2>8, <2>14 DEF Course
  <2>12. SpentOn(p)' = SpentOn(p)
    BY <1>6, <1>9, RegistrationAssumption DEF SpentOn
  <2>13. Traces(p)'
    BY <1>7, <2>1, <2>10, <2>11, <2>12, <2>14 DEF Traces
  <2> QED
    BY <2>9, <2>13
<1> QED
  BY <1>10, <1>11, <1>12, <1>13, <1>14

\* Every step keeps the invariant.
LEMMA InvStep == IInv /\ [Next]_vars => IInv'
<1> SUFFICES ASSUME IInv, [Next]_vars PROVE IInv'
  OBVIOUS
<1>1. CASE UNCHANGED vars
  <2>1. UNCHANGED <<invites, accounts, req>>
    BY <1>1 DEF vars
  <2>2. \A q \in Requests : Locked(q)' = Locked(q) /\ Codes(q)' = Codes(q) /\ SpentOn(q)' = SpentOn(q)
    BY <2>1 DEF Locked, Codes, SpentOn, At
  <2>3. TypeOK' /\ Exclusive'
    BY <2>1, <2>2 DEF IInv, TypeOK, Exclusive, At
  <2>4. \A q \in Requests : Course(q)' /\ Traces(q)'
    BY <2>1, <2>2 DEF IInv, Course, Traces, Entered
  <2> QED
    BY <2>3, <2>4 DEF IInv
<1>2. CASE Next
  BY <1>2, ArriveStep, ServeStep, CommitStep, TablesStep DEF Next, Serve
<1> QED
  BY <1>1, <1>2

\* It holds before the first request.
LEMMA InvInit == Init => IInv
<1> SUFFICES ASSUME Init PROVE IInv
  OBVIOUS
<1>1. NewRequest \in Request /\ Len(NewRequest.codes) <= 2
  BY DEF NewRequest, Request, Phases, Outcomes
<1>2. \A q \in Requests : req[q] = NewRequest
  BY DEF Init
<1>3. \A q \in Requests : Locked(q) = {}
  BY <1>2 DEF Locked, At, NewRequest
<1>4. NoAccount \in Account /\ OlderAccount(FALSE) \in Account /\ OlderAccount(TRUE) \in Account
  BY DEF NoAccount, OlderAccount, Account
<1>5. \A e \in Emails : accounts[e] \in Account /\ accounts[e].owner = None
  <2>1. NoAccount.owner = None /\ \A d \in BOOLEAN : OlderAccount(d).owner = None
    BY DEF NoAccount, OlderAccount
  <2>2. \A e \in Emails : accounts[e] \in {NoAccount, OlderAccount(FALSE), OlderAccount(TRUE)}
    BY DEF Init
  <2> QED
    BY <1>4, <2>1, <2>2
<1>6. accounts \in [Emails -> Account]
  BY <1>4 DEF Init
<1>7. TypeOK
  BY <1>1, <1>6 DEF Init, TypeOK, Invite
<1>8. Exclusive
  BY <1>2, <1>3 DEF Exclusive, At, NewRequest
<1>9. ASSUME NEW q \in Requests PROVE Course(q) /\ Traces(q)
  <2>0. ~Entered(q)
    BY <1>5, RegistrationAssumption DEF Entered
  <2>1. Course(q)
    BY <1>2, <1>3, <2>0 DEF Course, NewRequest
  <2>2. SpentOn(q) = {}
    BY RegistrationAssumption DEF Init, SpentOn
  <2> QED
    BY <1>2, <1>5, <2>0, <2>1, <2>2, RegistrationAssumption DEF Traces, NewRequest
<1> QED
  BY <1>7, <1>8, <1>9 DEF IInv

-----------------------------------------------------------------------------
(* What follows.                                                           *)

\* Every variable keeps its type: an invite is spent on a request, and an
\* account belongs to one.
THEOREM TypeCorrect == Spec => []TypeOK
<1>1. IInv => TypeOK
  BY DEF IInv
<1> QED
  BY <1>1, InvInit, InvStep, PTL DEF Spec

\* However registrations overlap and fail, a resident is let in by invitation if
\* and only if two invites of different residents were spent on that resident
\* (service/auth.go:117-176).
THEOREM SponsoredTwice == Spec => []SponsoredByTwo
<1>1. IInv => SponsoredByTwo
  <2> SUFFICES ASSUME IInv, NEW q \in Requests
               PROVE  IF \E e \in Emails : accounts[e].owner = q /\ accounts[e].how = "sponsored"
                      THEN \E i, j \in Invites : SpentOn(q) = {i, j} /\ Sponsor[i] # Sponsor[j]
                      ELSE SpentOn(q) = {}
    BY DEF SponsoredByTwo
  <2>1. Course(q) /\ Traces(q) /\ req[q] \in Request /\ req[q].codes \in Seq(Invites)
    BY DEF IInv, TypeOK, Request
  <2>2. CASE Entered(q) /\ Len(req[q].codes) = 2
    <3>1. SpentOn(q) = {req[q].codes[1], req[q].codes[2]}
          /\ req[q].codes[1] \in Invites /\ req[q].codes[2] \in Invites
      BY <2>1, <2>2, TwoCodes DEF Traces
    <3>2. Sponsor[req[q].codes[1]] # Sponsor[req[q].codes[2]]
      BY <2>1, <2>2 DEF Course
    <3>3. accounts[req[q].email].owner = q /\ accounts[req[q].email].how = "sponsored"
      <4>1. Len(<<>>) = 0
        OBVIOUS
      <4>2. ASSUME req[q].codes = <<>> PROVE FALSE
        BY <2>2, <4>1, <4>2
      <4> QED
        BY <2>1, <2>2, <4>2 DEF Traces
    <3>4. req[q].email \in Emails
      BY <2>1, <2>2 DEF Traces, Entered
    <3> QED
      BY <3>1, <3>2, <3>3, <3>4
  <2>3. CASE ~(Entered(q) /\ Len(req[q].codes) = 2)
    <3>1. Entered(q) => req[q].codes = <<>>
      BY <2>1, <2>3 DEF Course
    <3>2. SpentOn(q) = {}
      BY <2>1, <3>1 DEF Traces, Codes
    <3>3. \A e \in Emails : accounts[e].owner = q => accounts[e].how # "sponsored"
      BY <2>1, <3>1 DEF Traces, Entered
    <3> QED
      BY <3>2, <3>3
  <2> QED
    BY <2>2, <2>3
<1> QED
  BY <1>1, InvInit, InvStep, PTL DEF Spec

\* What a newcomer is told is so, as far as it goes: that the e-mail is somebody
\* else's, that its account can be reactivated, that the registration succeeded;
\* and an account that nobody was told of is that of a lost confirmation
\* (service/auth.go:165, 223, 240-248, handler/auth.go:59-66).
THEOREM AnswersAreTrue == Spec => []AnswerMatchesAccount
<1>1. IInv => AnswerMatchesAccount
  <2> SUFFICES ASSUME IInv PROVE AnswerMatchesAccount
    OBVIOUS
  <2>1. ASSUME NEW q \in Requests
        PROVE  /\ req[q].outcome \in {"taken", "takenDeleted"} =>
                     accounts[req[q].email].how # "none" /\ accounts[req[q].email].owner # q
               /\ req[q].outcome = "takenDeleted" => accounts[req[q].email].deleted
               /\ req[q].outcome = "taken" => ~accounts[req[q].email].deleted \/ req[q].failed
               /\ Entered(q) =>
                     /\ {e \in Emails : accounts[e].owner = q} = {req[q].email}
                     /\ req[q].outcome = "ok" \/ (req[q].outcome = "error" /\ req[q].failed)
               /\ req[q].outcome = "ok" => Entered(q)
    <3>1. Course(q) /\ Traces(q)
      BY DEF IInv
    <3>2. req[q].outcome # "none" => req[q].email \in Emails
      BY <3>1 DEF Course
    <3> QED
      BY <3>1, <3>2 DEF Course, Traces, Entered
  <2> QED
    BY <2>1 DEF AnswerMatchesAccount, Entered
<1> QED
  BY <1>1, InvInit, InvStep, PTL DEF Spec

\* An invite stays with the newcomer it let in: to commit, a registration holds
\* the locks of its invites, and those are unspent.
THEOREM InvitesAreSpentOnce == Spec => InviteSpentOnce
<1>1. ASSUME IInv, [Next]_vars
      PROVE  [\A i \in Invites :
                 invites[i].usedBy # None => invites'[i].usedBy = invites[i].usedBy]_vars
  <2>1. ASSUME NEW q \in Requests, Commit(q), NEW i \in Invites, invites[i].usedBy # None
        PROVE  invites'[i].usedBy = invites[i].usedBy
    <3>1. i \notin Codes(q)
      BY <1>1, <2>1 DEF IInv, Course, Commit, Locked, At
    <3> QED
      BY <2>1, <3>1 DEF Commit
  <2>2. ASSUME NEW i \in Invites, CreateInvite(i) \/ Expire(i), NEW j \in Invites
        PROVE  invites'[j].usedBy = invites[j].usedBy
    <3>1. invites \in [Invites -> Invite]
      BY <1>1 DEF IInv, TypeOK
    <3> QED
      BY <2>2, <3>1 DEF CreateInvite, Expire, Invite
  <2>3. ASSUME NEW q \in Requests,
               \/ Begin(q) \/ RefuseIncomplete(q) \/ AbortDeadlocked(q)
               \/ InsertUser(q) \/ AskReason(q) \/ Fail(q)
               \/ \E n \in 1 .. 2 : LockInvite(q, n) \/ RefuseCode(q, n)
               \/ \E kind \in {"resident", "provider"}, codes \in CodeLists, e \in Emails :
                     Arrive(q, kind, codes, e)
        PROVE  UNCHANGED invites
    BY <2>3 DEF Begin, RefuseIncomplete, AbortDeadlocked, InsertUser, AskReason, Fail,
                LockInvite, RefuseCode, Arrive
  <2>4. ASSUME NEW e \in Emails, Approve(e)
        PROVE  UNCHANGED invites
    BY <2>4 DEF Approve
  <2> QED
    BY <1>1, <2>1, <2>2, <2>3, <2>4 DEF Next, Serve
<1> QED
  BY <1>1, InvInit, InvStep, PTL DEF Spec, InviteSpentOnce

\* The commit is an admission; everything else that a registration does is
\* invisible to the club.
LEMMA CommitAdmits ==
    ASSUME IInv, NEW q \in Requests, Commit(q)
    PROVE  Club!Next
<1> DEFINE email == req[q].email
           own == [e \in Emails |-> accounts[e].owner]
           how == [e \in Emails |-> accounts[e].how]
           spent == [i \in Invites |-> invites[i].usedBy]
<1>1. /\ Course(q) /\ req[q] \in Request /\ req[q].codes \in Seq(Invites) /\ email \in Emails
      /\ req[q].codes = <<>> \/ Len(req[q].codes) = 2
      /\ accounts[email].how = "none" /\ Locked(q) = Codes(q)
  BY DEF IInv, TypeOK, Request, Course, Commit, At, Locked
<1> DEFINE new == IF req[q].kind = "provider" THEN "provider"
                  ELSE IF req[q].codes = <<>> THEN "waiting" ELSE "sponsored"
<1>2. own' = [own EXCEPT ![email] = q] /\ how' = [how EXCEPT ![email] = new]
  <2>1. accounts' = [accounts EXCEPT ![email] = [owner |-> q, how |-> new, deleted |-> FALSE]]
        /\ accounts \in [Emails -> Account]
    BY DEF Commit, IInv, TypeOK
  <2>2. \A e \in Emails : /\ accounts'[e].owner = IF e = email THEN q ELSE accounts[e].owner
                          /\ accounts'[e].how = IF e = email THEN new ELSE accounts[e].how
    BY <1>1, <2>1
  <2> QED
    BY <2>2
<1>3. \A i \in Invites : invites'[i].usedBy = IF i \in Codes(q) THEN q ELSE invites[i].usedBy
  <2>1. invites' = [i \in Invites |-> IF i \in Codes(q) THEN [invites[i] EXCEPT !.usedBy = q]
                                                        ELSE invites[i]]
    BY DEF Commit
  <2>2. \A i \in Invites : [invites[i] EXCEPT !.usedBy = q].usedBy = q
    BY DEF IInv, TypeOK, Invite
  <2> QED
    BY <2>1, <2>2
<1>4. how[email] = "none"
  BY <1>1
<1>5. CASE req[q].codes = <<>>
  <2>1. new \in {"waiting", "provider"}
    BY <1>5
  <2>2. UNCHANGED spent
    BY <1>3, <1>5 DEF Codes
  <2>3. Club!Unsponsored(q, email, new)
    BY <1>2, <1>4, <2>1, <2>2 DEF Club!Unsponsored, Club!Register, Club!Free
  <2>4. new \in Club!Standings
    BY <2>1 DEF Club!Standings
  <2> QED
    BY <1>1, <2>3, <2>4 DEF Club!Next
<1>6. CASE Len(req[q].codes) = 2
  <2>1. PICK i, j \in Invites : Codes(q) = {i, j} /\ Sponsor[i] # Sponsor[j]
    <3>1. Sponsor[req[q].codes[1]] # Sponsor[req[q].codes[2]]
      BY <1>1, <1>6 DEF Course, Commit, At
    <3> QED
      BY <1>1, <1>6, <3>1, TwoCodes
  <2>2. Sponsor[i] # Sponsor[j]
    BY <2>1
  <2>3. spent[i] = None /\ spent[j] = None
    BY <1>1, <2>1 DEF Course
  <2>4. spent' = [spent EXCEPT ![i] = q, ![j] = q]
    BY <1>3, <2>1
  <2>5. new = "sponsored"
    BY <1>1, <1>6 DEF Course
  <2>6. Club!Sponsored(q, email, i, j)
    BY <1>2, <1>4, <2>2, <2>3, <2>4, <2>5 DEF Club!Sponsored, Club!Register, Club!Free
  <2> QED
    BY <1>1, <2>6 DEF Club!Next
<1> QED
  BY <1>1, <1>5, <1>6

\* An approval is an approval of the club.
LEMMA ApproveApproves ==
    ASSUME TypeOK, NEW e \in Emails, Approve(e)
    PROVE  Club!Next
<1>1. /\ accounts[e].how = "waiting" /\ UNCHANGED invites
      /\ accounts' = [accounts EXCEPT ![e].how = "approved"] /\ accounts \in [Emails -> Account]
  BY DEF Approve, TypeOK
<1>2. \A d \in Emails : /\ accounts'[d].owner = accounts[d].owner
                        /\ accounts'[d].how = IF d = e THEN "approved" ELSE accounts[d].how
  BY <1>1 DEF Account
<1>3. Club!Approve(e)
  BY <1>1, <1>2 DEF Club!Approve
<1> QED
  BY <1>3 DEF Club!Next

\* The club sees owners, standings and whom the invites let in: nothing else
\* that a request does changes them.
LEMMA UnseenByTheClub ==
    ASSUME TypeOK,
           \/ \E i \in Invites : CreateInvite(i) \/ Expire(i)
           \/ UNCHANGED <<invites, accounts>>
    PROVE  UNCHANGED Club!vars
<1>1. \A i \in Invites : invites'[i].usedBy = invites[i].usedBy
  BY DEF CreateInvite, Expire, TypeOK, Invite
<1>2. UNCHANGED accounts
  BY DEF CreateInvite, Expire
<1> QED
  BY <1>1, <1>2 DEF Club!vars

\* The transactions of registration, whatever overlaps and fails, act as single
\* steps: an e-mail is bound for ever, and to be let in is to spend two invites.
THEOREM AdmissionImplemented == Spec => ImplementsAdmission
<1>1. Init => Club!Init
  <2> SUFFICES ASSUME Init PROVE Club!Init
    OBVIOUS
  <2>1. \A e \in Emails : accounts[e].owner = None /\ accounts[e].how \in {"none", "older"}
    <3>1. /\ NoAccount.owner = None /\ NoAccount.how = "none"
          /\ \A d \in BOOLEAN : OlderAccount(d).owner = None /\ OlderAccount(d).how = "older"
      BY DEF NoAccount, OlderAccount
    <3>2. \A e \in Emails : accounts[e] \in {NoAccount, OlderAccount(FALSE), OlderAccount(TRUE)}
      BY DEF Init
    <3> QED
      BY <3>1, <3>2
  <2> QED
    BY <2>1 DEF Init, Club!Init
<1>2. IInv /\ [Next]_vars => [Club!Next]_(Club!vars)
  <2> SUFFICES ASSUME IInv, [Next]_vars PROVE Club!Next \/ UNCHANGED Club!vars
    OBVIOUS
  <2>1. TypeOK
    BY DEF IInv
  <2>2. ASSUME NEW q \in Requests,
               \/ Begin(q) \/ RefuseIncomplete(q) \/ AbortDeadlocked(q)
               \/ InsertUser(q) \/ AskReason(q) \/ Fail(q)
               \/ \E n \in 1 .. 2 : LockInvite(q, n) \/ RefuseCode(q, n)
               \/ \E kind \in {"resident", "provider"}, codes \in CodeLists, e \in Emails :
                     Arrive(q, kind, codes, e)
        PROVE  UNCHANGED <<invites, accounts>>
    BY <2>2 DEF Begin, RefuseIncomplete, AbortDeadlocked, InsertUser, AskReason, Fail,
                LockInvite, RefuseCode, Arrive
  <2>3. CASE UNCHANGED vars
    BY <2>1, <2>3, UnseenByTheClub DEF vars
  <2>4. CASE Next
    BY <2>1, <2>2, <2>4, CommitAdmits, ApproveApproves, UnseenByTheClub DEF Next, Serve
  <2> QED
    BY <2>3, <2>4
<1> QED
  BY <1>1, <1>2, InvInit, InvStep, PTL DEF Spec, ImplementsAdmission, Club!Spec

-----------------------------------------------------------------------------
(* Waiting: for invites and e-mails that others hold, and for connections. *)

\* The guards of Serve: what the server or PostgreSQL can do for a request now.
Served(q) ==
    \/ At(q, "arrived") /\ FreeConnections > 0
    \/ At(q, "begun") /\ Len(req[q].codes) = 1
    \/ \E n \in 1 .. 2 : Wants(q, n) /\ (Usable(req[q].codes[n]) => ~LockedByOther(q, req[q].codes[n]))
    \/ Ready(q) /\ ~BeingInserted(q)
    \/ At(q, "inserted")
    \/ At(q, "duplicate") /\ FreeConnections > 0
    \/ InCycle(q)

\* Nobody gets a connection, and one who holds a connection asks for a second.
Exhausted == FreeConnections <= 0 /\ \E q \in Requests : At(q, "duplicate")

\* Of the sets that a property singles out one has no smaller among them.
LEMMA SmallestOf ==
    ASSUME NEW S, IsFiniteSet(S), NEW B \in SUBSET SUBSET S, B # {}
    PROVE  \E T \in B : \A U \in B : U \subseteq T => U = T
<1>1. FiniteSubsetsOf(S) = SUBSET S
  BY FS_FiniteSubsetsOfFinite
<1>2. IsWellFoundedOn(StrictSubsetOrdering(S), SUBSET S)
  BY <1>1, FS_StrictSubsetOrderingWellFounded
<1>3. PICK T \in B : \A U \in B : ~(<<U, T>> \in StrictSubsetOrdering(S))
  BY <1>2, WFMin
<1> QED
  BY <1>3 DEF StrictSubsetOrdering

\* Requests that all wait for one another are a circle, or have one among them:
\* a smallest set of them has nobody for whom nobody waits.
LEMMA WaitersHaveACircle ==
    ASSUME NEW W \in SUBSET Requests, W # {},
           \A p \in W : \E r \in W : r \in WaitsFor(p)
    PROVE  \E q \in W : InCycle(q)
<1> DEFINE B == {S \in SUBSET W : S # {} /\ \A p \in S : \E r \in S : r \in WaitsFor(p)}
<1>1. IsFiniteSet(W)
  BY FS_Subset, RegistrationAssumption
<1>2. PICK T \in B : \A U \in B : U \subseteq T => U = T
  <2>1. B \in SUBSET SUBSET W /\ W \in B
    OBVIOUS
  <2> HIDE DEF B
  <2> QED
    BY <1>1, <2>1, SmallestOf
<1>3. T \in SUBSET W /\ T # {} /\ \A p \in T : \E r \in T : r \in WaitsFor(p)
  BY <1>2
<1>4. \A p \in T : \E r \in T : p \in WaitsFor(r)
  <2> SUFFICES ASSUME NEW p \in T, \A r \in T : p \notin WaitsFor(r) PROVE FALSE
    OBVIOUS
  <2>1. PICK r \in T : r \in WaitsFor(p)
    BY <1>3
  <2>2. r # p
    BY <2>1
  <2>3. T \ {p} \in B
    BY <1>3, <2>1, <2>2
  <2> QED
    BY <1>2, <2>3
<1>5. PICK q \in T : TRUE
  BY <1>3
<1> QED
  BY <1>3, <1>4, <1>5 DEF InCycle

\* Who waits for a row or a key waits for one who holds a connection, as the
\* deadlock detector sees it.
LEMMA WaitsForAHolder ==
    ASSUME IInv, NEW q \in Requests, ~Served(q), HoldsConnection(q), ~At(q, "duplicate"),
           \A p \in Requests : ~At(p, "inserted")
    PROVE  \E p \in Requests : HoldsConnection(p) /\ p \in WaitsFor(q)
<1>1. req[q] \in Request /\ req[q].codes \in Seq(Invites) /\ Len(req[q].codes) <= 2 /\ Course(q)
  BY DEF IInv, TypeOK, Request
<1>2. req[q].pc \in {"begun", "first", "second"}
  BY <1>1 DEF HoldsConnection, InProgress, At, Request, Phases
<1>3. ~Ready(q)
  BY DEF Served, BeingInserted, Others
<1>4. Len(req[q].codes) = 2 /\ req[q].pc \in {"begun", "first"}
  <2>1. Len(req[q].codes) \in {0, 1, 2} /\ (Len(req[q].codes) = 0 => req[q].codes = <<>>)
    <3>1. \A s \in Seq(Invites) : Len(s) \in Nat /\ (Len(s) = 0 => s = <<>>)
      OBVIOUS
    <3>2. Len(req[q].codes) \in Nat /\ (Len(req[q].codes) = 0 => req[q].codes = <<>>)
      BY <1>1, <3>1
    <3>3. \A k \in Nat : k <= 2 => k \in {0, 1, 2}
      OBVIOUS
    <3>4. Len(req[q].codes) <= 2
      BY <1>1
    <3> QED
      BY <3>2, <3>3, <3>4
  <2>2. Len(req[q].codes) # 1 \/ ~At(q, "begun")
    BY DEF Served
  <2> QED
    BY <1>1, <1>2, <1>3, <2>1, <2>2 DEF Course, Ready, At
<1>5. PICK n \in 1 .. 2 : Wants(q, n)
  BY <1>4 DEF Wants, At
<1>6. Usable(req[q].codes[n]) /\ LockedByOther(q, req[q].codes[n])
  BY <1>5 DEF Served
<1>7. PICK p \in Others(q) : req[q].codes[n] \in Locked(p)
  BY <1>6 DEF LockedByOther
<1>8. p \in WaitsFor(q)
  BY <1>5, <1>6, <1>7 DEF WaitsFor
<1>9. HoldsConnection(p)
  BY <1>7 DEF Locked, HoldsConnection, InProgress, At
<1> QED
  BY <1>7, <1>8, <1>9 DEF Others

\* Somebody is served, or the pool is exhausted.
LEMMA ServedOrExhausted ==
    ASSUME IInv, NEW q \in Requests, InProgress(q), \A p \in Requests : ~Served(p)
    PROVE  Exhausted
<1> DEFINE W == {p \in Requests : HoldsConnection(p)}
<1>1. IsFiniteSet(W) /\ Cardinality(W) \in Nat
  BY FS_Subset, FS_CardinalityType, RegistrationAssumption
<1>2. FreeConnections = Conns - Cardinality(W) /\ Conns \in Nat /\ Conns > 0
  BY RegistrationAssumption DEF FreeConnections
<1>3. \A p \in Requests : ~At(p, "inserted")
  BY DEF Served
<1>4. \E p \in Requests : At(p, "duplicate")
  <2> SUFFICES ASSUME \A p \in Requests : ~At(p, "duplicate") PROVE FALSE
    OBVIOUS
  <2>1. \A p \in W : \E r \in W : r \in WaitsFor(p)
    BY <1>3, WaitsForAHolder
  <2>2. W = {}
    <3>1. W \in SUBSET Requests /\ \A p \in W : ~InCycle(p)
      BY DEF Served
    <3> HIDE DEF W
    <3> QED
      BY <2>1, <3>1, WaitersHaveACircle
  <2>3. FreeConnections > 0
    <3>1. Cardinality(W) = 0
      BY <2>2, FS_EmptySet
    <3> HIDE DEF W
    <3> QED
      BY <1>2, <3>1
  <2>4. At(q, "arrived")
    BY <2>2 DEF HoldsConnection
  <2> QED
    BY <2>3, <2>4 DEF Served
<1>5. ~(FreeConnections > 0)
  BY <1>4 DEF Served
<1> HIDE DEF W
<1> QED
  BY <1>1, <1>2, <1>4, <1>5 DEF Exhausted

\* Registrations wait for rows, for keys and for connections, and lock invites in
\* whatever order they were typed.  While one is in progress one is served, if
\* only by the deadlock detector, unless the pool is exhausted and one of those
\* who hold a connection wants a second to say why its e-mail is refused
\* (service/auth.go:121, 141).
THEOREM OnlyThePoolBlocks ==
    Spec => []((\E q \in Requests : InProgress(q)) => (\E q \in Requests : Served(q)) \/ Exhausted)
<1>1. IInv => ((\E q \in Requests : InProgress(q)) => (\E q \in Requests : Served(q)) \/ Exhausted)
  BY ServedOrExhausted
<1> QED
  BY <1>1, InvInit, InvStep, PTL DEF Spec
=============================================================================
