---------------------------- MODULE Registration ----------------------------
(***************************************************************************)
(* Registration of residents and providers: the invites a resident brings, *)
(* the e-mail, unique in the community, and the database connections that  *)
(* the requests hold while they wait for one another.                      *)
(*                                                                         *)
(*   resident   POST /auth/register/morador    AuthService.RegisterMorador *)
(*   provider   POST /auth/register/prestador  .RegisterPrestador          *)
(*                                                                         *)
(* A request takes a connection of the pool for its transaction, locks the *)
(* invites (SELECT ... FOR UPDATE) in the order in which their codes were  *)
(* typed, then inserts the user, whose e-mail is a unique key.  If that    *)
(* fails with a duplicate it asks for a second connection to learn why,    *)
(* its own and its locks still held until the deferred rollback.           *)
(*                                                                         *)
(* PostgreSQL is modelled as READ COMMITTED: an uncommitted row is seen by *)
(* nobody else, a locked invite and a key being inserted make others wait, *)
(* and one transaction of a cycle of waits is aborted.                     *)
(***************************************************************************)
EXTENDS Naturals, FiniteSets, Sequences

CONSTANTS
    Requests,     \* identities of requests; also the accounts they create
    Invites,      \* the invites that residents create
    Sponsor,      \* Sponsor[i]: the resident who creates invite i
    Emails,       \* the addresses newcomers register with
    Conns,        \* size of the connection pool
    MaxInFlight,  \* bound on requests in progress at the same time
    Failures,     \* whether a request may fail half way
    None          \* no value

ASSUME RegistrationAssumption ==
    /\ IsFiniteSet(Requests)
    /\ Conns \in Nat \ {0}
    /\ MaxInFlight \in Nat
    /\ Failures \in BOOLEAN
    /\ None \notin Requests

VARIABLES
    invites,   \* the invites rows: whether open to be used, and used_by
    accounts,  \* the users row of each e-mail
    req        \* what each request is doing

vars == <<invites, accounts, req>>

-----------------------------------------------------------------------------
(* State.                                                                  *)

\* open: created, and its 72 hours not over.  A resident who creates another
\* invite once one has expired is given the same name for it.
Invite == [open : BOOLEAN, usedBy : Requests \cup {None}]

\* how the account came to be: status and verified_resident follow from it.
\* An older account may have been deleted; its row stays (see Sessions).
Account == [owner   : Requests \cup {None},
            how     : {"none", "older", "provider", "waiting", "approved", "sponsored"},
            deleted : BOOLEAN]

NoAccount == [owner |-> None, how |-> "none", deleted |-> FALSE]
OlderAccount(d) == [owner |-> None, how |-> "older", deleted |-> d]

\* arrived -> begun -> first -> second -> inserted -> done, or -> duplicate
Phases == {"new", "arrived", "begun", "first", "second", "inserted", "duplicate", "done"}

Outcomes == {"none", "ok", "incomplete", "invalidCode", "sameSponsor",
             "taken", "takenDeleted", "error"}

\* failed is history: whether the answer is that of a statement that failed.
Request == [kind : {"resident", "provider"}, codes : Seq(Invites), email : Emails \cup {None},
            pc : Phases, outcome : Outcomes, failed : BOOLEAN]

NewRequest == [kind |-> "resident", codes |-> <<>>, email |-> None,
               pc |-> "new", outcome |-> "none", failed |-> FALSE]

TypeOK ==
    /\ invites \in [Invites -> Invite]
    /\ accounts \in [Emails -> Account]
    /\ req \in [Requests -> Request]
    /\ \A q \in Requests : Len(req[q].codes) <= 2

Init ==
    /\ invites = [i \in Invites |-> [open |-> FALSE, usedBy |-> None]]
    /\ accounts \in [Emails -> {NoAccount, OlderAccount(FALSE), OlderAccount(TRUE)}]
    /\ req = [q \in Requests |-> NewRequest]

At(q, phase) == req[q].pc = phase
InProgress(q) == req[q].pc \notin {"new", "done"}

Goto(q, phase) == req' = [req EXCEPT ![q].pc = phase]
Finish(q, outcome) ==
    req' = [req EXCEPT ![q] = [@ EXCEPT !.pc = "done", !.outcome = outcome]]

\* The connection of the transaction is released by its commit or rollback.
HoldsConnection(q) == InProgress(q) /\ ~At(q, "arrived")
FreeConnections == Conns - Cardinality({q \in Requests : HoldsConnection(q)})

\* Rows this transaction has locked or inserted.
Codes(q) == {req[q].codes[n] : n \in DOMAIN req[q].codes}
Locked(q) == IF At(q, "first") THEN {req[q].codes[1]}
             ELSE IF req[q].pc \in {"second", "inserted", "duplicate"} THEN Codes(q)
             ELSE {}

Others(q) == Requests \ {q}
LockedByOther(q, i) == \E p \in Others(q) : i \in Locked(p)
BeingInserted(q) == \E p \in Others(q) : At(p, "inserted") /\ req[p].email = req[q].email

\* WHERE used_at IS NULL AND expires_at > now(), on the committed row.
Usable(i) == invites[i].open /\ invites[i].usedBy = None

\* The code a resident's request has to lock next: the first, the second or none.
Ready(q) == \/ At(q, "second")
            \/ At(q, "begun") /\ req[q].codes = <<>>
Wants(q, n) == Len(req[q].codes) = 2 /\ At(q, IF n = 1 THEN "begun" ELSE "first")

\* The requests q waits for, as PostgreSQL's deadlock detector sees them.
WaitsFor(q) ==
    {p \in Others(q) :
        \/ \E n \in 1 .. 2 : Wants(q, n) /\ Usable(req[q].codes[n])
                                         /\ req[q].codes[n] \in Locked(p)
        \/ Ready(q) /\ At(p, "inserted") /\ req[p].email = req[q].email}

\* How a request is answered when its next statement fails: lockInvite and
\* emailTakenReason give every error one meaning.
FailureOf(q) ==
    CASE \E n \in 1 .. 2 : Wants(q, n) -> "invalidCode"
      [] At(q, "duplicate") -> "taken"
      [] OTHER -> "error"

Break(q) ==
    req' = [req EXCEPT ![q] = [@ EXCEPT !.pc = "done", !.outcome = FailureOf(q), !.failed = TRUE]]

\* q is one of a set of requests that wait for one another in a circle.
InCycle(q) ==
    \E S \in SUBSET Requests :
        /\ q \in S
        /\ \A p \in S : \E r \in S : r \in WaitsFor(p)
        /\ \A p \in S : \E r \in S : p \in WaitsFor(r)

-----------------------------------------------------------------------------
(* Variants with a defect, for the sensitivity of the properties.          *)

\* The e-mail is not a unique key.
InsertUserUnchecked(q) ==
    /\ Ready(q)
    /\ Goto(q, "inserted")
    /\ UNCHANGED <<invites, accounts>>

\* SELECT without FOR UPDATE.
LockInviteWithoutLock(q, n) ==
    /\ Wants(q, n) /\ Usable(req[q].codes[n])
    /\ IF n = 2 /\ Sponsor[req[q].codes[1]] = Sponsor[req[q].codes[2]]
       THEN Finish(q, "sameSponsor")
       ELSE Goto(q, IF n = 1 THEN "first" ELSE "second")
    /\ UNCHANGED <<invites, accounts>>

\* The two codes may come from one resident.
LockInviteOfAnyone(q, n) ==
    /\ Wants(q, n) /\ Usable(req[q].codes[n])
    /\ ~LockedByOther(q, req[q].codes[n])
    /\ Goto(q, IF n = 1 THEN "first" ELSE "second")
    /\ UNCHANGED <<invites, accounts>>

\* The reason is not looked up.
AskNoReason(q) ==
    /\ At(q, "duplicate") /\ FreeConnections > 0
    /\ Finish(q, "taken")
    /\ UNCHANGED <<invites, accounts>>

\* A wait in a circle is not broken.
AbortNobody(q) == FALSE /\ UNCHANGED vars

-----------------------------------------------------------------------------
(* Arrival; the password has been hashed before the transaction begins.    *)

Arrive(q, kind, codes, e) ==
    /\ At(q, "new")
    /\ Cardinality({p \in Requests : InProgress(p)}) < MaxInFlight
    /\ kind = "provider" => codes = <<>>
    /\ req' = [req EXCEPT ![q] = [kind |-> kind, codes |-> codes, email |-> e,
                                  pc |-> "arrived", outcome |-> "none", failed |-> FALSE]]
    /\ UNCHANGED <<invites, accounts>>

\* db.Begin: waits for a connection of the pool.
Begin(q) ==
    /\ At(q, "arrived") /\ FreeConnections > 0
    /\ Goto(q, "begun")
    /\ UNCHANGED <<invites, accounts>>

RefuseIncomplete(q) ==
    /\ At(q, "begun") /\ Len(req[q].codes) = 1
    /\ Finish(q, "incomplete")
    /\ UNCHANGED <<invites, accounts>>

\* lockInvite for the n-th code.  A locked row is waited for, and its
\* condition evaluated again once the lock is free.
LockInvite(q, n) ==
    /\ Wants(q, n) /\ Usable(req[q].codes[n])
    /\ ~LockedByOther(q, req[q].codes[n])
    /\ IF n = 2 /\ Sponsor[req[q].codes[1]] = Sponsor[req[q].codes[2]]
       THEN Finish(q, "sameSponsor")
       ELSE Goto(q, IF n = 1 THEN "first" ELSE "second")
    /\ UNCHANGED <<invites, accounts>>

RefuseCode(q, n) ==
    /\ Wants(q, n) /\ ~Usable(req[q].codes[n])
    /\ Finish(q, "invalidCode")
    /\ UNCHANGED <<invites, accounts>>

\* PostgreSQL aborts one transaction of the circle: the statement it waits in fails.
AbortDeadlocked(q) ==
    /\ InCycle(q)
    /\ Break(q)
    /\ UNCHANGED <<invites, accounts>>

\* INSERT INTO users; a key being inserted is waited for.
InsertUser(q) ==
    /\ Ready(q)
    /\ ~BeingInserted(q)
    /\ IF accounts[req[q].email].how = "none" THEN Goto(q, "inserted") ELSE Goto(q, "duplicate")
    /\ UNCHANGED <<invites, accounts>>

\* The profile row, UPDATE invites SET used_by, used_at, and the commit, whose
\* confirmation may be lost.
Commit(q) ==
    /\ At(q, "inserted")
    /\ accounts' = [accounts EXCEPT ![req[q].email] =
          [owner   |-> q,
           how     |-> IF req[q].kind = "provider" THEN "provider"
                       ELSE IF req[q].codes = <<>> THEN "waiting" ELSE "sponsored",
           deleted |-> FALSE]]
    /\ invites' = [i \in Invites |-> IF i \in Codes(q) THEN [invites[i] EXCEPT !.usedBy = q]
                                                       ELSE invites[i]]
    /\ Finish(q, "ok") \/ (Failures /\ Break(q))

\* emailTakenReason: a query of its own, on a second connection.
AskReason(q) ==
    /\ At(q, "duplicate") /\ FreeConnections > 0
    /\ Finish(q, IF accounts[req[q].email].deleted THEN "takenDeleted" ELSE "taken")
    /\ UNCHANGED <<invites, accounts>>

(* A statement fails, the client goes away or the process dies; a failure  *)
(* of Commit here is one that the server has not committed.                *)
Fail(q) ==
    /\ Failures /\ InProgress(q)
    /\ Break(q)
    /\ UNCHANGED <<invites, accounts>>

-----------------------------------------------------------------------------
(* The rest of the system: UserService.CreateInvite, the 72 hours of an    *)
(* invite, and AdminHandler.UpdateUserStatus for a resident who waits.     *)

\* Nobody brings a code that was created after their request.
CreateInvite(i) ==
    /\ ~invites[i].open /\ invites[i].usedBy = None
    /\ \A q \in Requests : InProgress(q) => i \notin Codes(q)
    /\ invites' = [invites EXCEPT ![i].open = TRUE]
    /\ UNCHANGED <<accounts, req>>

Expire(i) ==
    /\ Usable(i)
    /\ invites' = [invites EXCEPT ![i].open = FALSE]
    /\ UNCHANGED <<accounts, req>>

Approve(e) ==
    /\ accounts[e].how = "waiting"
    /\ accounts' = [accounts EXCEPT ![e].how = "approved"]
    /\ UNCHANGED <<invites, req>>

-----------------------------------------------------------------------------
CodeLists == {<<>>} \cup {<<i>> : i \in Invites} \cup (Invites \X Invites)

Serve(q) ==
    \/ Begin(q) \/ RefuseIncomplete(q)
    \/ \E n \in 1 .. 2 : LockInvite(q, n) \/ RefuseCode(q, n)
    \/ AbortDeadlocked(q)
    \/ InsertUser(q) \/ Commit(q) \/ AskReason(q)

Next ==
    \/ \E q \in Requests :
          \/ \E kind \in {"resident", "provider"}, codes \in CodeLists, e \in Emails :
                 Arrive(q, kind, codes, e)
          \/ Serve(q)
          \/ Fail(q)
    \/ \E i \in Invites : CreateInvite(i) \/ Expire(i)
    \/ \E e \in Emails : Approve(e)

Spec == Init /\ [][Next]_vars

\* The server and PostgreSQL keep running what they have started.
FairSpec == Spec /\ \A q \in Requests : WF_vars(Serve(q))
-----------------------------------------------------------------------------
(* Properties.                                                             *)

\* An invite, once spent, stays with the newcomer it let in: no interleaving
\* of registrations that bring the same code overwrites used_by.
InviteSpentOnce ==
    [][\A i \in Invites : invites[i].usedBy # None => invites'[i].usedBy = invites[i].usedBy]_vars

\* A resident has entered on invitation if and only if two invites of
\* different residents were spent on exactly that resident; a registration
\* that failed or was refused, and left no account, has spent none.
SpentOn(q) == {i \in Invites : invites[i].usedBy = q}
SponsoredByTwo ==
    \A q \in Requests :
        IF \E e \in Emails : accounts[e].owner = q /\ accounts[e].how = "sponsored"
        THEN \E i, j \in Invites : SpentOn(q) = {i, j} /\ Sponsor[i] # Sponsor[j]
        ELSE SpentOn(q) = {}

\* The transactions, whatever overlaps and fails, act as the single steps of
\* Admission: an e-mail is bound to its account for ever, deleted or not, and
\* the admission of a newcomer and the spending of two invites are one event.
Club == INSTANCE Admission WITH
            People   <- Requests,
            owner    <- [e \in Emails |-> accounts[e].owner],
            standing <- [e \in Emails |-> accounts[e].how],
            spentOn  <- [i \in Invites |-> invites[i].usedBy]
ImplementsAdmission == Club!Spec

\* A request is answered that its e-mail is taken only if it is somebody else's,
\* and that the account can be reactivated only if it is deleted: always then,
\* unless the question why failed.  Who was answered "ok" owns the e-mail asked
\* for, and who owns one was answered that, or "error" when the confirmation of
\* the commit was lost; whoever was refused owns none (service/auth.go:165,
\* 223, 240-248).
AnswerMatchesAccount ==
    \A q \in Requests :
        LET mine == {e \in Emails : accounts[e].owner = q}
            held == accounts[req[q].email]
        IN  /\ req[q].outcome \in {"taken", "takenDeleted"} => held.how # "none" /\ held.owner # q
            /\ req[q].outcome = "takenDeleted" => held.deleted
            /\ req[q].outcome = "taken" => ~held.deleted \/ req[q].failed
            /\ req[q].outcome = "ok" => mine = {req[q].email}
            /\ mine # {} =>
                  /\ mine = {req[q].email}
                  /\ req[q].outcome = "ok" \/ (req[q].outcome = "error" /\ req[q].failed)

\* Every registration is answered (docs/ciclo-de-vida-da-conta.md:46-47).
EveryRegistrationEnds == \A q \in Requests : At(q, "arrived") ~> At(q, "done")
=============================================================================
