------------------------------ MODULE Sessions ------------------------------
(***************************************************************************)
(* The sessions of one account: its users row, its refresh_tokens rows,    *)
(* and the HTTP requests that work on them.                                *)
(*                                                                         *)
(*   login       POST   /auth/login         AuthService.Login              *)
(*   reactivate  POST   /auth/reactivate    AuthService.Reactivate         *)
(*   refresh     POST   /auth/refresh       AuthService.Refresh            *)
(*   logout      POST   /auth/logout        AuthService.Logout             *)
(*   leave       DELETE /users/me           UserService.DeleteAccount      *)
(*   ban         DELETE /admin/users/:id    .DeleteAccountAsAdmin          *)
(*   status      PUT    /admin/users/:id/status   UpdateUserStatus         *)
(*                                                                         *)
(* Only the deletion runs in a transaction; every other request is a       *)
(* sequence of statements that commit one by one, and other requests run   *)
(* between them.  Every statement names one user_id or one token, so one   *)
(* account is the general case.  It is a resident's or a provider's: the   *)
(* handlers refuse to delete an admin.                                     *)
(*                                                                         *)
(* Data abstraction.  A request issues at most one pair of tokens, so a    *)
(* pair is named by the request that issued it.  Expiry is a choice made   *)
(* whenever an expiry date is looked at.                                   *)
(***************************************************************************)
EXTENDS Naturals, FiniteSets

CONSTANTS
    Requests,     \* identities of requests, each served once
    MaxInFlight,  \* bound on requests in progress at the same time
    Failures,     \* whether a request may fail half way
    None          \* no value: SQL NULL, no token, no transaction

ASSUME SessionsAssumption ==
    /\ IsFiniteSet(Requests)
    /\ MaxInFlight \in Nat
    /\ Failures \in BOOLEAN
    /\ None \notin Requests \cup {"owner", "admin"}

VARIABLES
    account,   \* the committed users row: deleted_by and status
    tokens,    \* the committed refresh token each request has issued
    deletion,  \* the open transaction of DeleteAccount, and the token rows
               \* its second statement has updated
    req        \* what each request is doing

vars == <<account, tokens, deletion, req>>

-----------------------------------------------------------------------------
(* State.                                                                  *)

Kinds == {"login", "reactivate", "refresh", "logout", "leave", "ban", "status"}

Statuses == {"pending", "active", "suspended"}       \* ENUM user_status

Account == [deletedBy : {None, "owner", "admin"}, status : Statuses]

Phases == {"new", "arrived", "checked", "reuse", "marked", "swept", "issuing", "done"}

Outcomes == {"none", "ok", "refused", "reused", "error"}

Request == [kind    : Kinds,
            token   : Requests \cup {None},  \* the pair the client presents
            login   : Requests \cup {None},  \* the login that pair goes back to
            status  : Statuses,              \* the new status, or the one read
            pc      : Phases,
            outcome : Outcomes]

NewRequest == [kind |-> "login", token |-> None, login |-> None, status |-> "active",
               pc |-> "new", outcome |-> "none"]

NoDeletion == [by |-> None, doomed |-> {}]

TypeOK ==
    /\ account \in Account
    /\ tokens \in [Requests -> {"none", "live", "revoked"}]
    /\ deletion \in [by : Requests \cup {None}, doomed : SUBSET Requests]
    /\ req \in [Requests -> Request]

Init ==
    /\ account \in Account
    /\ tokens = [q \in Requests |-> "none"]
    /\ deletion = NoDeletion
    /\ req = [q \in Requests |-> NewRequest]

At(q, phase) == req[q].pc = phase
Kind(q) == req[q].kind
InProgress(q) == req[q].pc \notin {"new", "done"}

Issued == {t \in Requests : tokens[t] # "none"}
Live == {t \in Requests : tokens[t] = "live"}

\* A statement that updates the users row waits for an open deletion, and one
\* that updates a token waits for a deletion that has updated it.
AccountFree == deletion.by = None
TokenFree(t) == t \notin deletion.doomed

Goto(q, phase) == req' = [req EXCEPT ![q].pc = phase]
Finish(q, outcome) ==
    req' = [req EXCEPT ![q] = [@ EXCEPT !.pc = "done", !.outcome = outcome]]

Revoke(S) == tokens' = [t \in Requests |-> IF t \in S THEN "revoked" ELSE tokens[t]]

-----------------------------------------------------------------------------
(* Variants with a defect, for the sensitivity of the properties.          *)

\* The first UPDATE of DeleteAccount has no "AND deleted_at IS NULL".
MarkDeletedAgain(q) ==
    /\ \/ Kind(q) = "leave" /\ At(q, "arrived")
       \/ Kind(q) = "ban" /\ At(q, "checked")
    /\ AccountFree
    /\ deletion' = [by |-> q, doomed |-> {}]
    /\ Goto(q, "marked")
    /\ UNCHANGED <<account, tokens>>

\* DeleteAccount leaves the refresh tokens alone.
SweepNothing(q) ==
    /\ At(q, "marked")
    /\ Goto(q, "swept")
    /\ UNCHANGED <<account, tokens, deletion>>

\* The token presented is not rotated.
RotateNothing(q) ==
    /\ Kind(q) = "refresh" /\ At(q, "checked") /\ TokenFree(req[q].token)
    /\ Goto(q, "issuing")
    /\ UNCHANGED <<account, tokens, deletion>>

\* A reused token is refused, and that is all.
KillNothing(q) ==
    /\ At(q, "reuse")
    /\ Finish(q, "reused")
    /\ UNCHANGED <<account, tokens, deletion>>

\* Reactivate does not look at deleted_by.
ReadOwnDeletionOfAnyone(q) ==
    /\ Kind(q) = "reactivate" /\ At(q, "arrived")
    /\ account.deletedBy # None
    /\ req' = [req EXCEPT ![q] = [@ EXCEPT !.pc = "checked", !.status = account.status]]
    /\ UNCHANGED <<account, tokens, deletion>>

\* No deferred rollback.
FailWithoutRollback(q) ==
    /\ Failures /\ InProgress(q)
    /\ Finish(q, "error")
    /\ UNCHANGED <<account, tokens, deletion>>

-----------------------------------------------------------------------------
(* Arrival.  The client presents a pair it was issued; the three requests  *)
(* under Authenticate by its access token, which is refused once expired   *)
(* and otherwise trusted without a look at the database.                   *)

Arrive(q, kind, t, status) ==
    /\ At(q, "new")
    /\ Cardinality({p \in Requests : InProgress(p)}) < MaxInFlight
    /\ IF kind \in {"refresh", "logout", "leave"} THEN t \in Issued ELSE t = None
    /\ kind # "status" => status = "active"
    /\ req' = [req EXCEPT ![q] =
                 [kind |-> kind, token |-> t, status |-> status, pc |-> "arrived",
                  outcome |-> "none",
                  login |-> IF t = None THEN q ELSE req[t].login]]
    /\ UNCHANGED <<account, tokens, deletion>>

\* An access token past its 15 minutes, a refresh token past its 720 hours, a
\* wrong password, a status the ENUM does not have.
Deny(q) ==
    /\ At(q, "arrived")
    /\ Kind(q) = "refresh" => tokens[req[q].token] = "live"
    /\ Kind(q) # "ban"
    /\ Finish(q, "refused")
    /\ UNCHANGED <<account, tokens, deletion>>

(* AuthService.Login.                                                      *)

MayEnter == account.deletedBy = None /\ account.status = "active"

ReadAccount(q) ==
    /\ Kind(q) = "login" /\ At(q, "arrived")
    /\ IF MayEnter THEN Goto(q, "issuing") ELSE Finish(q, "refused")
    /\ UNCHANGED <<account, tokens, deletion>>

\* issuePair: INSERT INTO refresh_tokens.  Its foreign key takes a lock on the
\* users row that an open deletion does not exclude.
InsertToken(q) ==
    /\ At(q, "issuing")
    /\ tokens' = [tokens EXCEPT ![q] = "live"]
    /\ Finish(q, "ok")
    /\ UNCHANGED <<account, deletion>>

(* AuthService.Reactivate.                                                 *)

ReadOwnDeletion(q) ==
    /\ Kind(q) = "reactivate" /\ At(q, "arrived")
    /\ IF account.deletedBy = "owner"
       THEN req' = [req EXCEPT ![q] = [@ EXCEPT !.pc = "checked",
                                                !.status = account.status]]
       ELSE Finish(q, "refused")
    /\ UNCHANGED <<account, tokens, deletion>>

\* UPDATE users ... WHERE id = $1: whatever deleted_by holds by now.  The
\* status looked at is the one read before.
Undelete(q) ==
    /\ Kind(q) = "reactivate" /\ At(q, "checked") /\ AccountFree
    /\ account' = [account EXCEPT !.deletedBy = None]
    /\ IF req[q].status = "active" THEN Goto(q, "issuing") ELSE Finish(q, "refused")
    /\ UNCHANGED <<tokens, deletion>>

(* AuthService.Refresh: it reads the token and the user's role, and        *)
(* neither deleted_at nor the status.                                      *)

ReadToken(q) ==
    /\ Kind(q) = "refresh" /\ At(q, "arrived")
    /\ Goto(q, IF tokens[req[q].token] = "live" THEN "checked" ELSE "reuse")
    /\ UNCHANGED <<account, tokens, deletion>>

\* UPDATE refresh_tokens SET revoked_at = now() WHERE id = $1: also when
\* another request has revoked it in between.
Rotate(q) ==
    /\ Kind(q) = "refresh" /\ At(q, "checked") /\ TokenFree(req[q].token)
    /\ Revoke({req[q].token})
    /\ Goto(q, "issuing")
    /\ UNCHANGED <<account, deletion>>

\* A revoked token was presented: every live token of the user is revoked.
KillFamily(q) ==
    /\ At(q, "reuse")
    /\ \A t \in Live : TokenFree(t)
    /\ Revoke(Live)
    /\ Finish(q, "reused")
    /\ UNCHANGED <<account, deletion>>

(* AuthService.Logout.                                                     *)

RevokePresented(q) ==
    /\ Kind(q) = "logout" /\ At(q, "arrived") /\ TokenFree(req[q].token)
    /\ Revoke({req[q].token})
    /\ Finish(q, "ok")
    /\ UNCHANGED <<account, deletion>>

(* UserService.DeleteAccount and DeleteAccountAsAdmin.                     *)

\* The admin's request first looks for an account that is not deleted.
FindTarget(q) ==
    /\ Kind(q) = "ban" /\ At(q, "arrived")
    /\ IF account.deletedBy = None THEN Goto(q, "checked") ELSE Finish(q, "refused")
    /\ UNCHANGED <<account, tokens, deletion>>

\* UPDATE users ... WHERE id = $1 AND deleted_at IS NULL, on the row as it is
\* once its lock is held; RowsAffected() = 0 is ErrUserNotFound.
MarkDeleted(q) ==
    /\ \/ Kind(q) = "leave" /\ At(q, "arrived")
       \/ Kind(q) = "ban" /\ At(q, "checked")
    /\ AccountFree
    /\ IF account.deletedBy = None
       THEN /\ deletion' = [by |-> q, doomed |-> {}]
            /\ Goto(q, "marked")
       ELSE /\ Finish(q, "refused")
            /\ UNCHANGED deletion
    /\ UNCHANGED <<account, tokens>>

\* UPDATE refresh_tokens ... WHERE user_id = $1 AND revoked_at IS NULL.
Sweep(q) ==
    /\ At(q, "marked")
    /\ deletion' = [deletion EXCEPT !.doomed = Live]
    /\ Goto(q, "swept")
    /\ UNCHANGED <<account, tokens>>

CommitDeletion(q) ==
    /\ At(q, "swept")
    /\ account' = [account EXCEPT !.deletedBy = IF Kind(q) = "ban" THEN "admin" ELSE "owner"]
    /\ Revoke(deletion.doomed)
    /\ deletion' = NoDeletion
    /\ Finish(q, "ok")

(* AdminHandler.UpdateUserStatus: any status to any other.  No token is    *)
(* revoked.                                                                *)
WriteStatus(q) ==
    /\ Kind(q) = "status" /\ At(q, "arrived") /\ AccountFree
    /\ account' = [account EXCEPT !.status = req[q].status]
    /\ Finish(q, "ok")
    /\ UNCHANGED <<tokens, deletion>>

(* A statement fails, the client goes away or the process dies.            *)
Fail(q) ==
    /\ Failures /\ InProgress(q)
    /\ deletion' = IF deletion.by = q THEN NoDeletion ELSE deletion
    /\ Finish(q, "error")
    /\ UNCHANGED <<account, tokens>>

-----------------------------------------------------------------------------
Serve(q) ==
    \/ ReadAccount(q) \/ InsertToken(q)
    \/ ReadOwnDeletion(q) \/ Undelete(q)
    \/ ReadToken(q) \/ Rotate(q) \/ KillFamily(q) \/ RevokePresented(q)
    \/ FindTarget(q) \/ MarkDeleted(q) \/ Sweep(q) \/ CommitDeletion(q)
    \/ WriteStatus(q)

Next ==
    \E q \in Requests :
        \/ \E kind \in Kinds, t \in Requests \cup {None}, status \in Statuses :
               Arrive(q, kind, t, status)
        \/ Deny(q)
        \/ Serve(q)
        \/ Fail(q)

Spec == Init /\ [][Next]_vars

\* The server keeps running the handlers it has started.
FairSpec == Spec /\ \A q \in Requests : WF_vars(Serve(q))
-----------------------------------------------------------------------------
(* Properties.                                                             *)

\* Once an account is deleted none of its refresh tokens can be exchanged
\* (user.go:103-104).  Holds unless a request has seen all it needs to issue a
\* token while the deletion is open.
DeletedHasNoLiveToken == account.deletedBy # None => Live = {}

\* Of all the tokens that go back to one login at most one can be exchanged:
\* refresh rotates, and never leaves the old one behind.  Holds unless two
\* requests exchange the same token at the same time.
SameLogin(s, t) == req[s].login = req[t].login
OneLiveTokenPerLogin == \A s, t \in Live : SameLogin(s, t) => s = t

\* After a reused token has been answered, no token that goes back to the same
\* login can be exchanged: thief and owner both have to log in again
\* (auth.go:373-376).  Holds unless another request is exchanging a token of
\* that login when the reuse is found.
ReuseEndsLogin ==
    \A q \in Requests : req[q].outcome = "reused" =>
        \A t \in Live : req[t].login # req[q].login

\* Deletion and return of the account are those of AccountLife: in particular
\* what an admin has deleted stays deleted.  Holds unless the admin's deletion
\* is open while a reactivation is between its two statements.
Life == INSTANCE AccountLife WITH deletedBy <- account.deletedBy
ImplementsAccountLife == Life!Spec

\* An account removed by an admin does not come back (auth.go:36-38).
BanSticks == [][account.deletedBy = "admin" => account'.deletedBy = "admin"]_vars

\* Whatever overlaps, an account that is deleted is not deleted again.  An
\* owner whose access token outlives the admin's deletion cannot turn it into
\* one of their own, which they could then undo.
DeletedOnce ==
    [][account.deletedBy # None => account'.deletedBy \in {None, account.deletedBy}]_vars

\* Every request that arrives is answered, however many of them wait for the
\* same rows.
EveryCallEnds == \A q \in Requests : At(q, "arrived") ~> At(q, "done")
=============================================================================
