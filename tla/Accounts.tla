------------------------------ MODULE Accounts ------------------------------
(***************************************************************************)
(* The accounts as the rest of the API sees them: their status, and        *)
(* whether they have been deleted and by whom.                             *)
(*                                                                         *)
(*   leave     DELETE /users/me                  UserHandler.DeleteMe      *)
(*   remove    DELETE /admin/users/{id}          .DeleteUser               *)
(*   comeBack  POST   /auth/reactivate           AuthHandler.Reactivate    *)
(*   status    PUT    /admin/users/{id}/status   AdminHandler.             *)
(*                                               UpdateUserStatus          *)
(*   users     GET    /admin/users               .ListUsers                *)
(*                                                                         *)
(* Deletion and reactivation are the single steps of AccountLife, which    *)
(* Sessions is shown to implement where its calls do not overlap.          *)
(***************************************************************************)
EXTENDS Calls

VARIABLE accounts   \* the users rows

UserStatuses == {"pending", "active", "suspended"}

AccountsTypeOK ==
    accounts \in [Users -> [status : UserStatuses, deletedBy : Users \cup {None}]]

AccountsInit == accounts = [u \in Users |-> [status |-> "active", deletedBy |-> None]]

Deleted(u) == accounts[u].deletedBy # None
Here(q, u) == u \in Users /\ Home[u] = HomeOf(q)

-----------------------------------------------------------------------------
(* Steps.                                                                  *)

Leave(q) ==
    /\ Serving(q, "leave")
    /\ \/ Role[By(q)] = "admin" /\ Finish(q, "forbidden") /\ UNCHANGED accounts
       \/ Role[By(q)] # "admin" /\ Deleted(By(q)) /\ Finish(q, "notFound") /\ UNCHANGED accounts
       \/ /\ Role[By(q)] # "admin" /\ ~Deleted(By(q))
          /\ accounts' = [accounts EXCEPT ![By(q)].deletedBy = By(q)]
          /\ Committed(q)

\* An admin removes no admin.
Remove(q) ==
    /\ Serving(q, "remove")
    /\ LET u == call[q].on IN
       \/ u = By(q) /\ Finish(q, "forbidden") /\ UNCHANGED accounts
       \/ /\ u # By(q)
          /\ Here(q, u) => Deleted(u)
          /\ Finish(q, "notFound") /\ UNCHANGED accounts
       \/ /\ u # By(q) /\ Here(q, u) /\ ~Deleted(u) /\ Role[u] = "admin"
          /\ Finish(q, "forbidden") /\ UNCHANGED accounts
       \/ /\ u # By(q) /\ Here(q, u) /\ ~Deleted(u) /\ Role[u] # "admin"
          /\ accounts' = [accounts EXCEPT ![u].deletedBy = By(q)]
          /\ Committed(q)

\* Back at the status it had: one that is not active is told so, not let in.
ComeBack(q) ==
    /\ Serving(q, "comeBack")
    /\ IF accounts[By(q)].deletedBy = By(q)
       THEN /\ accounts' = [accounts EXCEPT ![By(q)].deletedBy = None]
            /\ \/ Finish(q, IF accounts[By(q)].status = "active" THEN "ok" ELSE "forbidden")
               \/ scene.faults /\ Finish(q, "error")
       ELSE Finish(q, "forbidden") /\ UNCHANGED accounts

\* 204 whether or not there is such a row; the database refuses any other status.
UpdateUserStatus(q) ==
    /\ Serving(q, "status")
    /\ \/ call[q].arg \notin UserStatuses /\ Finish(q, "error") /\ UNCHANGED accounts
       \/ /\ call[q].arg \in UserStatuses
          /\ accounts' = IF Here(q, call[q].on)
                         THEN [accounts EXCEPT ![call[q].on].status = call[q].arg] ELSE accounts
          /\ Committed(q)

\* arg: live or deleted.  Filters by status and role only narrow the list.
ListUsers(q) ==
    /\ Serving(q, "users")
    /\ Show(q, {u \in Users : Here(q, u) /\ (Deleted(u) <=> call[q].arg = "deleted")})
    /\ UNCHANGED accounts

AccountsStep(q) ==
    /\ Leave(q) \/ Remove(q) \/ ComeBack(q) \/ UpdateUserStatus(q) \/ ListUsers(q)
    /\ UNCHANGED scene

-----------------------------------------------------------------------------
(* History.                                                                *)

\* u was deleted by a call that had been answered when q arrived, and has
\* not asked for the account back since.
GoneBefore(u, q) ==
    \E r \in call[q].after :
        /\ \/ Served(r, "leave") /\ By(r) = u
           \/ Served(r, "remove") /\ call[r].on = u
        /\ \A b \in Calls : (call[b].kind = "comeBack" /\ By(b) = u) => b \in call[r].after
=============================================================================
