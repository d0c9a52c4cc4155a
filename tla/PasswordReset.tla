--------------------------- MODULE PasswordReset ----------------------------
(***************************************************************************)
(* The code sent by e-mail to who has forgotten the password               *)
(* (service/auth.go, handler/auth.go).                                     *)
(*                                                                         *)
(*   forgot  POST /auth/forgot-password   AuthService.RequestPasswordReset *)
(*   reset   POST /auth/reset-password    .ResetPassword                   *)
(*   enter   POST /auth/login             .Login, as far as the password   *)
(*                                                                         *)
(* reset looks for the code before its transaction, which writes the       *)
(* password and then marks every code of the account.  The row of the      *)
(* account is locked from the one to the commit.                           *)
(***************************************************************************)
EXTENDS Calls

VARIABLES passwords, codes

\* A password is named by the call that set it, a code by the call that asked
\* for it.  Code 0 was asked for before, and its mail is known to the owner.
PasswordResetTypeOK ==
    /\ passwords \in [Users -> Ids]
    /\ DOMAIN codes \subseteq Ids
    /\ \A k \in DOMAIN codes : codes[k] \in [of : Users, used : BOOLEAN]

CONSTANT OldForgetter   \* whose code 0 is

ASSUME PasswordResetAssumption == OldForgetter \in Users

PasswordResetInit ==
    /\ passwords = [u \in Users |-> 0]
    /\ codes = [k \in {0} |-> [of |-> OldForgetter, used |-> FALSE]]

CodesOf(u) == {k \in DOMAIN codes : codes[k].of = u}
Good(k, u) == k \in CodesOf(u) /\ ~codes[k].used

\* The transaction of a reset has written the users row of u.
RowLocked(u) ==
    \E p \in Calls : call[p].kind = "reset" /\ By(p) = u /\ call[p].pc \in {"written", "marked"}

-----------------------------------------------------------------------------
(* Variants with a defect, for the sensitivity of the properties.          *)

\* Only the code that was typed is marked.
MarkTyped(q) ==
    /\ ServingAt(q, "reset", "written")
    /\ Keep(q, "marked", {call[q].on})
    /\ UNCHANGED <<passwords, codes>>

\* The codes are marked outside the transaction, which may still fail.
MarkOutside(q) ==
    /\ ServingAt(q, "reset", "written")
    /\ Keep(q, "marked", CodesOf(By(q)))
    /\ codes' = [k \in DOMAIN codes |->
                   [codes[k] EXCEPT !.used = @ \/ k \in CodesOf(By(q))]]
    /\ UNCHANGED passwords

\* The password that is compared is one read from a copy.
EnterWithAny(q) ==
    /\ Serving(q, "enter")
    /\ Finish(q, "ok")
    /\ UNCHANGED <<passwords, codes>>

-----------------------------------------------------------------------------
(* Steps.                                                                  *)

\* The answer is the same whether there is such an account or not, and whether
\* the mail was sent or not.
RequestPasswordReset(q) ==
    /\ Serving(q, "forgot")
    /\ Finish(q, "ok")
    /\ \/ codes' = Put(codes, q, [of |-> By(q), used |-> FALSE])
       \/ scene.faults /\ UNCHANGED codes
    /\ UNCHANGED passwords

\* The code may also be over its 30 minutes.
CheckCode(q) ==
    /\ Serving(q, "reset")
    /\ \/ Good(call[q].on, By(q)) /\ Goto(q, "checked")
       \/ Finish(q, "invalidCode")
    /\ UNCHANGED <<passwords, codes>>

WritePassword(q) ==
    /\ ServingAt(q, "reset", "checked") /\ ~RowLocked(By(q))
    /\ Goto(q, "written")
    /\ UNCHANGED <<passwords, codes>>

\* page: the codes marked, those that exist as the statement starts.
MarkCodes(q) ==
    /\ ServingAt(q, "reset", "written")
    /\ Keep(q, "marked", CodesOf(By(q)))
    /\ UNCHANGED <<passwords, codes>>

CommitReset(q) ==
    /\ ServingAt(q, "reset", "marked")
    /\ passwords' = [passwords EXCEPT ![By(q)] = q]
    /\ codes' = [k \in DOMAIN codes |->
                   [codes[k] EXCEPT !.used = @ \/ k \in call[q].page]]
    /\ Committed(q)

\* on: the password that is typed.
Enter(q) ==
    /\ Serving(q, "enter")
    /\ Finish(q, IF passwords[By(q)] = call[q].on THEN "ok" ELSE "invalid")
    /\ UNCHANGED <<passwords, codes>>

PasswordResetStep(q) ==
    /\ \/ RequestPasswordReset(q) \/ CheckCode(q) \/ WritePassword(q)
       \/ MarkCodes(q) \/ CommitReset(q) \/ Enter(q)
    /\ UNCHANGED scene

-----------------------------------------------------------------------------
(* Properties.                                                             *)

\* A reset takes effect whole or not at all.  Password and codes change
\* together, so that a reset that fails leaves the code to be tried again
\* (service/auth.go:501-523); one that has been answered has done away with
\* every code asked for before it, none of which serves a reset that comes
\* after (:515-518), and with the password, which opens nothing any more.  Two
\* resets that overlap may use one code (:484 is before the transaction).
ResetIsWhole ==
    /\ \A u \in Users :
          /\ passwords[u] = 0 => \A k \in CodesOf(u) : ~codes[k].used
          /\ passwords[u] # 0 => codes[call[passwords[u]].on].used
    /\ \A r, q \in Calls :
          (Served(r, "reset") /\ By(r) = By(q) /\ r \in call[q].after) =>
             /\ Served(q, "reset") => call[q].on \notin call[r].after \cup {0, call[r].on}
             /\ Served(q, "enter") => call[q].on \notin call[r].after \cup {0}
=============================================================================
