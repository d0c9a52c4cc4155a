--------------------------- MODULE MobileSession ----------------------------
(***************************************************************************)
(* The session of one login in the app: the pair of tokens it stores, and  *)
(* the calls of ApiClient with the interceptor that renews the pair when a *)
(* call is answered 401, against AuthService.Refresh.                      *)
(*                                                                         *)
(*   ApiClient.get, post, put, delete   a call to the API                  *)
(*   AuthRepository.logout              a call, then the storage is cleared*)
(*   _onRequest, _onError               before a request, after its failure*)
(*   POST /auth/refresh                 AuthService.Refresh                *)
(*   AuthNotifier.build                 the app starts with what is stored *)
(*                                                                         *)
(* The interceptor posts the refresh and repeats the failed request through*)
(* itself, so either may fail with 401 and be renewed in its turn: a call  *)
(* carries a stack of the failures it is in the middle of handling, each   *)
(* inside the try block of the one before.                                 *)
(*                                                                         *)
(* A pair of tokens is its number in the order of issue, 0 if there is     *)
(* none.  saveTokens hands its two writes to the plugin at once, so they   *)
(* are one step.  A new login is a new history.                            *)
(***************************************************************************)
EXTENDS Naturals, Sequences

CONSTANTS
    Calls,      \* identities of calls, each made once
    Logouts,    \* those that are the logout
    MaxPairs,   \* bound on the pairs the server issues
    MaxBlocks   \* bound on the failures handled inside one another

ASSUME MobileSessionAssumption ==
    /\ Logouts \subseteq Calls
    /\ MaxPairs \in Nat \ {0}
    /\ MaxBlocks \in Nat

VARIABLES
    stored,    \* the pair in the secure storage
    call,      \* what the app does for each call
    job,       \* what the server does with the last request of each call
    issued,    \* how many pairs the server has issued
    live,      \* the refresh tokens that are not revoked
    fresh,     \* the access tokens that have not expired
    executed,  \* history: how often each call has taken effect
    spoiled    \* history: whether something has happened that ends a session

vars == <<stored, call, job, issued, live, fresh, executed, spoiled>>

-----------------------------------------------------------------------------
(* State.                                                                  *)

Pairs == 1 .. MaxPairs
Stored == 0 .. MaxPairs

\* A request is the call itself or the refresh of a token.
TheCall == 0

\* A failure that is being handled: the request that failed, and whether it has
\* been sent again.
Block == [request : Stored, retried : BOOLEAN]

Call == [pc : {"new", "named", "waiting", "resolved", "saved", "failed", "leaving", "done"},
         asking : Stored,        \* the request under way
         pair   : Stored,        \* the pair in the answer to a refresh
         body   : Stored,        \* the token a logout names
         blocks : Seq(Block)]

Job == [pc : {"idle", "received", "checked", "reused", "revoked", "ok", "denied", "error"},
        token : Stored]

TypeOK ==
    /\ stored \in Stored
    /\ call \in [Calls -> Call]
    /\ job \in [Calls -> Job]
    /\ issued \in Pairs
    /\ live \subseteq 1 .. issued /\ fresh \subseteq 1 .. issued
    /\ executed \in [Calls -> Nat]
    /\ spoiled \in BOOLEAN

\* AuthRepository.login has stored the first pair.
Init ==
    /\ stored = 1 /\ issued = 1 /\ live = {1} /\ fresh = {1}
    /\ call = [q \in Calls |-> [pc |-> "new", asking |-> TheCall, pair |-> 0, body |-> 0,
                                blocks |-> <<>>]]
    /\ job = [q \in Calls |-> [pc |-> "idle", token |-> 0]]
    /\ executed = [q \in Calls |-> 0]
    /\ spoiled = FALSE

At(q, phase) == call[q].pc = phase
Answer(q, phase) == At(q, "waiting") /\ job[q].pc = phase
Blocks(q) == call[q].blocks
Top(q) == Blocks(q)[Len(Blocks(q))]
Handling(q) == Blocks(q) # <<>>

\* Between reading the stored refresh token and storing its successor.
Renewing(q) == Handling(q) /\ ~Top(q).retried

Goto(q, phase) == call' = [call EXCEPT ![q].pc = phase]
Does(q, phase) == job' = [job EXCEPT ![q].pc = phase]
Push(q) == Append(Blocks(q), [request |-> call[q].asking, retried |-> FALSE])
Pop(q) == SubSeq(Blocks(q), 1, Len(Blocks(q)) - 1)
Marked(q) == [Blocks(q) EXCEPT ![Len(Blocks(q))] = [@ EXCEPT !.retried = TRUE]]

\* A request is sent.  _onRequest adds the access token that is stored by then;
\* if there is none, the headers stay as they were.
Send(q, request, access, blocks) ==
    LET header == IF stored # 0 THEN stored ELSE access
    IN  /\ call' = [call EXCEPT ![q] = [@ EXCEPT !.pc = "waiting", !.asking = request,
                                                 !.blocks = blocks]]
        /\ job' = [job EXCEPT ![q] = [pc |-> "received",
                                      token |-> IF request = TheCall THEN header ELSE request]]

server == <<issued, live, fresh, executed>>
app == <<stored, call>>

-----------------------------------------------------------------------------
(* Variants with a defect, for the sensitivity of the properties.          *)

\* The interceptor renews after any failure, not only after a 401.
GiveUpOrRenew(q) ==
    /\ At(q, "waiting") /\ stored # 0 /\ Len(Blocks(q)) < MaxBlocks
    /\ Send(q, stored, 0, Push(q))
    /\ UNCHANGED <<stored, server, spoiled>>

\* The new pair is used for the retry and not stored.
SaveNothing(q) ==
    /\ At(q, "resolved") /\ Renewing(q)
    /\ call' = [call EXCEPT ![q] = [@ EXCEPT !.pc = "saved", !.blocks = Marked(q)]]
    /\ UNCHANGED <<stored, job, server, spoiled>>

-----------------------------------------------------------------------------
(* The app.                                                                *)

\* AuthRepository.logout reads the refresh token first; if there is none it asks
\* the server for nothing.
Name(q) ==
    /\ At(q, "new") /\ q \in Logouts
    /\ call' = [call EXCEPT ![q] = [@ EXCEPT !.pc = IF stored = 0 THEN "leaving" ELSE "named",
                                             !.body = stored]]
    /\ UNCHANGED <<stored, job, server, spoiled>>

Start(q) ==
    /\ At(q, IF q \in Logouts THEN "named" ELSE "new")
    /\ Send(q, TheCall, 0, <<>>)
    /\ UNCHANGED <<stored, server, spoiled>>

\* A success goes to whoever made the request: the call itself, a block that has
\* asked for a refresh, or one that has sent its request again and is over.
Resolve(q) ==
    /\ Answer(q, "ok")
    /\ call' = [call EXCEPT ![q] = [@ EXCEPT !.pc = "resolved", !.pair = job[q].token]]
    /\ Does(q, "idle")
    /\ UNCHANGED <<stored, server, spoiled>>

Save(q) ==
    /\ At(q, "resolved") /\ Renewing(q)
    /\ stored' = call[q].pair
    /\ call' = [call EXCEPT ![q] = [@ EXCEPT !.pc = "saved", !.blocks = Marked(q)]]
    /\ UNCHANGED <<job, server, spoiled>>

Retry(q) ==
    /\ At(q, "saved")
    /\ Send(q, Top(q).request, call[q].pair, Blocks(q))
    /\ UNCHANGED <<stored, server, spoiled>>

Return(q) ==
    /\ At(q, "resolved") /\ Handling(q) /\ Top(q).retried
    /\ call' = [call EXCEPT ![q].blocks = Pop(q)]
    /\ UNCHANGED <<stored, job, server, spoiled>>

Finish(q) ==
    /\ At(q, "resolved") /\ ~Handling(q)
    /\ Goto(q, IF q \in Logouts THEN "leaving" ELSE "done")
    /\ UNCHANGED <<stored, job, server, spoiled>>

\* _onError after a 401: refresh what is stored by now, inside a new block.
Renew(q) ==
    /\ Answer(q, "denied") /\ stored # 0 /\ Len(Blocks(q)) < MaxBlocks
    /\ Send(q, stored, 0, Push(q))
    /\ spoiled' = (spoiled \/ \E p \in Calls \ {q} : Renewing(p))
    /\ UNCHANGED <<stored, server>>

\* handler.next: the error goes to the block around, or to the caller.
Fail(q) == Goto(q, IF Handling(q) THEN "failed" ELSE "done")

NothingStored(q) ==
    /\ Answer(q, "denied") /\ stored = 0
    /\ Fail(q)
    /\ UNCHANGED <<stored, job, server, spoiled>>

\* The server refused the call for reasons of its own.
Refused(q) ==
    /\ Answer(q, "error")
    /\ Fail(q)
    /\ spoiled' = (spoiled \/ Handling(q))
    /\ UNCHANGED <<stored, job, server>>

\* No answer: no connection, or one of the timeouts.  The server does what it
\* has been asked all the same.
GiveUp(q) ==
    /\ At(q, "waiting")
    /\ Fail(q)
    /\ spoiled' = (spoiled \/ Handling(q))
    /\ UNCHANGED <<stored, job, server>>

\* The catch of each block clears the storage.
Clear(q) ==
    /\ At(q, "failed")
    /\ stored' = 0
    /\ call' = [call EXCEPT ![q] = [@ EXCEPT !.blocks = Pop(q),
                                   !.pc = IF Len(Blocks(q)) = 1 THEN "done" ELSE "failed"]]
    /\ UNCHANGED <<job, server, spoiled>>

Leave(q) ==
    /\ At(q, "leaving")
    /\ stored' = 0
    /\ Goto(q, "done")
    /\ spoiled' = TRUE
    /\ UNCHANGED <<job, server>>

\* The app is killed and started again: storage is all that is left.
Restart ==
    /\ call' = [q \in Calls |-> IF At(q, "new") THEN call[q]
                                ELSE [call[q] EXCEPT !.pc = "done", !.blocks = <<>>]]
    /\ spoiled' = (spoiled \/ \E q \in Calls : Handling(q))
    /\ UNCHANGED <<stored, job, server>>

-----------------------------------------------------------------------------
(* The server.                                                             *)

Asked(q, phase) == job[q].pc = phase /\ call[q].asking = TheCall
AskedToRefresh(q, phase) == job[q].pc = phase /\ call[q].asking # TheCall

\* Authenticate, then the handler; AuthHandler.Logout revokes the token it is
\* sent, whatever pair the access token is of, and ignores a failure to.
Serve(q) ==
    /\ Asked(q, "received") /\ job[q].token \in fresh
    /\ executed' = [executed EXCEPT ![q] = @ + 1]
    /\ \/ q \in Logouts /\ live' = live \ {call[q].body}
       \/ live' = live
    /\ spoiled' = (spoiled \/ q \in Logouts)
    /\ Does(q, "ok")
    /\ UNCHANGED <<app, issued, fresh>>

Refuse(q) ==
    /\ Asked(q, "received") /\ job[q].token \in fresh /\ q \notin Logouts
    /\ Does(q, "error")
    /\ UNCHANGED <<app, server, spoiled>>

Deny(q) ==
    /\ Asked(q, "received") /\ job[q].token \notin fresh
    /\ Does(q, "denied")
    /\ UNCHANGED <<app, server, spoiled>>

\* Refresh: SELECT the token.
Check(q) ==
    /\ AskedToRefresh(q, "received")
    /\ Does(q, IF job[q].token \in live THEN "checked" ELSE "reused")
    /\ UNCHANGED <<app, server, spoiled>>

\* A token that is revoked already: revoke all tokens of the user.
Kill(q) ==
    /\ AskedToRefresh(q, "reused")
    /\ live' = {}
    /\ Does(q, "denied")
    /\ UNCHANGED <<app, issued, fresh, executed, spoiled>>

Revoke(q) ==
    /\ AskedToRefresh(q, "checked")
    /\ live' = live \ {job[q].token}
    /\ Does(q, "revoked")
    /\ UNCHANGED <<app, issued, fresh, executed, spoiled>>

\* issuePair.
Issue(q) ==
    /\ AskedToRefresh(q, "revoked") /\ issued < MaxPairs
    /\ issued' = issued + 1
    /\ live' = live \cup {issued + 1}
    /\ fresh' = fresh \cup {issued + 1}
    /\ job' = [job EXCEPT ![q] = [pc |-> "ok", token |-> issued + 1]]
    /\ UNCHANGED <<app, executed, spoiled>>

\* A statement fails, or the token is past its 720 hours: AuthHandler.Refresh
\* answers every error with 401.
RefreshFails(q) ==
    /\ \E phase \in {"received", "checked", "reused", "revoked"} : AskedToRefresh(q, phase)
    /\ Does(q, "denied")
    /\ spoiled' = TRUE
    /\ UNCHANGED <<app, server>>

\* An access token is 15 minutes old.
Expire(k) ==
    /\ fresh' = fresh \ {k}
    /\ UNCHANGED <<app, job, issued, live, executed, spoiled>>

\* The account is deleted, or a token of it reused on another device.
EndSessions ==
    /\ live' = {} /\ spoiled' = TRUE
    /\ UNCHANGED <<app, job, issued, fresh, executed>>

-----------------------------------------------------------------------------
Step(q) ==
    \/ Name(q) \/ Start(q) \/ Resolve(q) \/ Save(q) \/ Retry(q) \/ Return(q) \/ Finish(q)
    \/ Renew(q) \/ NothingStored(q) \/ Refused(q) \/ GiveUp(q) \/ Clear(q) \/ Leave(q)

Work(q) ==
    \/ Serve(q) \/ Refuse(q) \/ Deny(q)
    \/ Check(q) \/ Kill(q) \/ Revoke(q) \/ Issue(q) \/ RefreshFails(q)

Next ==
    \/ \E q \in Calls : Step(q) \/ Work(q)
    \/ Restart \/ (\E k \in fresh : Expire(k)) \/ EndSessions

Spec == Init /\ [][Next]_vars

-----------------------------------------------------------------------------
(* Properties.                                                             *)

\* A session ends only for a reason: while the refresh token has not been
\* presented twice at once, no answer to a renewal been lost or refused, and
\* nobody has logged out, the pair the app keeps between renewals can be
\* exchanged.  The rotation of the server (service/auth.go:392) and the
\* interceptor (api_client.dart:38-48) have to agree on it over any sequence of
\* expiries, however the calls overlap otherwise.
SessionSurvives ==
    ~spoiled /\ (\A q \in Calls : ~Renewing(q)) => stored \in live

\* What the user does takes effect once: a call is sent again only if the server
\* has not executed it, whatever is lost, expires or is renewed in between
\* (api_client.dart:36, 49).
TakesEffectOnce == \A q \in Calls : executed[q] <= 1
=============================================================================
