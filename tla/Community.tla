----------------------------- MODULE Community ------------------------------
(***************************************************************************)
(* The API of a community, but for what Reputation, Sessions, Registration *)
(* and ChatHub model: the calls of everybody, over the same tables.        *)
(***************************************************************************)
EXTENDS ServiceRequests, Questions, Bulletin, ProviderPage, PasswordReset, Conversations

boards == <<requests, responses, questions, answers, posts>>
secrets == <<passwords, codes>>
rows == <<notices, boards, accounts, visits, profiles, talks, secrets>>
vars == <<call, scene, rows>>

TypeOK ==
    /\ CallTypeOK /\ AccountsTypeOK /\ VisitsTypeOK
    /\ NoticesTypeOK /\ RequestsTypeOK /\ QuestionsTypeOK /\ BulletinTypeOK
    /\ ProviderPageTypeOK /\ PasswordResetTypeOK /\ ConversationsTypeOK

Init ==
    /\ CallInit /\ AccountsInit /\ VisitsInit
    /\ NoticesInit /\ RequestsInit /\ QuestionsInit /\ BulletinInit
    /\ ProviderPageInit /\ PasswordResetInit /\ ConversationsInit

\* What people write to one another in public.
ServeBoards(q) ==
    \/ NoticesStep(q) /\ UNCHANGED boards
    \/ RequestsStep(q) /\ UNCHANGED <<questions, answers, posts>>
    \/ QuestionsStep(q) /\ UNCHANGED <<requests, responses, posts>>
    \/ BulletinStep(q) /\ UNCHANGED <<notices, requests, responses, questions, answers>>

\* Accounts, what providers say of themselves, and who talks to them.
ServeUsers(q) ==
    \/ AccountsStep(q) /\ UNCHANGED <<visits, profiles, talks, secrets>>
    \/ ProviderPageStep(q) /\ UNCHANGED <<talks, secrets>>
    \/ ConversationsStep(q) /\ UNCHANGED <<profiles, secrets>>
    \/ PasswordResetStep(q) /\ UNCHANGED <<accounts, visits, profiles, talks>>

Serve(q) ==
    \/ ServeBoards(q) /\ UNCHANGED <<accounts, visits, profiles, talks, secrets>>
    \/ ServeUsers(q) /\ UNCHANGED <<notices, boards>>

\* The goroutine that outlives a call.
Record(q) ==
    /\ RecordEvent(q)
    /\ UNCHANGED <<call, scene, notices, boards, accounts, profiles, talks, secrets>>

Next ==
    \E q \in Calls :
       \/ \E c \in scene.calls : Arrive(q, c) /\ UNCHANGED rows
       \/ Serve(q) \/ Record(q)
       \/ Fault(q) /\ UNCHANGED <<scene, rows>>

Spec == Init /\ [][Next]_vars

\* Some goroutine that can go on does, a call in progress or one that outlives it.
FairSpec == Spec /\ WF_vars(\E q \in Calls : (InProgress(q) /\ Serve(q)) \/ Record(q))

-----------------------------------------------------------------------------
(* Properties.                                                             *)

\* Who wrote the row of this number; row 0 was there before.
Author(i, old) == IF i \in Calls THEN By(i) ELSE old

\* Whom an element of the page of a call is from.
From(q, x) ==
    CASE call[q].kind = "users" -> x
      [] call[q].kind = "history" -> messages[x].by
      [] call[q].kind \in {"chat", "inbox", "reset"} -> By(q)
      [] call[q].kind \in {"notices", "unread", "feed", "request", "responses"} ->
           Author(x, OldRequester)
      [] call[q].kind = "questions" -> Author(x, OldAsker)
      [] call[q].kind \in {"wall", "pending"} -> Author(x, OldPoster)
      [] OTHER -> x.of

\* Communities do not meet: what is written on a row is by somebody of the
\* community of that row, a page shows nothing of another community, nobody is
\* notified of what happens in another, and no admin touches its accounts.  Ids
\* travel in the path of a call, so each statement has to look at the community
\* itself (the WHERE clauses of handler/request.go, question.go and admin.go, of
\* service/bulletin.go, provider.go and chat.go).
CommunitiesApart ==
    LET Near(u, v) == Home[u] = Home[v]
    IN  /\ \A i \in DOMAIN responses : Near(responses[i].by, requests[responses[i].to].by)
        /\ \A i \in DOMAIN questions : Near(questions[i].by, questions[i].to)
        /\ \A i \in DOMAIN answers : Near(answers[i].by, questions[answers[i].to].by)
        /\ \A i \in Decided : Near(posts[i].by, posts[i].decidedBy)
        /\ \A i \in DOMAIN notices : Near(By(i), notices[i].to)
        /\ \A f \in favorites : Near(f[1], f[2])
        /\ \A i \in DOMAIN events : Near(By(i), events[i].of)
        /\ \A i \in DOMAIN conversations : \A u, v \in conversations[i] : Near(u, v)
        /\ \A u \in Users : Deleted(u) => Near(u, accounts[u].deletedBy)
        /\ \A q \in Calls : \A x \in call[q].page : Near(From(q, x), By(q))

\* Every call is answered, though calls wait for the rows of others: two saves of
\* an agenda that wait for each other are told apart by the deadlock detector
\* (service/provider.go:375-391, auth.go:507-523).
EveryCallEnds == []<>(\A q \in Calls : ~InProgress(q))

\* If nothing fails, what is done after a call's own statement is done as well,
\* though the call may be over before: the author of a request is told of every
\* response to it, and every visit is counted (handler/request.go:253-263,
\* service/analytics.go:25-30).  If something fails, nobody ever does it.
AftermathFollows ==
    ~scene.faults =>
        []<>(/\ DOMAIN responses \subseteq DOMAIN notices
             /\ \A q \in Calls : Served(q, "visit") => q \in DOMAIN events)
=============================================================================
