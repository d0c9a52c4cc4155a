-------------------------- MODULE CommunityProofs ---------------------------
(***************************************************************************)
(* What holds of the composition of everything but ratings, registration,  *)
(* sessions and sockets, whatever the number of users and of calls: the    *)
(* calls themselves, the wall, the password reset, the conversations, and  *)
(* the requests, questions and notifications.  A table is written by the   *)
(* steps of its own module alone (BulletinAlone, PasswordResetAlone,       *)
(* ConversationsAlone, BoardsAlone), and what a call has told stands as    *)
(* long as the rows it told of do; so each invariant needs the invariant   *)
(* of the calls, CallInv, and of the other modules nothing at all.         *)
(***************************************************************************)
EXTENDS Community, FiniteSetTheorems, TLAPS

\* The fields of the record of a call.
Fields == {"kind", "by", "on", "arg", "pc", "outcome", "page", "after"}

\* What a call says is what some client may say.
AsAsked(q) ==
    \E c \in ClientCalls : /\ call[q].kind = c.kind /\ call[q].by = c.by
                           /\ call[q].on = c.on /\ call[q].arg = c.arg

\* A call has not arrived, and nothing is known of it, or is what some client asks;
\* it follows calls that have been answered, and calls arrive in their order.
CallInv ==
    /\ CallTypeOK
    /\ \A q \in Calls :
        /\ call[q].pc = "new" => call[q] = NewCall
        /\ call[q].pc # "new" => call[q].by \in Users /\ AsAsked(q)
        /\ \A p \in call[q].after : Done(p)
    /\ \A p, q \in Calls : p < q /\ At(p, "new") => At(q, "new")

\* A call goes on from one statement to another, or is answered.
Moved(q, phase, outcome, page) ==
    /\ DOMAIN call' = DOMAIN call
    /\ \A p \in Calls \ {q} : call'[p] = call[p]
    /\ DOMAIN call'[q] = Fields
    /\ call'[q].kind = call[q].kind /\ call'[q].by = call[q].by
    /\ call'[q].on = call[q].on /\ call'[q].arg = call[q].arg
    /\ call'[q].after = call[q].after
    /\ call'[q].pc = phase /\ call'[q].outcome = outcome /\ call'[q].page = page

\* A step of a call that is being served: the phase is another, and there is an
\* outcome exactly when it ends.
Advance(q) ==
    /\ InProgress(q)
    /\ \E phase, outcome, page :
          /\ Moved(q, phase, outcome, page)
          /\ phase # "new" /\ (outcome = "none" <=> phase # "done")

\* A call is a name for the rows that it makes; 0 is that of the rows of before.
LEMMA CallsAreIds == Calls \subseteq Ids /\ 0 \in Ids /\ 0 \notin Calls
  BY CallsAssumption DEF Calls, Ids

\* The record of a call has its fields.
LEMMA FieldsOfCall == DOMAIN NewCall = Fields
  BY DEF NewCall, Fields

\* The four ways to go on with a call, and the commit that may fail, as Moved says it.
LEMMA GotoMoves ==
    ASSUME CallTypeOK, NEW q \in Calls, NEW phase, Goto(q, phase)
    PROVE  Moved(q, phase, call[q].outcome, call[q].page)
  BY FieldsOfCall DEF CallTypeOK, Goto, Moved, Fields

\* Keep takes a page along.
LEMMA KeepMoves ==
    ASSUME CallTypeOK, NEW q \in Calls, NEW phase, NEW page, Keep(q, phase, page)
    PROVE  Moved(q, phase, call[q].outcome, page)
  BY FieldsOfCall DEF CallTypeOK, Keep, Moved, Fields

\* Finish answers with an outcome.
LEMMA FinishMoves ==
    ASSUME CallTypeOK, NEW q \in Calls, NEW outcome, Finish(q, outcome)
    PROVE  Moved(q, "done", outcome, call[q].page)
  BY FieldsOfCall DEF CallTypeOK, Finish, Moved, Fields

\* Show answers with a page.
LEMMA ShowMoves ==
    ASSUME CallTypeOK, NEW q \in Calls, NEW page, Show(q, page)
    PROVE  Moved(q, "done", "ok", page)
  BY FieldsOfCall DEF CallTypeOK, Show, Moved, Fields

\* A failure has an outcome of its own, and it is not "ok".
LEMMA Failures ==
    ASSUME NEW kind PROVE FailureOf(kind) \in {"notFound", "invalid", "invalidCode", "error"}
  BY DEF FailureOf

\* The outcomes of a call that fails.
Failings(q) == {FailureOf(call[q].kind), CheckFailureOf(q)}

\* So has that of the statement that looks whose row it is.
LEMMA CheckFailures ==
    ASSUME NEW q PROVE Failings(q) \subseteq {"notFound", "invalid", "invalidCode", "error"}
  BY Failures DEF CheckFailureOf, Failings

\* A commit ends the call, either way.
LEMMA CommitMoves ==
    ASSUME CallTypeOK, NEW q \in Calls, Committed(q)
    PROVE  \E outcome : Moved(q, "done", outcome, call[q].page) /\ outcome # "none"
<1>1. CASE Finish(q, "ok")
  BY <1>1, FinishMoves
<1>2. CASE Finish(q, FailureOf(call[q].kind))
  BY <1>2, FinishMoves, Failures
<1> QED
  BY <1>1, <1>2 DEF Committed

\* What is known of calls is kept by a step of one of them.
LEMMA AdvanceKeepsCalls ==
    ASSUME CallInv, NEW q \in Calls, Advance(q), UNCHANGED scene
    PROVE  CallInv'
<1>1. PICK phase, outcome, page : /\ Moved(q, phase, outcome, page) /\ phase # "new"
                                  /\ (outcome = "none" <=> phase # "done")
  BY DEF Advance
<1>2. CallTypeOK'
  BY <1>1, FieldsOfCall DEF CallInv, CallTypeOK, Moved
<1>3. \A p \in Calls : At(p, "new")' <=> At(p, "new")
  BY <1>1 DEF Moved, At, Advance, InProgress, CallInv, CallTypeOK
<1>4. \A p \in Calls : Done(p) => Done(p)'
  BY <1>1 DEF Moved, At, Done, Advance, InProgress
<1>5. ASSUME NEW p \in Calls
      PROVE  /\ call'[p].pc = "new" => call'[p] = NewCall
             /\ call'[p].pc # "new" => call'[p].by \in Users /\ AsAsked(p)'
             /\ call'[p].after = call[p].after
  BY <1>1, <1>3 DEF Moved, CallInv, Advance, InProgress, At, AsAsked
<1>6. \A p \in Calls : call[p].after \subseteq Calls
  BY CallsAssumption DEF CallInv, CallTypeOK, Calls
<1> QED
  BY <1>2, <1>3, <1>4, <1>5, <1>6 DEF CallInv, At

\* The record a call becomes when it arrives.
Arrived(q, c) ==
    /\ c \in scene.calls /\ At(q, "new")
    /\ DOMAIN call' = DOMAIN call
    /\ \A p \in Calls \ {q} : call'[p] = call[p]
    /\ DOMAIN call'[q] = Fields
    /\ call'[q].kind = c.kind /\ call'[q].by = c.by /\ call'[q].on = c.on /\ call'[q].arg = c.arg
    /\ call'[q].page = {} /\ call'[q].after = {p \in Calls : Done(p)}
    /\ \/ call'[q].pc = "arrived" /\ call'[q].outcome = "none" /\ Role[c.by] \in Allowed(c.kind)
       \/ call'[q].pc = "done" /\ call'[q].outcome = "forbidden"

\* Arrive, as Arrived says it.
LEMMA ArriveArrives ==
    ASSUME CallInv, NEW q \in Calls, NEW c \in scene.calls, Arrive(q, c)
    PROVE  Arrived(q, c)
  BY FieldsOfCall DEF CallInv, CallTypeOK, Arrive, Arrived, Fields, At, NewCall

\* What is known of calls is kept by the arrival of the next.
LEMMA ArriveKeepsCalls ==
    ASSUME CallInv, NEW q \in Calls, NEW c \in scene.calls, Arrive(q, c)
    PROVE  CallInv'
<1>0. Arrived(q, c)
  BY ArriveArrives
<1>1. UNCHANGED scene /\ \A p \in Calls : p < q => ~At(p, "new")
  BY DEF Arrive, Calls
<1>2. \A p \in Calls : Done(p) => p < q
  BY <1>1, <1>0 DEF CallInv, CallTypeOK, Done, At, Calls, Arrived
<1>3. CallTypeOK'
  <2>1. c.by \in Users
    BY CallsAssumption DEF CallInv, CallTypeOK, ClientCalls
  <2> QED
    BY <1>0, <1>1, <1>2, <2>1, FieldsOfCall DEF Arrived, CallInv, CallTypeOK, Calls
<1>4. \A p \in Calls : Done(p) => Done(p)'
  BY <1>0 DEF Arrived, Done, At
<1>5. ~At(q, "new")' /\ \A p \in Calls \ {q} : At(p, "new")' <=> At(p, "new")
  BY <1>0 DEF Arrived, At
<1>6. ASSUME NEW p \in Calls
      PROVE  /\ call'[p].pc = "new" => call'[p] = NewCall
             /\ call'[p].pc # "new" => call'[p].by \in Users /\ AsAsked(p)'
             /\ \A r \in call'[p].after : Done(r)'
  <2>1. CASE p = q
    <3>0. c \in ClientCalls
      BY <1>0 DEF Arrived, CallInv, CallTypeOK, ClientCalls
    <3>1. c.by \in Users
      BY <3>0, CallsAssumption
    <3>2. AsAsked(p)'
      BY <2>1, <3>0, <1>0 DEF Arrived, AsAsked
    <3> QED
      BY <2>1, <3>1, <3>2, <1>0, <1>4 DEF Arrived
  <2>2. CASE p # q
    <3>1. call'[p] = call[p] /\ AsAsked(p)' = AsAsked(p)
      BY <2>2, <1>0, <1>1 DEF Arrived, AsAsked
    <3>2. call[p].after \subseteq Calls
      BY CallsAssumption DEF CallInv, CallTypeOK, Calls
    <3> QED
      BY <3>1, <3>2, <1>4 DEF CallInv
  <2> QED
    BY <2>1, <2>2
<1>7. ASSUME NEW p \in Calls, NEW r \in Calls, p < r, At(p, "new")' PROVE At(r, "new")'
  BY <1>1, <1>5, <1>7 DEF CallInv, Calls
<1> QED
  BY <1>3, <1>6, <1>7 DEF CallInv

-----------------------------------------------------------------------------
\* The ways to go on with a call that is in progress advance it.
LEMMA GotoAdvances ==
    ASSUME CallTypeOK, NEW q \in Calls, NEW phase, Goto(q, phase), InProgress(q),
           phase \notin {"new", "done"}
    PROVE  Advance(q)
  BY GotoMoves DEF Advance, CallTypeOK, InProgress

\* The same of Keep.
LEMMA KeepAdvances ==
    ASSUME CallTypeOK, NEW q \in Calls, NEW phase, NEW page, Keep(q, phase, page), InProgress(q),
           phase \notin {"new", "done"}
    PROVE  Advance(q)
  BY KeepMoves DEF Advance, CallTypeOK, InProgress

\* The same of Finish.
LEMMA FinishAdvances ==
    ASSUME CallTypeOK, NEW q \in Calls, NEW outcome, Finish(q, outcome), InProgress(q),
           outcome # "none"
    PROVE  Advance(q)
  BY FinishMoves DEF Advance

\* The same of Show.
LEMMA ShowAdvances ==
    ASSUME CallTypeOK, NEW q \in Calls, NEW page, Show(q, page), InProgress(q)
    PROVE  Advance(q)
  BY ShowMoves DEF Advance

\* The same of a commit.
LEMMA CommitAdvances ==
    ASSUME CallTypeOK, NEW q \in Calls, Committed(q), InProgress(q)
    PROVE  Advance(q)
  BY CommitMoves DEF Advance

\* The calls that each module serves.
NoticesKinds == {"notices", "unread", "readAll"}
RequestsKinds == {"feed", "publish", "request", "setStatus", "respond", "responses"}
QuestionsKinds == {"questions", "ask", "answer"}
BulletinKinds == {"post", "wall", "pending", "review"}
AccountsKinds == {"leave", "remove", "comeBack", "status", "users"}
PageKinds == {"save", "saveAgenda", "visit", "myPage", "search", "featured", "favorites", "favorite",
              "unfavorite", "summary", "dashboard", "categories", "services", "stats"}
TalkKinds == {"chat", "inbox", "history", "read", "say"}
ResetKinds == {"forgot", "reset", "enter"}

\* A step of the notifications is a step of one call of theirs.
LEMMA NoticesAdvance ==
    ASSUME CallTypeOK, NEW q \in Calls, NoticesStep(q)
    PROVE  Advance(q) /\ call[q].kind \in NoticesKinds
  BY ShowAdvances, CommitAdvances
  DEF NoticesStep, ListNotices, UnreadCount, MarkAllRead, Serving, InProgress, At, NoticesKinds

\* A step of the service requests is a step of one call of theirs.
LEMMA RequestsAdvance ==
    ASSUME CallTypeOK, NEW q \in Calls, RequestsStep(q)
    PROVE  Advance(q) /\ call[q].kind \in RequestsKinds
<1> USE DEF Serving, ServingAt, InProgress, At, RequestsKinds
<1>1. CASE Feed(q) \/ GetRequest(q) \/ ListResponses(q) \/ RefuseResponse(q)
  BY <1>1, ShowAdvances, FinishAdvances DEF Feed, GetRequest, ListResponses, RefuseResponse
<1>2. CASE Publish(q) \/ UpdateStatus(q)
  BY <1>2, CommitAdvances, FinishAdvances DEF Publish, UpdateStatus
<1>3. CASE Respond(q) \/ TellRequester(q)
  BY <1>3, GotoAdvances, FinishAdvances DEF Respond, TellRequester, NotifyOrNot
<1> QED
  BY <1>1, <1>2, <1>3 DEF RequestsStep

\* A step of the questions is a step of one call of theirs.
LEMMA QuestionsAdvance ==
    ASSUME CallTypeOK, NEW q \in Calls, QuestionsStep(q)
    PROVE  Advance(q) /\ call[q].kind \in QuestionsKinds
<1> USE DEF Serving, ServingAt, InProgress, At, QuestionsKinds
<1>1. CASE Ask(q) \/ TellProvider(q)
  BY <1>1, GotoAdvances, FinishAdvances DEF Ask, TellProvider, NotifyOrNot
<1>2. CASE ListQuestions(q)
  BY <1>2, KeepAdvances, ShowAdvances DEF ListQuestions, ReadQuestions, ReadAnswers
<1>3. CASE Answer(q)
  BY <1>3, CommitAdvances, FinishAdvances DEF Answer
<1> QED
  BY <1>1, <1>2, <1>3 DEF QuestionsStep

\* A step of the wall is a step of one call of its own.
LEMMA BulletinAdvance ==
    ASSUME CallTypeOK, NEW q \in Calls, BulletinStep(q)
    PROVE  Advance(q) /\ call[q].kind \in BulletinKinds
  BY ShowAdvances, CommitAdvances, FinishAdvances
  DEF BulletinStep, CreatePost, ListApproved, ListPending, Review, Serving, InProgress, At, BulletinKinds

\* A step of the accounts is a step of one call of theirs.
LEMMA AccountsAdvance ==
    ASSUME CallTypeOK, NEW q \in Calls, AccountsStep(q)
    PROVE  Advance(q) /\ call[q].kind \in AccountsKinds
<1> USE DEF Serving, InProgress, At, AccountsKinds
<1>1. CASE Leave(q) \/ Remove(q)
  BY <1>1, CommitAdvances, FinishAdvances DEF Leave, Remove
<1>2. CASE ComeBack(q)
  BY <1>2, FinishAdvances DEF ComeBack
<1>3. CASE UpdateUserStatus(q) \/ ListUsers(q)
  BY <1>3, CommitAdvances, ShowAdvances, FinishAdvances DEF UpdateUserStatus, ListUsers
<1> QED
  BY <1>1, <1>2, <1>3 DEF AccountsStep

\* A step of the pages of providers is a step of one call of theirs.
LEMMA ProviderPageAdvance ==
    ASSUME CallTypeOK, NEW q \in Calls, ProviderPageStep(q)
    PROVE  Advance(q) /\ call[q].kind \in PageKinds
<1> USE DEF Serving, ServingAt, Listing, Paging, InProgress, At, PageKinds
<1>1. CASE ValidateSlugs(q) \/ LockProfile(q) \/ CommitSave(q)
  BY <1>1, GotoAdvances, KeepAdvances, CommitAdvances, FinishAdvances
  DEF ValidateSlugs, LockProfile, CommitSave
<1>2. CASE FindSlots(q) \/ DeleteSlots(q) \/ InsertSlot(q) \/ CommitAgenda(q)
  BY <1>2, KeepAdvances, CommitAdvances, FinishAdvances
  DEF FindSlots, DeleteSlots, InsertSlot, CommitAgenda, Inserting
<1>3. CASE ReadProfile(q)
  BY <1>3, KeepAdvances, FinishAdvances DEF ReadProfile
<1>4. CASE GetCategories(q) \/ GetCategorySlugs(q) \/ GetAvailability(q)
  <2>1. PICK phase, part, next, table :
          /\ ReadSlice(q, phase, part, next, table) /\ phase \in {"names", "slugs", "slots"}
          /\ next \in {"slugs", "slots", "facts"}
    BY <1>4 DEF GetCategories, GetCategorySlugs, GetAvailability
  <2>2. PICK page : Keep(q, next, page)
    BY <2>1 DEF ReadSlice
  <2>3. InProgress(q) /\ call[q].kind \in PageKinds
    BY <2>1 DEF ReadSlice
  <2> QED
    BY <2>1, <2>2, <2>3, KeepAdvances
<1>5. CASE FindProviders(q) \/ AttachCategories(q) \/ AttachSeals(q)
  <2>1. CASE FindProviders(q)
    <3>1. (\E shown : Show(q, shown)) \/ (\E shown : Keep(q, "names", shown))
      BY <2>1 DEF FindProviders
    <3> QED
      BY <2>1, <3>1, KeepAdvances, ShowAdvances DEF FindProviders
  <2>2. CASE AttachCategories(q)
    BY <2>2, KeepAdvances DEF AttachCategories
  <2>3. CASE AttachSeals(q)
    BY <2>3, ShowAdvances DEF AttachSeals
  <2> QED
    BY <1>5, <2>1, <2>2, <2>3
<1>6. CASE MyRatingSummary(q) \/ ReadCounts(q) \/ ReadRank(q)
  <2>1. CASE MyRatingSummary(q)
    BY <2>1, FinishAdvances DEF MyRatingSummary
  <2>2. CASE ReadCounts(q)
    BY <2>2, KeepAdvances, FinishAdvances DEF ReadCounts
  <2>3. CASE ReadRank(q)
    <3>1. \E page : Show(q, page)
      BY <2>3 DEF ReadRank
    <3> QED
      BY <2>3, <3>1, ShowAdvances DEF ReadRank
  <2> QED
    BY <1>6, <2>1, <2>2, <2>3
<1>9. CASE ReadFacts(q)
  <2>1. \E page : Show(q, page)
    BY <1>9 DEF ReadFacts
  <2> QED
    BY <1>9, <2>1, ShowAdvances DEF ReadFacts
<1>7. CASE ListCategories(q) \/ ListProviderServices(q) \/ Stats(q)
  BY <1>7, ShowAdvances DEF ListCategories, ListProviderServices, Stats
<1>8. CASE Favorite(q) \/ Unfavorite(q)
  BY <1>8, CommitAdvances, FinishAdvances DEF Favorite, Unfavorite
<1> QED
  BY <1>1, <1>2, <1>3, <1>4, <1>5, <1>6, <1>7, <1>8, <1>9 DEF ProviderPageStep

\* A step of the conversations is a step of one call of theirs.
LEMMA ConversationsAdvance ==
    ASSUME CallTypeOK, NEW q \in Calls, ConversationsStep(q)
    PROVE  Advance(q) /\ call[q].kind \in TalkKinds
<1> USE DEF Serving, ServingAt, InProgress, At, TalkKinds
<1>1. CASE FindConversation(q) \/ InsertConversation(q)
  BY <1>1, GotoAdvances, ShowAdvances, FinishAdvances DEF FindConversation, InsertConversation
<1>2. CASE ListConversations(q) \/ ListMessages(q)
  BY <1>2, ShowAdvances, FinishAdvances DEF ListConversations, ListMessages, Refuse
<1>3. CASE MarkRead(q) \/ PersistMessage(q) \/ MessageStored(q)
  BY <1>3, CommitAdvances, FinishAdvances, GotoAdvances
  DEF MarkRead, PersistMessage, MessageStored, Refuse
<1> QED
  BY <1>1, <1>2, <1>3 DEF ConversationsStep

\* A step of the password reset is a step of one call of its own.
LEMMA PasswordResetAdvance ==
    ASSUME CallTypeOK, NEW q \in Calls, PasswordResetStep(q)
    PROVE  Advance(q) /\ call[q].kind \in ResetKinds
<1> USE DEF Serving, ServingAt, InProgress, At, ResetKinds
<1>1. CASE RequestPasswordReset(q) \/ CheckCode(q) \/ Enter(q)
  BY <1>1, GotoAdvances, FinishAdvances DEF RequestPasswordReset, CheckCode, Enter
<1>2. CASE WritePassword(q) \/ MarkCodes(q) \/ CommitReset(q)
  BY <1>2, GotoAdvances, KeepAdvances, CommitAdvances DEF WritePassword, MarkCodes, CommitReset
<1> QED
  BY <1>1, <1>2 DEF PasswordResetStep

\* A statement that fails ends its call with the outcome of a failure.
LEMMA FaultAdvances ==
    ASSUME CallTypeOK, NEW q \in Calls, Fault(q)
    PROVE  (\E outcome \in Failings(q) : Moved(q, "done", outcome, call[q].page)) /\ Advance(q)
<1>1. PICK outcome \in Failings(q) : Finish(q, outcome)
  BY DEF Fault, Failings
<1>2. outcome # "none"
  BY CheckFailures
<1>3. Moved(q, "done", outcome, call[q].page) /\ Advance(q)
  BY <1>1, <1>2, FinishMoves, FinishAdvances DEF Fault
<1> QED
  BY <1>3

-----------------------------------------------------------------------------
(* Steps, as seen by what they do not touch.                               *)

\* A call in progress fails, and what it showed so far is left.
Fails(q) ==
    /\ scene.faults /\ InProgress(q)
    /\ \E outcome \in Failings(q) : Moved(q, "done", outcome, call[q].page)

\* No call of these kinds goes on, unless it fails.
Elsewhere(kinds) ==
    \/ call' = call
    \/ \E q \in Calls : \/ \E c \in scene.calls : Arrived(q, c)
                        \/ Fails(q)
                        \/ Advance(q) /\ call[q].kind \notin kinds

\* Fault, as Fails says it.
LEMMA FaultFails ==
    ASSUME CallTypeOK, NEW q \in Calls, Fault(q) PROVE Fails(q)
  BY FaultAdvances DEF Fault, Fails

\* Every kind of call that a module serves.
AllKinds == NoticesKinds \cup RequestsKinds \cup QuestionsKinds \cup BulletinKinds \cup AccountsKinds
              \cup PageKinds \cup TalkKinds \cup ResetKinds

\* Everything a step may be.
StepCases ==
    \/ Elsewhere(AllKinds) /\ UNCHANGED rows
    \/ \E q \in Calls :
          \/ /\ UNCHANGED <<accounts, visits, profiles, talks, secrets>>
             /\ \/ NoticesStep(q) /\ UNCHANGED boards
                \/ RequestsStep(q) /\ UNCHANGED <<questions, answers, posts>>
                \/ QuestionsStep(q) /\ UNCHANGED <<requests, responses, posts>>
                \/ BulletinStep(q) /\ UNCHANGED <<notices, requests, responses, questions, answers>>
          \/ /\ UNCHANGED <<notices, boards>>
             /\ \/ AccountsStep(q) /\ UNCHANGED <<visits, profiles, talks, secrets>>
                \/ ProviderPageStep(q) /\ UNCHANGED <<talks, secrets>>
                \/ ConversationsStep(q) /\ UNCHANGED <<profiles, secrets>>
                \/ PasswordResetStep(q) /\ UNCHANGED <<accounts, visits, profiles, talks>>
          \/ Record(q)

\* A step of the composition is one of those, and the scene stays.
LEMMA StepIsOneOf ==
    ASSUME CallInv, [Next]_vars
    PROVE  StepCases /\ UNCHANGED scene
<1>1. CASE UNCHANGED vars
  BY <1>1 DEF vars, StepCases, Elsewhere
<1>2. ASSUME NEW q \in Calls, NEW c \in scene.calls, Arrive(q, c), UNCHANGED rows
      PROVE  StepCases /\ UNCHANGED scene
  BY <1>2, ArriveArrives DEF StepCases, Elsewhere, Arrive
<1>3. ASSUME NEW q \in Calls, Fault(q), UNCHANGED <<scene, rows>>
      PROVE  StepCases /\ UNCHANGED scene
  BY <1>3, FaultFails DEF StepCases, Elsewhere, CallInv
<1>4. ASSUME NEW q \in Calls, Record(q)
      PROVE  StepCases /\ UNCHANGED scene
  BY <1>4 DEF StepCases, Record
<1>5. ASSUME NEW q \in Calls, ServeBoards(q), UNCHANGED <<accounts, visits, profiles, talks, secrets>>
      PROVE  StepCases /\ UNCHANGED scene
  BY <1>5 DEF StepCases, ServeBoards, NoticesStep, RequestsStep, QuestionsStep, BulletinStep
<1>6. ASSUME NEW q \in Calls, ServeUsers(q), UNCHANGED <<notices, boards>>
      PROVE  StepCases /\ UNCHANGED scene
  BY <1>6 DEF StepCases, ServeUsers, AccountsStep, ProviderPageStep, ConversationsStep, PasswordResetStep
<1> QED
  BY <1>1, <1>2, <1>3, <1>4, <1>5, <1>6 DEF Next, Serve

\* What each module does to the calls: one of its own goes on.
LEMMA StepsAdvance ==
    ASSUME CallTypeOK, NEW q \in Calls
    PROVE  /\ NoticesStep(q) => Advance(q) /\ call[q].kind \in NoticesKinds
           /\ RequestsStep(q) => Advance(q) /\ call[q].kind \in RequestsKinds
           /\ QuestionsStep(q) => Advance(q) /\ call[q].kind \in QuestionsKinds
           /\ BulletinStep(q) => Advance(q) /\ call[q].kind \in BulletinKinds
           /\ AccountsStep(q) => Advance(q) /\ call[q].kind \in AccountsKinds
           /\ ProviderPageStep(q) => Advance(q) /\ call[q].kind \in PageKinds
           /\ ConversationsStep(q) => Advance(q) /\ call[q].kind \in TalkKinds
           /\ PasswordResetStep(q) => Advance(q) /\ call[q].kind \in ResetKinds
           /\ Record(q) => call' = call
  BY NoticesAdvance, RequestsAdvance, QuestionsAdvance, BulletinAdvance, AccountsAdvance,
     ProviderPageAdvance, ConversationsAdvance, PasswordResetAdvance DEF Record

\* Whatever a step is, at most one call arrives, fails or goes on.
LEMMA CallStep ==
    ASSUME CallInv, [Next]_vars
    PROVE  Elsewhere({}) /\ UNCHANGED scene
  BY StepIsOneOf, StepsAdvance DEF StepCases, Elsewhere, CallInv

\* What is known of calls is kept by every step.
LEMMA CallInvStep ==
    ASSUME CallInv, [Next]_vars PROVE CallInv'
<1>1. ASSUME NEW q \in Calls, NEW c \in scene.calls, Arrive(q, c) PROVE CallInv'
  BY <1>1, ArriveKeepsCalls
<1>2. CASE UNCHANGED <<call, scene>>
  BY <1>2 DEF CallInv, CallTypeOK, At, Done, AsAsked
<1>3. ASSUME NEW q \in Calls, Advance(q), UNCHANGED scene PROVE CallInv'
  BY <1>3, AdvanceKeepsCalls
<1>4. CASE Next
  <2>1. PICK q \in Calls : \/ \E c \in scene.calls : Arrive(q, c) /\ UNCHANGED rows
                           \/ Serve(q) \/ Record(q)
                           \/ Fault(q) /\ UNCHANGED <<scene, rows>>
    BY <1>4 DEF Next
  <2>2. CASE Serve(q)
    BY <2>2, <1>3, StepsAdvance
    DEF Serve, ServeBoards, ServeUsers, CallInv, NoticesStep, RequestsStep, QuestionsStep,
        BulletinStep, AccountsStep, ProviderPageStep, ConversationsStep, PasswordResetStep
  <2>3. CASE Fault(q) /\ UNCHANGED scene
    BY <2>3, <1>3, FaultAdvances DEF CallInv
  <2> QED
    BY <2>1, <2>2, <2>3, <1>1, <1>2 DEF Record
<1> QED
  BY <1>2, <1>4 DEF vars

\* It is true before any call.
LEMMA CallInvInit == Init => CallInv
  BY CallsAssumption DEF Init, CallInit, CallInv, CallTypeOK, NewCall, At, Calls, AsAsked, Done

\* At first no call has arrived.
LEMMA NoCallsYet ==
    Init => /\ \A q \in Calls : /\ call[q].kind = "none" /\ call[q].pc = "new" /\ call[q].outcome = "none"
                                 /\ call[q].page = {} /\ call[q].after = {}
            /\ 0 \notin Calls /\ 0 \in Ids
  BY CallsAssumption DEF Init, CallInit, NewCall, Calls, Ids

\* A call that has been answered is not touched again, and one that has arrived
\* stays what it is.
Onward ==
    \A p \in Calls : ~At(p, "new") =>
        /\ Done(p) => call'[p] = call[p]
        /\ ~At(p, "new")' /\ call'[p].kind = call[p].kind /\ call'[p].by = call[p].by
        /\ call'[p].on = call[p].on /\ call'[p].arg = call[p].arg /\ call'[p].after = call[p].after

\* Every step lets the calls stand as Onward says.
LEMMA StepIsOnward ==
    ASSUME CallInv, [Next]_vars PROVE Onward
<1>1. CASE call' = call
  BY <1>1 DEF Onward, At, Done
<1>2. ASSUME NEW q \in Calls, NEW c \in scene.calls, Arrived(q, c) PROVE Onward
  BY <1>2 DEF Onward, At, Done, Arrived
<1>3. ASSUME NEW q \in Calls, Advance(q) PROVE Onward
  BY <1>3 DEF Onward, At, Done, Advance, Moved, InProgress
<1>4. ASSUME NEW q \in Calls, Fails(q) PROVE Onward
  BY <1>4 DEF Onward, At, Done, Fails, Moved, InProgress
<1> QED
  BY <1>1, <1>2, <1>3, <1>4, CallStep DEF Elsewhere

\* A call of these kinds is left alone, or arrives, or fails.
LEMMA OthersStay ==
    ASSUME CallTypeOK, NEW kinds, Elsewhere(kinds), NEW p \in Calls
    PROVE  \/ call'[p] = call[p]
           \/ Fails(p)
           \/ \E c \in scene.calls : Arrived(p, c)
           \/ call'[p].kind = call[p].kind /\ call[p].kind \notin kinds /\ Advance(p)
<1>1. CASE call' = call
  BY <1>1
<1>2. ASSUME NEW q \in Calls, p # q,
             (\E c \in scene.calls : Arrived(q, c)) \/ Fails(q) \/ Advance(q)
      PROVE  call'[p] = call[p]
  BY <1>2 DEF Arrived, Fails, Advance, Moved
<1>3. ASSUME Advance(p) PROVE call'[p].kind = call[p].kind
  BY <1>3 DEF Advance, Moved
<1> QED
  BY <1>1, <1>2, <1>3 DEF Elsewhere

\* The same, of the calls that are of these kinds after the step.
Untouched(p) == call'[p] = call[p]
\* What is known of a call that fails.
Failed(p) ==
    /\ scene.faults /\ InProgress(p) /\ call'[p].pc = "done"
    /\ call'[p].outcome \in {"notFound", "invalid", "invalidCode", "error"}
    /\ call'[p].outcome \in Failings(p) /\ call'[p].page = call[p].page
    /\ call'[p].kind = call[p].kind /\ call'[p].by = call[p].by /\ call'[p].on = call[p].on
    /\ call'[p].arg = call[p].arg /\ call'[p].after = call[p].after
\* What is known of a call that has just arrived.
Begun(p) ==
    /\ At(p, "new") /\ call'[p].page = {} /\ call'[p].after = {r \in Calls : Done(r)}
    /\ \/ call'[p].pc = "arrived" /\ call'[p].outcome = "none"
       \/ call'[p].pc = "done" /\ call'[p].outcome = "forbidden"

\* A step elsewhere leaves a call of these kinds alone, or it fails or begins.
LEMMA OthersOf ==
    ASSUME CallTypeOK, NEW kinds, Elsewhere(kinds), NEW p \in Calls, call'[p].kind \in kinds
    PROVE  Untouched(p) \/ Failed(p) \/ Begun(p)
<1>1. ASSUME Fails(p) PROVE Failed(p)
  BY <1>1, CheckFailures DEF Fails, Moved, Failed
<1>2. ASSUME NEW c, Arrived(p, c) PROVE Begun(p)
  BY <1>2 DEF Arrived, Begun
<1> QED
  BY <1>1, <1>2, OthersStay DEF Untouched

\* A step that advances one call leaves the others alone.
LEMMA ServesOne ==
    ASSUME NEW q \in Calls, Advance(q)
    PROVE  \A p \in Calls \ {q} : call'[p] = call[p]
  BY DEF Advance, Moved

-----------------------------------------------------------------------------
(* The wall of notices.                                                    *)

\* The posts are written by the wall alone.
LEMMA BulletinAlone ==
    ASSUME CallInv, [Next]_vars
    PROVE  \/ \E q \in Calls : BulletinStep(q)
           \/ Elsewhere(BulletinKinds) /\ posts' = posts
  BY StepIsOneOf, StepsAdvance
  DEF StepCases, Elsewhere, CallInv, AllKinds, BulletinKinds, NoticesKinds, RequestsKinds, QuestionsKinds,
      AccountsKinds, PageKinds, TalkKinds, ResetKinds, boards, rows, Record

\* Whose a post is, and which call made it.
PostRows ==
    /\ 0 \in DOMAIN posts => posts[0].by = OldPoster
    /\ \A i \in DOMAIN posts \cap Calls :
          call[i].kind = "post" /\ Done(i) /\ posts[i].by = call[i].by

\* What a call of the wall has told stands.
WallAsTold(q) ==
    /\ Served(q, "review") =>
          /\ call[q].on \in Decided
          /\ posts[call[q].on].status = call[q].arg /\ posts[call[q].on].decidedBy = By(q)
    /\ Served(q, "wall") => \A i \in call[q].page : posts[i].status = "approved"
    /\ call[q].kind \in BulletinKinds =>
          \A i \in call[q].page : /\ call[q].kind \in {"wall", "pending"}
                                  /\ i \in DOMAIN posts /\ Home[posts[i].by] = HomeOf(q)

\* Whoever decided on a post is of the community of its author.
DecidedHere ==
    \A i \in Decided : posts[i].decidedBy \in Users /\ Home[posts[i].by] = Home[posts[i].decidedBy]

\* The invariant of the wall.
BulletinInv ==
    /\ BulletinTypeOK /\ PostRows /\ DecidedHere
    /\ \A q \in Calls : WallAsTold(q)

\* The posts that there are stay, as do their authors and every decision.
PostsStay ==
    \A i \in DOMAIN posts :
        /\ i \in DOMAIN posts' /\ posts'[i].by = posts[i].by
        /\ posts[i].status # "pending" => posts'[i] = posts[i]

\* As long as posts and decisions stay, what a call has told stands.
LEMMA ToldStaysTold ==
    ASSUME PostsStay, NEW q \in Calls, WallAsTold(q), Untouched(q)
    PROVE  WallAsTold(q)'
<1> USE DEF Untouched, Served, Done, At, By, HomeOf, WallAsTold, Decided
<1>1. CASE Served(q, "review")
  BY <1>1 DEF PostsStay, BulletinKinds
<1>2. CASE call[q].kind \in BulletinKinds /\ ~Served(q, "review")
  BY <1>2 DEF PostsStay
<1>3. CASE call[q].kind \notin BulletinKinds
  BY <1>3 DEF BulletinKinds
<1> QED
  BY <1>1, <1>2, <1>3

\* A review asks for one of the decisions there are (handler/bulletin.go).
LEMMA PostArgs ==
    ASSUME CallInv, NEW q \in Calls, Serving(q, "review") PROVE call[q].arg \in Decisions
  BY BulletinAssumption DEF CallInv, Serving, At, AsAsked

\* The invariant of the wall is kept by every step of the composition.
LEMMA BulletinInvStep ==
    ASSUME CallInv, BulletinInv, [Next]_vars
    PROVE  BulletinInv'
<1>0. CallTypeOK /\ Onward /\ \A i \in Calls : i # 0
  BY StepIsOnward DEF CallInv, Calls
<1>1. ASSUME PostsStay, DOMAIN posts' = DOMAIN posts
      PROVE  PostRows'
  BY <1>0, <1>1 DEF PostsStay, BulletinInv, PostRows, Onward, Done, At
<1>2. CASE Elsewhere(BulletinKinds) /\ posts' = posts
  <2>1. PostsStay
    BY <1>2 DEF PostsStay
  <2>2. ASSUME NEW p \in Calls PROVE WallAsTold(p)'
    <3>1. CASE call'[p].kind \notin BulletinKinds
      BY <3>1 DEF WallAsTold, BulletinKinds, Served
    <3>2. CASE Untouched(p)
      BY <3>2, <2>1, ToldStaysTold DEF BulletinInv
    <3>3. CASE Failed(p) \/ Begun(p)
      BY <3>3, <1>2 DEF Failed, Begun, BulletinInv, WallAsTold, Served, HomeOf, By
    <3> QED
      BY <3>1, <3>2, <3>3, <1>2, <1>0, OthersOf
  <2> QED
    BY <1>1, <1>2, <2>1, <2>2 DEF BulletinInv, BulletinTypeOK, DecidedHere, Decided
<1>3. ASSUME NEW q \in Calls, BulletinStep(q)
      PROVE  BulletinInv'
  <2>0. Advance(q)
    BY <1>3, <1>0, BulletinAdvance
  <2>1. ASSUME PostsStay, WallAsTold(q)' PROVE \A p \in Calls : WallAsTold(p)'
    BY <2>1, <2>0, ServesOne, ToldStaysTold DEF BulletinInv, Untouched
  <2>2. CASE CreatePost(q)
    <3>1. q \notin DOMAIN posts /\ By(q) \in Users
      BY <2>2, <2>0 DEF BulletinInv, PostRows, Done, InProgress, Advance, CallInv, At, By
    <3>2. /\ DOMAIN posts' = DOMAIN posts \cup {q} /\ posts'[q] = NewPost(By(q))
          /\ \A i \in DOMAIN posts : posts'[i] = posts[i]
      BY <2>2, <3>1 DEF CreatePost, Put
    <3>3. PostsStay
      BY <3>2 DEF PostsStay
    <3>4. PICK outcome : Moved(q, "done", outcome, call[q].page)
      BY <2>2, <1>0, CommitMoves DEF CreatePost
    <3>5. WallAsTold(q)'
      BY <2>2, <3>4 DEF CreatePost, Moved, WallAsTold, BulletinInv, Serving, Served, BulletinKinds
    <3>6. BulletinTypeOK'
      BY <3>1, <3>2 DEF BulletinTypeOK, BulletinInv, Calls, Ids, NewPost, Post
    <3>7. PostRows'
      BY <2>2, <3>2, <3>4, <1>0
      DEF CreatePost, Moved, PostRows, BulletinInv, Onward, Done, At, NewPost, By, Serving
    <3>8. DecidedHere'
      BY <3>2 DEF DecidedHere, Decided, BulletinInv, NewPost
    <3> QED
      BY <3>3, <3>5, <3>6, <3>7, <3>8, <2>1 DEF BulletinInv
  <2>3. CASE ListApproved(q) \/ ListPending(q)
    <3>1. PostsStay /\ posts' = posts
      BY <2>3 DEF ListApproved, ListPending, PostsStay
    <3>2. WallAsTold(q)'
      <4>1. PICK page : /\ Moved(q, "done", "ok", page)
                        /\ \A i \in page : i \in DOMAIN posts /\ Home[posts[i].by] = HomeOf(q)
                        /\ call[q].kind = "wall" => \A i \in page : posts[i].status = "approved"
        <5>1. CASE ListApproved(q)
          <6>1. Newest(posts, PostsHere(q, "approved")) \subseteq PostsHere(q, "approved")
            BY DEF Newest
          <6>2. Moved(q, "done", "ok", Newest(posts, PostsHere(q, "approved")))
            BY <5>1, <1>0, ShowMoves DEF ListApproved
          <6> QED
            BY <5>1, <6>1, <6>2 DEF ListApproved, PostsHere, Serving
        <5>2. CASE ListPending(q)
          BY <5>2, <1>0, ShowMoves DEF ListPending, PostsHere, Serving
        <5> QED
          BY <2>3, <5>1, <5>2
      <4> QED
        BY <2>3, <4>1, <3>1
        DEF ListApproved, ListPending, Moved, WallAsTold, Serving, Served, HomeOf, By
    <3> QED
      BY <3>1, <3>2, <2>1, <1>1 DEF BulletinInv, BulletinTypeOK, DecidedHere, Decided
  <2>4. CASE Review(q)
    <3>1. CASE call[q].on \in PostsHere(q, "pending")
      <4>1. call[q].arg \in Decisions /\ By(q) \in Users /\ "pending" \notin Decisions
        BY <2>4, PostArgs DEF Review, Serving, CallInv, At, By, Decisions
      <4>2. Cardinality(Decided) \in Nat
        <5>1. IsFiniteSet(Ids) /\ Decided \subseteq Ids
          BY CallsAssumption, FS_Interval DEF Ids, Decided, BulletinInv, BulletinTypeOK
        <5> QED
          BY <5>1, FS_Subset, FS_CardinalityType
      <4>3. /\ DOMAIN posts' = DOMAIN posts
            /\ \A i \in DOMAIN posts \ {call[q].on} : posts'[i] = posts[i]
            /\ call[q].on \in DOMAIN posts /\ posts[call[q].on] \in Post
            /\ posts'[call[q].on] = [posts[call[q].on] EXCEPT !.status = call[q].arg,
                                       !.decidedBy = By(q), !.at = 1 + Cardinality(Decided)]
            /\ posts[call[q].on].status = "pending"
        BY <2>4, <3>1 DEF Review, PostsHere, BulletinInv, BulletinTypeOK
      <4>4. /\ posts'[call[q].on] \in Post
            /\ posts'[call[q].on].by = posts[call[q].on].by
            /\ posts'[call[q].on].status = call[q].arg /\ posts'[call[q].on].decidedBy = By(q)
        <5> DEFINE r == posts[call[q].on]
                   n == 1 + Cardinality(Decided)
                   u == By(q)
                   a == call[q].arg
        <5>1. r \in Post /\ n \in Nat /\ u \in Users /\ a \in Decisions
          BY <4>1, <4>2, <4>3
        <5>2. posts'[call[q].on] = [r EXCEPT !.status = a, !.decidedBy = u, !.at = n]
          BY <4>3
        <5> HIDE DEF r, n, u, a
        <5>3. /\ posts'[call[q].on] \in Post /\ posts'[call[q].on].by = r.by
              /\ posts'[call[q].on].status = a /\ posts'[call[q].on].decidedBy = u
          BY <5>1, <5>2 DEF Post
        <5> QED
          BY <5>3 DEF r, u, a
      <4>5. PostsStay
        BY <4>3, <4>4 DEF PostsStay
      <4>6. PICK outcome : Moved(q, "done", outcome, call[q].page)
        BY <2>4, <3>1, <1>0, CommitMoves DEF Review
      <4>7. WallAsTold(q)'
        <5>1. call[q].on \in Decided'
          BY <4>1, <4>3, <4>4 DEF Decided
        <5>2. call[q].page = {} /\ call[q].kind = "review"
          BY <2>4 DEF Review, Serving, BulletinInv, WallAsTold, BulletinKinds
        <5> QED
          BY <5>1, <5>2, <4>4, <4>6 DEF Moved, WallAsTold, Served, By
      <4>8. BulletinTypeOK'
        BY <4>3, <4>4 DEF BulletinTypeOK, BulletinInv
      <4>9. DecidedHere'
        BY <3>1, <4>1, <4>3, <4>4 DEF DecidedHere, Decided, BulletinInv, PostsHere, HomeOf, By
      <4> QED
        BY <4>3, <4>5, <4>7, <4>8, <4>9, <1>1, <2>1 DEF BulletinInv
    <3>2. CASE call[q].on \notin PostsHere(q, "pending")
      <4>1. PostsStay /\ posts' = posts /\ Moved(q, "done", "notFound", call[q].page)
        BY <2>4, <3>2, <1>0, FinishMoves DEF Review, PostsStay
      <4>2. WallAsTold(q)'
        BY <2>4, <4>1 DEF Review, Moved, WallAsTold, BulletinInv, Serving, Served, BulletinKinds
      <4> QED
        BY <4>1, <4>2, <2>1, <1>1 DEF BulletinInv, BulletinTypeOK, DecidedHere, Decided
    <3> QED
      BY <3>1, <3>2
  <2> QED
    BY <1>3, <2>2, <2>3, <2>4 DEF BulletinStep
<1> QED
  BY <1>2, <1>3, BulletinAlone

\* It is true at first.
LEMMA BulletinInvInit == Init => BulletinInv
<1> SUFFICES ASSUME Init PROVE BulletinInv
  OBVIOUS
<1>1. posts = [i \in {0} |-> NewPost(OldPoster)] /\ NewPost(OldPoster) \in Post
  BY BulletinAssumption DEF Init, BulletinInit, NewPost, Post
<1>2. BulletinTypeOK /\ PostRows /\ DecidedHere
  BY <1>1, NoCallsYet DEF BulletinTypeOK, PostRows, DecidedHere, Decided, NewPost
<1>3. \A q \in Calls : WallAsTold(q)
  BY NoCallsYet DEF WallAsTold, Served, BulletinKinds
<1> QED
  BY <1>2, <1>3 DEF BulletinInv

\* Of the admins who review a post at the same time one decides, and the decision
\* stands; what has been shown on the wall is approved (service/bulletin.go:95-106).
THEOREM ReviewsStand == Spec => []ReviewStands
<1>1. BulletinInv => ReviewStands
  BY DEF BulletinInv, WallAsTold, ReviewStands
<1> QED
  BY BulletinInvInit, <1>1, CallInvInit, CallInvStep, BulletinInvStep, PTL DEF Spec

-----------------------------------------------------------------------------
(* The code for who has forgotten the password.                            *)

\* Codes and passwords are written by the password reset alone.
LEMMA PasswordResetAlone ==
    ASSUME CallInv, [Next]_vars
    PROVE  \/ \E q \in Calls : PasswordResetStep(q)
           \/ Elsewhere(ResetKinds) /\ UNCHANGED secrets
  BY StepIsOneOf, StepsAdvance
  DEF StepCases, Elsewhere, CallInv, AllKinds, BulletinKinds, NoticesKinds, RequestsKinds, QuestionsKinds,
      AccountsKinds, PageKinds, TalkKinds, ResetKinds, boards, rows, Record

\* Which call asked for a code.
CodeRows ==
    \A k \in DOMAIN codes \cap Calls : call[k].kind = "forgot" /\ Done(k)

\* The password of u is that of no reset, or that of one whose code is used.
PasswordOf(u) ==
    /\ passwords[u] = 0 => \A k \in CodesOf(u) : ~codes[k].used
    /\ passwords[u] # 0 =>
          /\ passwords[u] \in Calls /\ Done(passwords[u])
          /\ call[passwords[u]].on \in CodesOf(u) /\ codes[call[passwords[u]].on].used

\* The resets of the same account that had been answered when q arrived.
EarlierResets(q) == {r \in call[q].after : Served(r, "reset") /\ By(r) = By(q)}

\* The code of q was none that an earlier reset had done away with.
Entitled(q) ==
    /\ call[q].on \in CodesOf(By(q))
    /\ \A r \in EarlierResets(q) : call[q].on \notin call[r].after \cup {0, call[r].on}

\* The codes that q does away with, if it succeeds.
Doomed(q) == {k \in CodesOf(By(q)) : k \in call[q].after \cup {0, call[q].on}}

\* What a reset knows of its code from one statement to the next, and what it and an
\* entry have told once they are answered.
ResetAsTold(q) ==
    /\ call[q].kind = "reset" /\ InProgress(q) /\ ~At(q, "arrived") => Entitled(q)
    /\ ServingAt(q, "reset", "marked") => Doomed(q) \subseteq call[q].page /\ call[q].page \subseteq CodesOf(By(q))
    /\ Served(q, "reset") => /\ Entitled(q) /\ \A k \in Doomed(q) : codes[k].used
                             /\ passwords[By(q)] \notin call[q].after \cup {0}
    /\ Served(q, "enter") => \A r \in EarlierResets(q) : call[q].on \notin call[r].after \cup {0}

\* The invariant of the password reset.
ResetInv ==
    /\ PasswordResetTypeOK /\ CodeRows
    /\ \A u \in Users : PasswordOf(u)
    /\ \A q \in Calls : ResetAsTold(q)

\* Codes stay, and stay used; a password is followed by that of a call that has
\* not been answered before.
SecretsStay ==
    /\ \A k \in DOMAIN codes : /\ k \in DOMAIN codes' /\ codes'[k].of = codes[k].of
                               /\ codes[k].used => codes'[k].used
    /\ \A k \in DOMAIN codes' \ DOMAIN codes : k \in Calls /\ ~Done(k)
    /\ \A u \in Users : passwords'[u] = passwords[u] \/ (passwords'[u] \in Calls /\ ~Done(passwords'[u]))

\* The calls that a call follows have been answered.
LEMMA AfterIsDone ==
    ASSUME CallInv, NEW q \in Calls, NEW r \in call[q].after
    PROVE  r \in Calls /\ Done(r) /\ r # q
  BY CallsAssumption DEF CallInv, CallTypeOK, Calls

\* The earlier resets of a call stay the same.
LEMMA EarlierResetsStay ==
    ASSUME CallInv, Onward, NEW q \in Calls, ~At(q, "new")
    PROVE  /\ EarlierResets(q)' = EarlierResets(q)
           /\ \A r \in EarlierResets(q) : call'[r] = call[r]
  BY AfterIsDone DEF EarlierResets, Onward, Served, Done, At, By

\* A code that was good when the call arrived was good.
LEMMA EntitledStays ==
    ASSUME CallInv, Onward, SecretsStay, NEW q \in Calls, ~At(q, "new"), Entitled(q)
    PROVE  Entitled(q)'
  BY EarlierResetsStay DEF Entitled, CodesOf, Onward, SecretsStay, By, At

\* A call does away with the same codes, whatever comes later: newer codes are not its own.
LEMMA DoomedStay ==
    ASSUME CallInv, Onward, SecretsStay, NEW q \in Calls, ~At(q, "new"),
           call[q].on \in CodesOf(By(q))
    PROVE  Doomed(q)' = Doomed(q)
<1>1. \A k \in call[q].after \cup {0, call[q].on} :
         k \in DOMAIN codes' => k \in DOMAIN codes
  BY AfterIsDone, CallsAssumption DEF SecretsStay, CodesOf, Calls
<1> QED
  BY <1>1 DEF Doomed, CodesOf, Onward, SecretsStay, By, At

\* As long as codes stay used, what a reset or an entry has told stands.
LEMMA ResetStaysTold ==
    ASSUME CallInv, Onward, ResetInv, SecretsStay, NEW q \in Calls, ResetAsTold(q), Untouched(q), ~At(q, "new")
    PROVE  ResetAsTold(q)'
<1>0. By(q)' = By(q) /\ By(q) \in Users
  BY DEF Untouched, By, CallInv, At
<1>1. Entitled(q) => Entitled(q)' /\ Doomed(q)' = Doomed(q)
  BY EntitledStays, DoomedStay DEF Entitled
<1>2. /\ Served(q, "reset")' = Served(q, "reset") /\ Served(q, "enter")' = Served(q, "enter")
      /\ ServingAt(q, "reset", "marked")' = ServingAt(q, "reset", "marked")
      /\ (call[q].kind = "reset" /\ InProgress(q) /\ ~At(q, "arrived"))'
           = (call[q].kind = "reset" /\ InProgress(q) /\ ~At(q, "arrived"))
  BY DEF Untouched, Served, ServingAt, InProgress, At, Done
<1>3. Served(q, "reset") => (\A k \in Doomed(q) : codes'[k].used) /\ passwords'[By(q)] \notin call[q].after \cup {0}
  BY <1>0, AfterIsDone, CallsAssumption DEF ResetAsTold, SecretsStay, Doomed, CodesOf, Calls
<1>4. \A k \in CodesOf(By(q)) : k \in CodesOf(By(q))'
  BY <1>0 DEF CodesOf, SecretsStay
<1>5. ServingAt(q, "reset", "marked") => InProgress(q) /\ ~At(q, "arrived") /\ call[q].kind = "reset"
  BY DEF ServingAt, InProgress, At
<1>6. CASE Served(q, "enter")
  BY <1>2, <1>6, EarlierResetsStay DEF ResetAsTold, Untouched, Served, ServingAt
<1>7. CASE ~Served(q, "enter")
  BY <1>0, <1>1, <1>2, <1>3, <1>4, <1>5, <1>7 DEF ResetAsTold, Untouched
<1> QED
  BY <1>6, <1>7

\* The invariant of the password reset is kept by every step of the composition.
LEMMA ResetInvStep ==
    ASSUME CallInv, ResetInv, [Next]_vars
    PROVE  ResetInv'
<1>0. CallTypeOK /\ Onward /\ \A i \in Calls : i # 0
  BY StepIsOnward DEF CallInv, Calls
<1>1. ASSUME secrets' = secrets
      PROVE  SecretsStay /\ PasswordResetTypeOK' /\ CodeRows' /\ \A u \in Users : PasswordOf(u)'
  <2>1. SecretsStay /\ PasswordResetTypeOK'
    BY <1>1 DEF secrets, SecretsStay, PasswordResetTypeOK, ResetInv
  <2>2. CodeRows'
    BY <1>1, <1>0 DEF secrets, CodeRows, ResetInv, Onward, Done, At
  <2>3. ASSUME NEW u \in Users PROVE PasswordOf(u)'
    BY <1>1, <1>0 DEF secrets, PasswordOf, ResetInv, Onward, Done, At, CodesOf
  <2> QED
    BY <2>1, <2>2, <2>3
<1>2. CASE Elsewhere(ResetKinds) /\ UNCHANGED secrets
  <2>1. ASSUME NEW p \in Calls PROVE ResetAsTold(p)'
    <3>1. CASE call'[p].kind \notin ResetKinds
      BY <3>1 DEF ResetAsTold, ResetKinds, Served, ServingAt
    <3>2. CASE Untouched(p) /\ ~At(p, "new")
      BY <3>2, <1>0, <1>1, <1>2, ResetStaysTold DEF ResetInv
    <3>3. CASE Untouched(p) /\ At(p, "new")
      BY <3>3 DEF Untouched, ResetAsTold, Served, ServingAt, InProgress, At, Done
    <3>4. CASE Failed(p) \/ Begun(p)
      BY <3>4 DEF Failed, Begun, ResetAsTold, Served, ServingAt, InProgress, At, Done
    <3> QED
      BY <3>1, <3>2, <3>3, <3>4, <1>2, <1>0, OthersOf
  <2> QED
    BY <1>1, <1>2, <2>1 DEF ResetInv
<1>3. ASSUME NEW q \in Calls, PasswordResetStep(q)
      PROVE  ResetInv'
  <2>0. Advance(q) /\ By(q) \in Users /\ ~At(q, "new") /\ ~Done(q)
    BY <1>3, <1>0, PasswordResetAdvance DEF Advance, InProgress, CallInv, By, At, Done
  <2>1. ASSUME SecretsStay, ResetAsTold(q)' PROVE \A p \in Calls : ResetAsTold(p)'
    <3>1. ASSUME NEW p \in Calls, p # q PROVE ResetAsTold(p)'
      <4>1. Untouched(p)
        BY <3>1, <2>0, ServesOne DEF Untouched
      <4>2. CASE At(p, "new")
        BY <4>1, <4>2 DEF Untouched, ResetAsTold, Served, ServingAt, InProgress, At, Done
      <4> QED
        BY <4>1, <4>2, <2>1, <1>0, ResetStaysTold DEF ResetInv
    <3> QED
      BY <3>1, <2>1
  <2>2. CASE RequestPasswordReset(q)
    <3>1. Moved(q, "done", "ok", call[q].page)
      BY <2>2, <1>0, FinishMoves DEF RequestPasswordReset
    <3>2. ResetAsTold(q)'
      BY <2>2, <3>1 DEF RequestPasswordReset, Serving, Moved, ResetAsTold, Served, ServingAt
    <3>3. CASE codes' = Put(codes, q, [of |-> By(q), used |-> FALSE])
      <4>1. q \notin DOMAIN codes
        BY <2>0, <1>0 DEF CodeRows, ResetInv
      <4>2. /\ DOMAIN codes' = DOMAIN codes \cup {q} /\ codes'[q] = [of |-> By(q), used |-> FALSE]
            /\ \A k \in DOMAIN codes : codes'[k] = codes[k]
            /\ passwords' = passwords
        BY <2>2, <3>3, <4>1 DEF RequestPasswordReset, Put
      <4>3. SecretsStay
        BY <4>2, <2>0 DEF SecretsStay
      <4>4. PasswordResetTypeOK'
        <5>1. codes'[q] \in [of : Users, used : BOOLEAN]
          BY <4>2, <2>0
        <5>2. DOMAIN codes' \subseteq Ids
          BY <4>2, CallsAreIds DEF PasswordResetTypeOK, ResetInv
        <5> QED
          BY <4>2, <5>1, <5>2 DEF PasswordResetTypeOK, ResetInv
      <4>5. CodeRows'
        BY <4>2, <3>1, <2>2, <1>0 DEF CodeRows, ResetInv, Onward, Moved, Done, At, RequestPasswordReset, Serving
      <4>6. ASSUME NEW u \in Users PROVE PasswordOf(u)'
        BY <4>1, <4>2, <1>0 DEF PasswordOf, ResetInv, Onward, Done, At, CodesOf
      <4> QED
        BY <2>1, <3>2, <4>3, <4>4, <4>5, <4>6 DEF ResetInv
    <3>4. CASE UNCHANGED codes
      BY <2>2, <3>2, <3>4, <1>1, <2>1 DEF RequestPasswordReset, secrets, ResetInv
    <3> QED
      BY <2>2, <3>3, <3>4 DEF RequestPasswordReset
  <2>3. CASE CheckCode(q)
    <3>1. SecretsStay /\ UNCHANGED secrets /\ call[q].kind = "reset"
      BY <2>3, <1>1 DEF CheckCode, Serving, secrets
    <3>2. CASE Good(call[q].on, By(q)) /\ Goto(q, "checked")
      <4>1. Moved(q, "checked", call[q].outcome, call[q].page)
        BY <3>2, <1>0, GotoMoves
      <4>2. ASSUME NEW r \in EarlierResets(q)
            PROVE  call[q].on \notin call[r].after \cup {0, call[r].on}
        <5>1. r \in Calls /\ Served(r, "reset") /\ By(r) = By(q)
          BY <4>2, AfterIsDone DEF EarlierResets
        <5>2. \A k \in Doomed(r) : codes[k].used
          BY <5>1 DEF ResetInv, ResetAsTold
        <5> QED
          BY <5>1, <5>2, <3>2 DEF Doomed, Good, CodesOf
      <4>3. Entitled(q)
        BY <4>2, <3>2 DEF Entitled, Good
      <4>4. Entitled(q)'
        BY <4>3, <3>1, <1>0, <2>0, EntitledStays
      <4>5. ResetAsTold(q)'
        BY <4>1, <4>4, <3>1 DEF Moved, ResetAsTold, Served, ServingAt, Done, At
      <4> QED
        BY <4>5, <3>1, <1>1, <2>1 DEF ResetInv
    <3>3. CASE Finish(q, "invalidCode")
      <4>1. Moved(q, "done", "invalidCode", call[q].page)
        BY <3>3, <1>0, FinishMoves
      <4>2. ResetAsTold(q)'
        BY <4>1, <3>1 DEF Moved, ResetAsTold, Served, ServingAt, Done, At, InProgress
      <4> QED
        BY <4>2, <3>1, <1>1, <2>1 DEF ResetInv
    <3> QED
      BY <2>3, <3>2, <3>3 DEF CheckCode
  <2>4. CASE WritePassword(q)
    <3>1. SecretsStay /\ UNCHANGED secrets /\ ServingAt(q, "reset", "checked")
      BY <2>4, <1>1 DEF WritePassword, secrets
    <3>2. Moved(q, "written", call[q].outcome, call[q].page)
      BY <2>4, <1>0, GotoMoves DEF WritePassword
    <3>3. Entitled(q)'
      BY <3>1, <1>0, <2>0, EntitledStays DEF ResetInv, ResetAsTold, ServingAt, InProgress, At
    <3>4. ResetAsTold(q)'
      BY <3>1, <3>2, <3>3 DEF Moved, ResetAsTold, Served, ServingAt, Done, At
    <3> QED
      BY <3>4, <3>1, <1>1, <2>1 DEF ResetInv
  <2>5. CASE MarkCodes(q)
    <3>1. SecretsStay /\ UNCHANGED secrets /\ ServingAt(q, "reset", "written")
      BY <2>5, <1>1 DEF MarkCodes, secrets
    <3>2. Moved(q, "marked", call[q].outcome, CodesOf(By(q)))
      BY <2>5, <1>0, KeepMoves DEF MarkCodes
    <3>3. Entitled(q) /\ Entitled(q)'
      BY <3>1, <1>0, <2>0, EntitledStays DEF ResetInv, ResetAsTold, ServingAt, InProgress, At
    <3>4. Doomed(q)' \subseteq CodesOf(By(q)) /\ CodesOf(By(q)) \subseteq CodesOf(By(q))'
      BY <3>1, <3>2 DEF Doomed, CodesOf, secrets, Moved, By
    <3>5. ResetAsTold(q)'
      BY <3>1, <3>2, <3>3, <3>4 DEF Moved, ResetAsTold, Served, ServingAt, Done, At
    <3> QED
      BY <3>5, <3>1, <1>1, <2>1 DEF ResetInv
  <2>6. CASE CommitReset(q)
    <3>1. /\ ServingAt(q, "reset", "marked") /\ Entitled(q) /\ Doomed(q) \subseteq call[q].page
          /\ call[q].page \subseteq CodesOf(By(q)) /\ call[q].on \in CodesOf(By(q))
      BY <2>6 DEF CommitReset, ResetInv, ResetAsTold, ServingAt, InProgress, At, Entitled
    <3>2. call[q].on \in call[q].page
      BY <3>1 DEF Doomed
    <3>3. PICK outcome : Moved(q, "done", outcome, call[q].page)
      BY <2>6, <1>0, CommitMoves DEF CommitReset
    <3>4. /\ passwords \in [Users -> Ids] /\ DOMAIN codes \subseteq Ids
          /\ \A k \in DOMAIN codes : codes[k] \in [of : Users, used : BOOLEAN]
      BY DEF ResetInv, PasswordResetTypeOK
    <3>5. /\ passwords' \in [Users -> Ids] /\ passwords'[By(q)] = q
          /\ \A u \in Users \ {By(q)} : passwords'[u] = passwords[u]
      BY <2>6, <3>4, <2>0 DEF CommitReset, Ids, Calls
    <3>6. /\ DOMAIN codes' = DOMAIN codes
          /\ \A k \in DOMAIN codes : /\ codes'[k] \in [of : Users, used : BOOLEAN]
                                     /\ codes'[k].of = codes[k].of
                                     /\ codes'[k].used = (codes[k].used \/ k \in call[q].page)
      BY <2>6, <3>4 DEF CommitReset
    <3>7. SecretsStay
      BY <3>5, <3>6, <2>0 DEF SecretsStay
    <3>8. PasswordResetTypeOK'
      BY <3>4, <3>5, <3>6 DEF PasswordResetTypeOK
    <3>9. CodeRows'
      BY <3>6, <1>0 DEF CodeRows, ResetInv, Onward, Done, At
    <3>10. ASSUME NEW u \in Users PROVE PasswordOf(u)'
      <4>1. CASE u = By(q)
        <5>1. passwords'[u] = q /\ Done(q)' /\ call'[q].on = call[q].on
          BY <4>1, <3>3, <3>5 DEF Moved, Done, At
        <5>2. call[q].on \in CodesOf(u)' /\ codes'[call[q].on].used
          BY <4>1, <3>1, <3>2, <3>6 DEF CodesOf
        <5> QED
          BY <5>1, <5>2, <1>0 DEF PasswordOf
      <4>2. CASE u # By(q)
        <5>1. passwords'[u] = passwords[u] /\ CodesOf(u)' = CodesOf(u)
          BY <4>2, <3>5, <3>6 DEF CodesOf
        <5>2. \A k \in CodesOf(u) : codes'[k].used = codes[k].used
          <6>1. \A k \in CodesOf(u) : k \notin call[q].page
            BY <4>2, <3>1 DEF CodesOf
          <6> QED
            BY <6>1, <3>4, <3>6 DEF CodesOf
        <5> QED
          BY <5>1, <5>2, <1>0 DEF PasswordOf, ResetInv, Onward, Done, At
      <4> QED
        BY <4>1, <4>2
    <3>11. ResetAsTold(q)'
      <4>1. Entitled(q)' /\ Doomed(q)' = Doomed(q) /\ By(q)' = By(q)
        BY <3>1, <3>3, <3>7, <1>0, <2>0, EntitledStays, DoomedStay DEF Moved, By
      <4>2. \A k \in Doomed(q) : codes'[k].used
        BY <3>1, <3>6 DEF Doomed, CodesOf
      <4>3. passwords'[By(q)] \notin call[q].after \cup {0}
        BY <3>5, <1>0, AfterIsDone
      <4> QED
        BY <4>1, <4>2, <4>3, <3>1, <3>3 DEF Moved, ResetAsTold, Served, ServingAt, Done, At, InProgress
    <3> QED
      BY <3>7, <3>8, <3>9, <3>10, <3>11, <2>1 DEF ResetInv
  <2>7. CASE Enter(q)
    <3>1. SecretsStay /\ UNCHANGED secrets /\ Serving(q, "enter")
      BY <2>7, <1>1 DEF Enter, secrets
    <3>2. PICK outcome : /\ Moved(q, "done", outcome, call[q].page)
                         /\ outcome = "ok" => passwords[By(q)] = call[q].on
      BY <2>7, <1>0, FinishMoves DEF Enter
    <3>3. ASSUME outcome = "ok", NEW r \in EarlierResets(q)
          PROVE  call[q].on \notin call[r].after \cup {0}
      BY <3>2, <3>3, AfterIsDone DEF EarlierResets, ResetInv, ResetAsTold
    <3>4. ResetAsTold(q)'
      BY <3>1, <3>2, <3>3, <1>0, <2>0, EarlierResetsStay
      DEF Serving, Moved, ResetAsTold, Served, ServingAt, Done, At, InProgress
    <3> QED
      BY <3>4, <3>1, <1>1, <2>1 DEF ResetInv
  <2> QED
    BY <1>3, <2>2, <2>3, <2>4, <2>5, <2>6, <2>7 DEF PasswordResetStep
<1> QED
  BY <1>2, <1>3, PasswordResetAlone

\* It is true at first.
LEMMA ResetInvInit == Init => ResetInv
<1> SUFFICES ASSUME Init PROVE ResetInv
  OBVIOUS
<1>1. PasswordResetTypeOK /\ CodeRows /\ \A u \in Users : PasswordOf(u)
  BY NoCallsYet, PasswordResetAssumption
  DEF Init, PasswordResetInit, PasswordResetTypeOK, CodeRows, PasswordOf, CodesOf
<1>2. \A q \in Calls : ResetAsTold(q)
  BY NoCallsYet DEF ResetAsTold, Served, ServingAt
<1> QED
  BY <1>1, <1>2 DEF ResetInv

\* A reset takes effect whole or not at all, and one that has been answered has
\* done away with the codes asked for before it and with the password
\* (service/auth.go:501-523).
THEOREM ResetsAreWhole == Spec => []ResetIsWhole
<1>1. ASSUME CallInv, ResetInv PROVE ResetIsWhole
  <2>1. ASSUME NEW r \in Calls, NEW q \in Calls, Served(r, "reset"), By(r) = By(q), r \in call[q].after
        PROVE  /\ Served(q, "reset") => call[q].on \notin call[r].after \cup {0, call[r].on}
               /\ Served(q, "enter") => call[q].on \notin call[r].after \cup {0}
    BY <1>1, <2>1 DEF ResetInv, ResetAsTold, EarlierResets, Entitled
  <2> QED
    BY <1>1, <2>1 DEF ResetIsWhole, ResetInv, PasswordOf
<1> QED
  BY ResetInvInit, <1>1, CallInvInit, CallInvStep, ResetInvStep, PTL DEF Spec

-----------------------------------------------------------------------------
(* Conversations.                                                          *)

\* Conversations and messages are written by the conversations alone.
LEMMA ConversationsAlone ==
    ASSUME CallInv, [Next]_vars
    PROVE  \/ \E q \in Calls : ConversationsStep(q)
           \/ Elsewhere(TalkKinds) /\ UNCHANGED talks
  BY StepIsOneOf, StepsAdvance
  DEF StepCases, Elsewhere, CallInv, AllKinds, BulletinKinds, NoticesKinds, RequestsKinds, QuestionsKinds,
      AccountsKinds, PageKinds, TalkKinds, ResetKinds, boards, rows, Record, talks

\* A sequence over a set is one over a larger set.
LEMMA SequenceOfMore ==
    ASSUME NEW S, NEW T, S \subseteq T, NEW s \in Seq(S) PROVE s \in Seq(T)
  OBVIOUS

\* What is in a sequence over a set is in the set.
LEMMA ElementOf ==
    ASSUME NEW S, NEW s \in Seq(S), NEW n \in DOMAIN s PROVE s[n] \in S
  OBVIOUS

\* What Append does to a sequence.
LEMMA AppendIsNew ==
    ASSUME NEW S, NEW s \in Seq(S), NEW e \in S
    PROVE  /\ Append(s, e) \in Seq(S) /\ DOMAIN Append(s, e) = DOMAIN s \cup {Len(s) + 1}
           /\ \A n \in DOMAIN s : Append(s, e)[n] = s[n] /\ n < Len(s) + 1
           /\ Append(s, e)[Len(s) + 1] = e /\ Len(s) + 1 \notin DOMAIN s
  OBVIOUS

\* A function over the indices of a sequence is a sequence.
LEMMA MapIsSequence ==
    ASSUME NEW S, NEW T, NEW s \in Seq(S), NEW f, f = [n \in DOMAIN s |-> f[n]],
           \A n \in DOMAIN s : f[n] \in T
    PROVE  f \in Seq(T)
  OBVIOUS

\* The messages of the conversation that are newer than this one.
NewerThan(n, i) == {m \in MessagesIn(i) : messages[m].at > messages[n].at}
Newer(n, i) == Cardinality(NewerThan(n, i))

\* No pair has two conversations; those who talk are of the same community.
ConversationRows ==
    /\ \A i \in DOMAIN conversations \cap Calls : call[i].kind = "chat" /\ Done(i)
    /\ \A i, j \in DOMAIN conversations : conversations[i] = conversations[j] => i = j
    /\ \A i \in DOMAIN conversations : \A u, v \in conversations[i] : Home[u] = Home[v]

\* Somebody else, who was not done before it became visible, has read the message.
ReadByOther(n) ==
    messages[n].state = "read" =>
        \E r \in Calls : /\ call[r].kind = "read" /\ Done(r) /\ call[r].on = messages[n].of
                         /\ By(r) # messages[n].by /\ r \notin messages[n].after

\* A message is by one of the two who talk.  Once it is visible its call is done, as
\* are those that were over before.
SentByOne(n) ==
    /\ messages[n].by \in conversations[messages[n].of]
    /\ messages[n].from \in Calls /\ messages[n].state # "inserting" => Done(messages[n].from)
    /\ \A p \in messages[n].after : Done(p)

\* What is known of messages.
MessageRows == \A n \in DOMAIN messages : SentByOne(n) /\ ReadByOther(n)

\* What starting a conversation has told, the loser of a race included.
ChatAsTold(q) ==
    call[q].kind = "chat" =>
        LET pair == {By(q), call[q].on} IN
        /\ At(q, "absent") => call[q].on \in Users /\ Home[call[q].on] = HomeOf(q)
        /\ Served(q, "chat") => \E i \in DOMAIN conversations : call[q].page = {i} /\ conversations[i] = pair
        /\ (call[q].outcome = "error" /\ call[q].on \in Users /\ ~scene.faults) =>
              \E i \in DOMAIN conversations : conversations[i] = pair

\* Message m has the instant of one on the page of q.
Tied(m, q) == \E n \in call[q].page : messages[n].at = messages[m].at

\* What was visible but is not on a page of the history, and comes before something
\* that is, has all the newer ones on that page or on those before it.
HistoryAsTold(q) ==
    call[q].kind = "history" => LET i == call[q].on IN
        /\ \A n \in call[q].page : n \in MessagesIn(i) /\ i \in Mine(q)
        /\ Served(q, "history") => call[q].arg \in Nat
        /\ Served(q, "history") =>
              \A m \in MessagesIn(i), new \in call[q].page :
                 (q \notin messages[m].after /\ messages[m].at < messages[new].at) =>
                    Tied(m, q) \/ (call[q].arg + 1) * PageSize <= Newer(m, i)

\* What is between an earlier page and this one, the next, is on either.
HistoryGoesOn(q) ==
    Served(q, "history") => \A p \in call[q].after :
        (/\ Served(p, "history") /\ By(p) = By(q) /\ call[p].on = call[q].on
         /\ call[q].arg = call[p].arg + 1) =>
            \A m \in MessagesIn(call[q].on) :
                (/\ p \notin messages[m].after
                 /\ \E new \in call[p].page : messages[m].at < messages[new].at
                 /\ \E old \in call[q].page : messages[old].at < messages[m].at) =>
                    m \in call[q].page \/ Tied(m, p)

\* Message n was visible when r marked the conversation, and is not by who made r.
ToBeRead(r, n) ==
    /\ n \in MessagesIn(call[r].on) /\ messages[n].by # By(r)
    /\ r \notin messages[n].after

\* What was there to be read when a call marked the conversation is read.
ReadAsTold(r) ==
    Served(r, "read") => \A n \in DOMAIN messages : ToBeRead(r, n) => messages[n].state = "read"

\* What has been read before is not among the unread of an inbox.
InboxAsTold(q) ==
    Served(q, "inbox") => \A r \in call[q].after :
        (Served(r, "read") /\ By(r) = By(q)) =>
            \A n \in DOMAIN messages : ToBeRead(r, n) => \A c \in call[q].page : n \notin c.unread

\* These calls show nothing.
NoPage(q) == call[q].kind \in {"read", "say"} => call[q].page = {}

\* Everything that a call of the conversations has told.
TalkAsTold(q) ==
    /\ ChatAsTold(q) /\ HistoryAsTold(q) /\ HistoryGoesOn(q)
    /\ ReadAsTold(q) /\ InboxAsTold(q) /\ NoPage(q)

\* The invariant of the conversations.
TalkInv ==
    /\ ConversationsTypeOK /\ ConversationRows /\ MessageRows
    /\ \A q \in Calls : TalkAsTold(q)

\* Conversations and messages stay, and stay read; what becomes visible does so
\* after all that is done.
TalksStay ==
    /\ \A i \in DOMAIN conversations : i \in DOMAIN conversations' /\ conversations'[i] = conversations[i]
    /\ \A n \in DOMAIN messages :
          /\ n \in DOMAIN messages' /\ messages'[n].of = messages[n].of
          /\ messages'[n].by = messages[n].by /\ messages'[n].at = messages[n].at
          /\ messages[n].state = "read" => messages'[n].state = "read"
          /\ messages[n].state # "inserting" =>
                messages'[n].state # "inserting" /\ messages'[n].after = messages[n].after
          /\ (messages[n].state = "inserting" /\ messages'[n].state # "inserting") =>
                messages'[n].after = {p \in Calls : Done(p)}
    /\ \A m \in DOMAIN messages' \ DOMAIN messages : messages'[m].state = "inserting"

\* The fields of a message.
LEMMA MessageFields ==
    ASSUME ConversationsTypeOK, NEW n \in DOMAIN messages
    PROVE  /\ messages[n] \in Message
           /\ messages[n].of \in DOMAIN conversations /\ messages[n].by \in Users
           /\ messages[n].from \in Ids /\ messages[n].at \in Nat
           /\ messages[n].state \in {"inserting", "unread", "read"}
           /\ messages[n].after \subseteq Calls
<1>1. messages[n] \in Message
  BY ElementOf DEF ConversationsTypeOK
<1> QED
  BY <1>1 DEF Message

\* The messages of a conversation can be counted.
LEMMA MessagesAreFinite ==
    ASSUME ConversationsTypeOK, NEW i
    PROVE  /\ IsFiniteSet(MessagesIn(i)) /\ MessagesIn(i) \subseteq DOMAIN messages
           /\ \A n \in MessagesIn(i) : messages[n].at \in Nat
           /\ \A n : Newer(n, i) \in Nat /\ IsFiniteSet(NewerThan(n, i)) /\ NewerThan(n, i) \subseteq MessagesIn(i)
<1>1. Len(messages) \in Nat /\ DOMAIN messages = 1 .. Len(messages)
  BY DEF ConversationsTypeOK
<1>2. IsFiniteSet(DOMAIN messages)
  BY <1>1, FS_Interval
<1>3. MessagesIn(i) \subseteq DOMAIN messages
  BY DEF MessagesIn
<1>4. IsFiniteSet(MessagesIn(i))
  BY <1>2, <1>3, FS_Subset
<1>5. ASSUME NEW n
      PROVE  Newer(n, i) \in Nat /\ IsFiniteSet(NewerThan(n, i)) /\ NewerThan(n, i) \subseteq MessagesIn(i)
  <2>1. NewerThan(n, i) \subseteq MessagesIn(i)
    BY DEF NewerThan
  <2> QED
    BY <2>1, <1>4, FS_Subset, FS_CardinalityType DEF Newer
<1> QED
  BY <1>3, <1>4, <1>5, MessageFields

\* What was visible stays as it was, and what becomes visible does so after all
\* that is done.
LEMMA VisibleStays ==
    ASSUME TalksStay, NEW i
    PROVE  /\ \A n \in MessagesIn(i) :
                 /\ n \in MessagesIn(i)' /\ messages'[n].at = messages[n].at
                 /\ messages'[n].by = messages[n].by /\ messages'[n].after = messages[n].after
           /\ \A n \in MessagesIn(i)' : n \in MessagesIn(i) \/ \A p \in Calls : Done(p) => p \in messages'[n].after
<1>1. ASSUME NEW n \in MessagesIn(i)
      PROVE  /\ n \in MessagesIn(i)' /\ messages'[n].at = messages[n].at
             /\ messages'[n].by = messages[n].by /\ messages'[n].after = messages[n].after
  BY DEF MessagesIn, TalksStay
<1>2. ASSUME NEW n \in MessagesIn(i)', n \notin MessagesIn(i), NEW p \in Calls, Done(p)
      PROVE  p \in messages'[n].after
  BY <1>2 DEF MessagesIn, TalksStay
<1> QED
  BY <1>1, <1>2

\* Messages are not deleted: those newer than a visible one only grow in number.
LEMMA NewerGrows ==
    ASSUME ConversationsTypeOK, ConversationsTypeOK', TalksStay, NEW i, NEW n \in MessagesIn(i)
    PROVE  Newer(n, i) <= Newer(n, i)' /\ Newer(n, i) \in Nat /\ Newer(n, i)' \in Nat
<1>1. NewerThan(n, i) \subseteq NewerThan(n, i)'
  BY VisibleStays DEF NewerThan
<1>2. IsFiniteSet(NewerThan(n, i)')
  <2>1. Len(messages') \in Nat /\ DOMAIN messages' = 1 .. Len(messages')
    BY DEF ConversationsTypeOK
  <2>2. IsFiniteSet(DOMAIN messages')
    BY <2>1, FS_Interval
  <2>3. NewerThan(n, i)' \subseteq DOMAIN messages'
    BY DEF MessagesIn, NewerThan
  <2> QED
    BY <2>2, <2>3, FS_Subset
<1> QED
  BY <1>1, <1>2, FS_Subset, FS_CardinalityType DEF Newer

\* What the first k of a conversation are.
LEMMA FrontIs ==
    ASSUME ConversationsTypeOK, NEW i, NEW k \in Nat, NEW F \in Front(i, k)
    PROVE  /\ F \subseteq MessagesIn(i) /\ IsFiniteSet(F)
           /\ Cardinality(F) \in Nat /\ Cardinality(F) <= k
           /\ F # MessagesIn(i) => Cardinality(F) = k
           /\ \A m \in F, n \in MessagesIn(i) \ F : messages[n].at <= messages[m].at
<1> DEFINE many == Cardinality(MessagesIn(i))
<1>1. IsFiniteSet(MessagesIn(i)) /\ many \in Nat
  BY MessagesAreFinite, FS_CardinalityType
<1>2. /\ F \subseteq MessagesIn(i) /\ Cardinality(F) = IF k <= many THEN k ELSE many
      /\ \A m \in F, n \in MessagesIn(i) \ F : messages[n].at <= messages[m].at
  BY DEF Front
<1>3. IsFiniteSet(F)
  BY <1>1, <1>2, FS_Subset
<1>4. ASSUME F # MessagesIn(i) PROVE Cardinality(F) # many
  BY <1>1, <1>2, <1>4, FS_Subset
<1> HIDE DEF many
<1> QED
  BY <1>1, <1>2, <1>3, <1>4

\* As long as messages stay, and stay read, what a call has told stands.
LEMMA TalkStaysTold ==
    ASSUME CallInv, Onward, TalkInv, ConversationsTypeOK', TalksStay, UNCHANGED scene,
           NEW q \in Calls, Untouched(q), ~At(q, "new")
    PROVE  TalkAsTold(q)'
<1>0. /\ \A kind : Served(q, kind)' = Served(q, kind)
      /\ By(q)' = By(q) /\ HomeOf(q)' = HomeOf(q) /\ call'[q] = call[q]
      /\ At(q, "absent")' = At(q, "absent")
  BY DEF Untouched, Served, By, HomeOf, Done, At
<1>1. \A r \in call[q].after : r \in Calls /\ Done(r) /\ call'[r] = call[r] /\ ~At(r, "new")
  BY AfterIsDone DEF Onward, Done, At
<1>2. ASSUME NEW r \in call[q].after \cup {q}, Done(r), NEW n, ToBeRead(r, n)'
      PROVE  n \in DOMAIN messages /\ ToBeRead(r, n)
  <2>1. call'[r] = call[r] /\ r \in Calls
    BY <1>0, <1>1
  <2>2. n \in MessagesIn(call[r].on)
    BY <2>1, <1>2, VisibleStays DEF ToBeRead
  <2> QED
    BY <2>1, <2>2, <1>2, VisibleStays DEF ToBeRead, By, MessagesIn
<1>3. ChatAsTold(q)'
  BY <1>0 DEF TalkInv, TalkAsTold, ChatAsTold, TalksStay
<1>4. NoPage(q)'
  BY <1>0 DEF TalkInv, TalkAsTold, NoPage
<1>5. ReadAsTold(q)'
  BY <1>0, <1>2 DEF TalkInv, TalkAsTold, ReadAsTold, TalksStay, Served
<1>6. InboxAsTold(q)'
  <2>1. \A r \in call[q].after : (Served(r, "read") /\ By(r) = By(q))' => Served(r, "read") /\ By(r) = By(q)
    BY <1>0, <1>1 DEF Served, By, Done, At
  <2> QED
    BY <1>0, <1>1, <1>2, <2>1 DEF TalkInv, TalkAsTold, InboxAsTold
<1>7. \A i : \A r \in call[q].after \cup {q}, m \in MessagesIn(i)' :
         (Done(r) /\ r \notin messages'[m].after) => m \in MessagesIn(i) /\ r \notin messages[m].after
  BY <1>1, VisibleStays
<1>8. \A i : \A m \in MessagesIn(i) : m \in MessagesIn(i)' /\ messages'[m].at = messages[m].at
  BY VisibleStays
<1>9. HistoryAsTold(q)'
  <2>1. CASE call[q].kind # "history"
    BY <1>0, <2>1 DEF HistoryAsTold
  <2>2. CASE call[q].kind = "history"
    <3>0. PICK i : i = call[q].on
      OBVIOUS
    <3>1. \A n \in call[q].page : n \in MessagesIn(i) /\ i \in Mine(q)
      BY <2>2, <3>0 DEF TalkInv, TalkAsTold, HistoryAsTold
    <3>2. i \in Mine(q) => i \in Mine(q)'
      BY <1>0 DEF Mine, TalksStay
    <3>3. ASSUME Served(q, "history"), NEW m \in MessagesIn(i)', NEW new \in call[q].page,
                 q \notin messages'[m].after, messages'[m].at < messages'[new].at, ~Tied(m, q)'
          PROVE  (call[q].arg + 1) * PageSize <= Newer(m, i)'
      <4>1. m \in MessagesIn(i) /\ q \notin messages[m].after
        BY <3>3, <1>7 DEF Served
      <4>2. \A n \in call[q].page \cup {m} : messages'[n].at = messages[n].at
        BY <3>1, <4>1, <1>8
      <4>3. ~Tied(m, q)
        BY <4>2, <3>3, <1>0 DEF Tied
      <4>4. (call[q].arg + 1) * PageSize <= Newer(m, i)
        BY <4>1, <4>2, <4>3, <3>3, <2>2, <3>0 DEF TalkInv, TalkAsTold, HistoryAsTold
      <4>5. call[q].arg \in Nat /\ PageSize \in Nat
        BY <2>2, <3>3, CallsAssumption DEF TalkInv, TalkAsTold, HistoryAsTold
      <4>6. Newer(m, i) \in Nat /\ Newer(m, i)' \in Nat /\ Newer(m, i) <= Newer(m, i)'
        BY <4>1, NewerGrows DEF TalkInv
      <4> QED
        BY <4>4, <4>5, <4>6
    <3>4. \A n \in call[q].page : n \in MessagesIn(i)'
      BY <3>1, <1>8
    <3> QED
      BY <3>0, <3>1, <3>2, <3>3, <3>4, <1>0 DEF HistoryAsTold, TalkInv, TalkAsTold
  <2> QED
    BY <2>1, <2>2
<1>10. HistoryGoesOn(q)'
  <2>0. PICK i : i = call[q].on
    OBVIOUS
  <2>1. ASSUME Served(q, "history"), NEW p \in call[q].after, Served(p, "history"), By(p) = By(q),
               call[p].on = i, call[q].arg = call[p].arg + 1,
               NEW m \in MessagesIn(i)', p \notin messages'[m].after,
               NEW new \in call[p].page, messages'[m].at < messages'[new].at,
               NEW old \in call[q].page, messages'[old].at < messages'[m].at
        PROVE  m \in call[q].page \/ Tied(m, p)'
    <3>1. m \in MessagesIn(i) /\ p \notin messages[m].after
      BY <2>1, <1>1, <1>7
    <3>2. call[p].page \cup call[q].page \subseteq MessagesIn(i)
      BY <2>0, <2>1, <1>1 DEF TalkInv, TalkAsTold, HistoryAsTold, Served
    <3>3. \A n \in call[p].page \cup call[q].page \cup {m} : messages'[n].at = messages[n].at
      BY <3>1, <3>2, <1>8
    <3>4. m \in call[q].page \/ Tied(m, p)
      BY <2>0, <2>1, <3>1, <3>3 DEF TalkInv, TalkAsTold, HistoryGoesOn
    <3> QED
      BY <3>3, <3>4, <1>1 DEF Tied
  <2>2. \A p \in call[q].after : Served(p, "history")' = Served(p, "history") /\ By(p)' = By(p)
    BY <1>1 DEF Served, By, Done, At
  <2> QED
    BY <2>0, <2>1, <2>2, <1>0, <1>1 DEF HistoryGoesOn
<1> QED
  BY <1>3, <1>4, <1>5, <1>6, <1>9, <1>10 DEF TalkAsTold

\* A call that has not arrived has told nothing.
LEMMA NoTalkYet ==
    ASSUME CallInv, NEW q \in Calls, Untouched(q), At(q, "new")
    PROVE  TalkAsTold(q)'
<1>1. call'[q].kind = "none"
  BY DEF CallInv, Untouched, At, NewCall
<1> QED
  BY <1>1 DEF TalkAsTold, ChatAsTold, HistoryAsTold, HistoryGoesOn, ReadAsTold, InboxAsTold, NoPage, Served

\* Who has read a message has read it.
LEMMA ReadersStay ==
    ASSUME Onward, TalkInv, NEW n \in DOMAIN messages, n \in DOMAIN messages',
           messages'[n].of = messages[n].of, messages'[n].by = messages[n].by,
           messages'[n].state = messages[n].state, messages'[n].after = messages[n].after
    PROVE  ReadByOther(n)'
<1>1. CASE messages[n].state = "read"
  <2>1. PICK r \in Calls : /\ call[r].kind = "read" /\ Done(r) /\ call[r].on = messages[n].of
                           /\ By(r) # messages[n].by /\ r \notin messages[n].after
    BY <1>1 DEF TalkInv, MessageRows, ReadByOther
  <2>2. call'[r] = call[r] /\ Done(r)' /\ By(r)' = By(r)
    BY <2>1 DEF Onward, Done, At, By
  <2> QED
    BY <2>1, <2>2 DEF ReadByOther
<1> QED
  BY <1>1 DEF ReadByOther

\* Whose a message is does not change.
LEMMA SendersStay ==
    ASSUME Onward, TalkInv, NEW n \in DOMAIN messages,
           messages'[n].of = messages[n].of, messages'[n].by = messages[n].by,
           messages'[n].from = messages[n].from, messages'[n].after = messages[n].after,
           messages'[n].state # "inserting" => messages[n].state # "inserting",
           conversations'[messages[n].of] = conversations[messages[n].of]
    PROVE  SentByOne(n)'
<1>1. \A p \in Calls : Done(p) => Done(p)'
  BY DEF Onward, Done, At
<1>2. messages[n].after \subseteq Calls /\ SentByOne(n)
  BY MessageFields DEF TalkInv, MessageRows
<1> QED
  BY <1>1, <1>2 DEF SentByOne

\* A step that leaves the tables alone keeps what is known of them.
LEMMA TalkRowsStay ==
    ASSUME CallInv, Onward, TalkInv, UNCHANGED talks
    PROVE  TalksStay /\ ConversationsTypeOK' /\ ConversationRows' /\ MessageRows'
<1>1. TalksStay /\ ConversationsTypeOK'
  BY DEF talks, TalksStay, ConversationsTypeOK, Message, TalkInv
<1>2. ConversationRows'
  BY DEF talks, ConversationRows, TalkInv, Onward, Done, At
<1>3. MessageRows'
  <2>1. ASSUME NEW n \in DOMAIN messages PROVE ReadByOther(n)'
    BY ReadersStay DEF talks
  <2>2. messages' = messages /\ conversations' = conversations
    BY DEF talks
  <2>3. ASSUME NEW n \in DOMAIN messages
        PROVE  SentByOne(n)'
    BY <2>2, SendersStay
  <2> QED
    BY <2>1, <2>2, <2>3 DEF MessageRows
<1> QED
  BY <1>1, <1>2, <1>3

\* What is left to show of the step of q.
LEMMA TalkStepOf ==
    ASSUME CallInv, Onward, TalkInv, UNCHANGED scene, NEW q \in Calls, Advance(q),
           TalksStay, ConversationsTypeOK', ConversationRows', MessageRows', TalkAsTold(q)'
    PROVE  TalkInv'
<1>1. ASSUME NEW p \in Calls, p # q PROVE TalkAsTold(p)'
  <2>1. Untouched(p)
    BY <1>1, ServesOne DEF Untouched
  <2> QED
    BY <2>1, NoTalkYet, TalkStaysTold
<1> QED
  BY <1>1 DEF TalkInv

\* The invariant is kept by the search for the conversation of a pair.
LEMMA FindKeepsTalks ==
    ASSUME CallInv, TalkInv, [Next]_vars, NEW q \in Calls, Advance(q), UNCHANGED scene, FindConversation(q)
    PROVE  TalkInv'
<1>0. Onward /\ CallTypeOK /\ UNCHANGED talks /\ call[q].kind = "chat"
  BY StepIsOnward DEF CallInv, FindConversation, Serving
<1>1. TalksStay /\ ConversationsTypeOK' /\ ConversationRows' /\ MessageRows'
  BY <1>0, TalkRowsStay
<1>2. call'[q].kind = "chat" /\ By(q)' = By(q) /\ call'[q].on = call[q].on
  BY <1>0 DEF Advance, Moved, By
<1>3. ChatAsTold(q)'
  <2> DEFINE known == {i \in DOMAIN conversations : conversations[i] = {By(q), call[q].on}}
  <2>1. CASE call[q].on \notin Users /\ Finish(q, "error")
    <3>1. Moved(q, "done", "error", call[q].page)
      BY <2>1, <1>0, FinishMoves
    <3> QED
      BY <2>1, <3>1 DEF Moved, ChatAsTold, Served, At, Done
  <2>2. CASE Finish(q, "forbidden")
    <3>1. Moved(q, "done", "forbidden", call[q].page)
      BY <2>2, <1>0, FinishMoves
    <3> QED
      BY <3>1 DEF Moved, ChatAsTold, Served, At, Done
  <2>3. CASE known # {} /\ Show(q, known)
    <3>1. Moved(q, "done", "ok", known)
      BY <2>3, <1>0, ShowMoves
    <3>2. PICK i \in DOMAIN conversations : known = {i} /\ conversations[i] = {By(q), call[q].on}
      <4>1. PICK i : i \in known
        BY <2>3
      <4>2. \A j \in known : j = i
        BY <4>1 DEF TalkInv, ConversationRows
      <4> QED
        BY <4>1, <4>2
    <3> QED
      BY <3>1, <3>2, <1>0, <1>2 DEF Moved, ChatAsTold, Served, At, Done, talks
  <2>4. CASE Here(q, call[q].on) /\ Goto(q, "absent")
    <3>1. Moved(q, "absent", call[q].outcome, call[q].page)
      BY <2>4, <1>0, GotoMoves
    <3>2. call[q].outcome = "none"
      BY DEF CallInv, CallTypeOK, Advance, InProgress
    <3> QED
      BY <2>4, <3>1, <3>2 DEF Moved, ChatAsTold, Served, At, Done, Here, HomeOf, By
  <2> QED
    BY <2>1, <2>2, <2>3, <2>4 DEF FindConversation
<1>4. TalkAsTold(q)'
  BY <1>2, <1>3 DEF TalkAsTold, HistoryAsTold, HistoryGoesOn, ReadAsTold, InboxAsTold, NoPage, Served
<1> QED
  BY <1>0, <1>1, <1>4, TalkStepOf

\* It is kept by the insertion of one, lost race included: the constraint refuses
\* the second.
LEMMA InsertKeepsTalks ==
    ASSUME CallInv, TalkInv, [Next]_vars, NEW q \in Calls, Advance(q), UNCHANGED scene, InsertConversation(q)
    PROVE  TalkInv'
<1>0. /\ Onward /\ CallTypeOK /\ call[q].kind = "chat" /\ ~Done(q) /\ By(q) \in Users
      /\ call[q].on \in Users /\ Home[call[q].on] = HomeOf(q) /\ messages' = messages
  BY StepIsOnward DEF CallInv, InsertConversation, ServingAt, TalkInv, TalkAsTold, ChatAsTold, At, Done, By
<1>1. call'[q].kind = "chat" /\ By(q)' = By(q) /\ call'[q].on = call[q].on
  BY <1>0 DEF Advance, Moved, By
<1>2. ASSUME ChatAsTold(q)' PROVE TalkAsTold(q)'
  BY <1>1, <1>2 DEF TalkAsTold, HistoryAsTold, HistoryGoesOn, ReadAsTold, InboxAsTold, NoPage, Served
<1> DEFINE pair == {By(q), call[q].on}
<1>3. CASE /\ \E i \in DOMAIN conversations : conversations[i] = pair
           /\ Finish(q, "error") /\ UNCHANGED conversations
  <2>1. Moved(q, "done", "error", call[q].page)
    BY <1>3, <1>0, FinishMoves
  <2>2. ChatAsTold(q)'
    BY <1>3, <1>1, <2>1 DEF Moved, ChatAsTold, Served, At, Done
  <2> QED
    BY <1>0, <1>2, <1>3, <2>2, TalkRowsStay, TalkStepOf DEF talks
<1>4. CASE /\ \A i \in DOMAIN conversations : conversations[i] # pair
           /\ conversations' = Put(conversations, q, pair)
           /\ Show(q, {q}) \/ Finish(q, "error")
  <2>1. q \notin DOMAIN conversations
    BY <1>0 DEF TalkInv, ConversationRows
  <2>2. /\ DOMAIN conversations' = DOMAIN conversations \cup {q} /\ conversations'[q] = pair
        /\ \A i \in DOMAIN conversations : conversations'[i] = conversations[i]
    BY <1>4, <2>1 DEF Put
  <2>3. TalksStay
    BY <1>0, <2>2 DEF TalksStay
  <2>4. ConversationsTypeOK'
    <3>1. messages' \in Seq(Message')
      <4>1. messages \in Seq(Message)
        BY DEF TalkInv, ConversationsTypeOK
      <4>2. Message \subseteq Message'
        BY <2>2 DEF Message
      <4> QED
        BY <4>1, <4>2, <1>0, SequenceOfMore
    <3> QED
      BY <3>1, <2>2, <1>0, CallsAreIds DEF TalkInv, ConversationsTypeOK
  <2>5. Done(q)'
    BY <1>4, <1>0, ShowMoves, FinishMoves DEF Moved, Done, At
  <2>6. ConversationRows'
    <3>1. \A i \in DOMAIN conversations' \cap Calls : call'[i].kind = "chat" /\ Done(i)'
      BY <1>0, <1>1, <2>2, <2>5 DEF TalkInv, ConversationRows, Onward, Done, At
    <3>2. \A i, j \in DOMAIN conversations' : conversations'[i] = conversations'[j] => i = j
      BY <1>4, <2>2 DEF TalkInv, ConversationRows
    <3>3. \A i \in DOMAIN conversations' : \A u, v \in conversations'[i] : Home[u] = Home[v]
      BY <1>0, <2>2 DEF TalkInv, ConversationRows, HomeOf
    <3> QED
      BY <3>1, <3>2, <3>3 DEF ConversationRows
  <2>7. MessageRows'
    <3>1. ASSUME NEW n \in DOMAIN messages PROVE ReadByOther(n)'
      BY <1>0, ReadersStay
    <3>2. \A n \in DOMAIN messages : messages[n].of \in DOMAIN conversations
      BY MessageFields DEF TalkInv
    <3>3. ASSUME NEW n \in DOMAIN messages
          PROVE  SentByOne(n)'
      BY <3>2, <2>2, <1>0, SendersStay
    <3> QED
      BY <3>1, <3>3, <1>0 DEF MessageRows
  <2>8. ChatAsTold(q)'
    <3>1. CASE Show(q, {q})
      BY <3>1, <2>2, <1>0, <1>1, ShowMoves DEF Moved, ChatAsTold, Served, At, Done
    <3>2. CASE Finish(q, "error")
      BY <3>2, <2>2, <1>0, <1>1, FinishMoves DEF Moved, ChatAsTold, Served, At, Done
    <3> QED
      BY <1>4, <3>1, <3>2
  <2> QED
    BY <1>0, <1>2, <2>3, <2>4, <2>6, <2>7, <2>8, TalkStepOf
<1> QED
  BY <1>3, <1>4 DEF InsertConversation

\* It is kept by a list of the conversations.
LEMMA InboxKeepsTalks ==
    ASSUME CallInv, TalkInv, [Next]_vars, NEW q \in Calls, Advance(q), UNCHANGED scene, ListConversations(q)
    PROVE  TalkInv'
<1>0. Onward /\ CallTypeOK /\ UNCHANGED talks /\ call[q].kind = "inbox" /\ ~At(q, "new")
  BY StepIsOnward DEF CallInv, ListConversations, Serving, At
<1>1. TalksStay /\ ConversationsTypeOK' /\ ConversationRows' /\ MessageRows'
  BY <1>0, TalkRowsStay
<1>2. Moved(q, "done", "ok", {[of |-> i, unread |-> UnreadBy(By(q), i)] : i \in Mine(q)})
  BY <1>0, ShowMoves DEF ListConversations
<1>3. ASSUME NEW r \in call[q].after, Served(r, "read"), By(r) = By(q),
             NEW n \in DOMAIN messages, ToBeRead(r, n), NEW i
      PROVE  n \notin UnreadBy(By(q), i)
  BY <1>3, AfterIsDone DEF TalkInv, TalkAsTold, ReadAsTold, UnreadBy, MessagesIn
<1>4. \A r \in call[q].after : call'[r] = call[r] /\ By(r)' = By(r) /\ Served(r, "read")' = Served(r, "read")
  BY <1>0, AfterIsDone DEF Onward, By, Served, Done, At
<1>5. \A r \in call[q].after, n \in DOMAIN messages : ToBeRead(r, n)' => ToBeRead(r, n)
  BY <1>0, <1>4 DEF ToBeRead, MessagesIn, talks
<1>6. InboxAsTold(q)'
  BY <1>0, <1>2, <1>3, <1>4, <1>5 DEF InboxAsTold, Moved, By, talks
<1>7. TalkAsTold(q)'
  BY <1>0, <1>2, <1>6 DEF Moved, TalkAsTold, ChatAsTold, HistoryAsTold, HistoryGoesOn, ReadAsTold, NoPage, Served
<1> QED
  BY <1>0, <1>1, <1>7, TalkStepOf

\* A call that is refused has ended, and not well.
LEMMA RefusedIsOver ==
    ASSUME CallTypeOK, NEW q \in Calls, Refuse(q)
    PROVE  \E outcome : Moved(q, "done", outcome, call[q].page) /\ outcome \notin {"ok", "none"}
  BY FinishMoves DEF Refuse

\* It is kept by a page of the history.
LEMMA HistoryKeepsTalks ==
    ASSUME CallInv, TalkInv, [Next]_vars, NEW q \in Calls, Advance(q), UNCHANGED scene, ListMessages(q)
    PROVE  TalkInv'
<1>0. Onward /\ CallTypeOK /\ UNCHANGED talks /\ call[q].kind = "history" /\ ~At(q, "new")
  BY StepIsOnward DEF CallInv, ListMessages, Serving, At
<1>1. TalksStay /\ ConversationsTypeOK' /\ ConversationRows' /\ MessageRows'
  BY <1>0, TalkRowsStay
<1>2. /\ call'[q].kind = "history" /\ By(q)' = By(q) /\ call'[q].on = call[q].on
      /\ call'[q].arg = call[q].arg /\ call'[q].after = call[q].after
      /\ Mine(q)' = Mine(q) /\ MessagesIn(call[q].on)' = MessagesIn(call[q].on)
      /\ messages' = messages /\ ~Done(q)
  BY <1>0 DEF Advance, Moved, By, talks, Mine, MessagesIn, InProgress, Done, At
<1>3. ASSUME HistoryAsTold(q)', HistoryGoesOn(q)' PROVE TalkInv'
  <2>1. TalkAsTold(q)'
    BY <1>2, <1>3 DEF TalkAsTold, ChatAsTold, ReadAsTold, InboxAsTold, NoPage, Served
  <2> QED
    BY <1>0, <1>1, <2>1, TalkStepOf
<1>4. CASE Refuse(q) \/ Finish(q, "error")
  <2>1. PICK outcome : Moved(q, "done", outcome, call[q].page) /\ outcome \notin {"ok", "none"}
    BY <1>4, <1>0, RefusedIsOver, FinishMoves
  <2>2. ~Served(q, "history")' /\ call'[q].page = call[q].page
    BY <2>1 DEF Moved, Served
  <2>3. \A n \in call[q].page : n \in MessagesIn(call[q].on) /\ call[q].on \in Mine(q)
    BY <1>0 DEF TalkInv, TalkAsTold, HistoryAsTold
  <2>4. HistoryAsTold(q)' /\ HistoryGoesOn(q)'
    BY <2>2, <2>3, <1>2 DEF HistoryAsTold, HistoryGoesOn
  <2> QED
    BY <2>4, <1>3
<1>5. CASE call[q].on \in Mine(q) /\ call[q].arg \in Nat /\ \E P \in HistoryPages(call[q].on, call[q].arg) : Show(q, P)
  <2>0. PICK i, k : i = call[q].on /\ k = call[q].arg
    OBVIOUS
  <2>1. PICK P \in HistoryPages(i, k) : Show(q, P)
    BY <1>5, <2>0
  <2>2. Moved(q, "done", "ok", P)
    BY <2>1, <1>0, ShowMoves
  <2>3. k \in Nat /\ k * PageSize \in Nat /\ (k + 1) * PageSize \in Nat
    BY <1>5, <2>0, CallsAssumption
  <2>4. PICK wide \in Front(i, (k + 1) * PageSize), narrow \in Front(i, k * PageSize) : P = wide \ narrow
    BY <2>1 DEF HistoryPages
  <2>5. /\ wide \subseteq MessagesIn(i) /\ IsFiniteSet(wide) /\ Cardinality(wide) \in Nat
        /\ wide # MessagesIn(i) => Cardinality(wide) = (k + 1) * PageSize
        /\ \A m \in wide, n \in MessagesIn(i) \ wide : messages[n].at <= messages[m].at
    BY <2>3, FrontIs DEF TalkInv
  <2>6. /\ narrow \subseteq MessagesIn(i) /\ IsFiniteSet(narrow) /\ Cardinality(narrow) \in Nat
        /\ Cardinality(narrow) <= k * PageSize
        /\ \A m \in narrow, n \in MessagesIn(i) \ narrow : messages[n].at <= messages[m].at
    BY <2>3, FrontIs DEF TalkInv
  <2>7. /\ \A n \in MessagesIn(i) : messages[n].at \in Nat
        /\ \A n : Newer(n, i) \in Nat /\ IsFiniteSet(NewerThan(n, i)) /\ NewerThan(n, i) \subseteq MessagesIn(i)
    BY MessagesAreFinite DEF TalkInv
  <2>8. HistoryAsTold(q)'
    <3>1. ASSUME NEW m \in MessagesIn(i), NEW new \in P, messages[m].at < messages[new].at,
                 \A n \in P : messages[n].at # messages[m].at
          PROVE  (k + 1) * PageSize <= Newer(m, i)
      <4>1. new \in wide /\ new \notin narrow /\ new \in MessagesIn(i) /\ m \notin P
        BY <3>1, <2>4, <2>5
      <4>2. messages[m].at \in Nat /\ messages[new].at \in Nat
        BY <4>1, <2>7
      <4>3. m \notin wide
        BY <4>1, <4>2, <3>1, <2>4, <2>6
      <4>4. ASSUME NEW x \in wide PROVE x \in NewerThan(m, i)
        <5>1. x \in MessagesIn(i) /\ messages[x].at \in Nat /\ messages[m].at <= messages[x].at
          BY <4>3, <2>5, <2>7
        <5>2. CASE x \in P
          BY <5>1, <5>2, <4>2, <3>1 DEF NewerThan
        <5>3. CASE x \in narrow
          BY <5>1, <5>3, <4>1, <4>2, <3>1, <2>6 DEF NewerThan
        <5> QED
          BY <5>2, <5>3, <2>4
      <4>5. Cardinality(wide) <= Cardinality(NewerThan(m, i))
        BY <4>4, <2>7, FS_Subset
      <4> QED
        BY <4>3, <4>5, <2>5 DEF Newer
    <3>2. \A m : Newer(m, i)' = Newer(m, i)
      BY <1>2 DEF Newer, NewerThan, MessagesIn
    <3>3. \A m : Tied(m, q)' <=> \E n \in P : messages[n].at = messages[m].at
      BY <1>2, <2>2 DEF Tied, Moved
    <3>4. P \subseteq MessagesIn(i)
      BY <2>4, <2>5
    <3> QED
      BY <3>1, <3>2, <3>3, <3>4, <1>2, <1>5, <2>0, <2>2 DEF Moved, HistoryAsTold, Served
  <2>9. HistoryGoesOn(q)'
    <3>1. ASSUME NEW p \in call[q].after, Served(p, "history"), By(p) = By(q), call[p].on = i,
                 k = call[p].arg + 1, NEW m \in MessagesIn(i), p \notin messages[m].after,
                 NEW new \in call[p].page, messages[m].at < messages[new].at,
                 NEW old \in P, messages[old].at < messages[m].at
          PROVE  m \in P \/ Tied(m, p)
      <4> SUFFICES ASSUME ~Tied(m, p) PROVE m \in P
        OBVIOUS
      <4>1. k * PageSize <= Newer(m, i)
        BY <3>1, AfterIsDone DEF TalkInv, TalkAsTold, HistoryAsTold, Served
      <4>2. old \in wide /\ messages[old].at \in Nat /\ messages[m].at \in Nat
        BY <2>4, <2>5, <2>7
      <4>3. m \in wide
        BY <4>2, <3>1, <2>5
      <4>4. ASSUME m \in narrow PROVE FALSE
        <5>1. \A x \in NewerThan(m, i) : x \in narrow
          BY <4>4, <4>2, <2>6, <2>7 DEF NewerThan
        <5>2. m \notin NewerThan(m, i)
          BY <4>2 DEF NewerThan
        <5>3. Cardinality(NewerThan(m, i)) < Cardinality(narrow)
          BY <5>1, <5>2, <4>4, <2>6, FS_Subset, FS_CardinalityType
        <5> QED
          BY <5>3, <4>1, <2>3, <2>6, <2>7 DEF Newer
      <4> QED
        BY <4>3, <4>4, <2>4
    <3>2. \A p \in call[q].after : /\ call'[p] = call[p] /\ By(p)' = By(p)
                                   /\ Served(p, "history")' = Served(p, "history")
                                   /\ \A m : Tied(m, p)' <=> Tied(m, p)
      BY <1>0, <1>2, AfterIsDone DEF Onward, By, Served, Done, At, Tied
    <3> QED
      BY <3>1, <3>2, <1>2, <2>0, <2>2 DEF Moved, HistoryGoesOn
  <2> QED
    BY <2>8, <2>9, <1>3
<1> QED
  BY <1>4, <1>5 DEF ListMessages

\* It is kept by marking a conversation as read.
LEMMA ReadKeepsTalks ==
    ASSUME CallInv, TalkInv, [Next]_vars, NEW q \in Calls, Advance(q), UNCHANGED scene, MarkRead(q)
    PROVE  TalkInv'
<1>0. /\ Onward /\ CallTypeOK /\ call[q].kind = "read" /\ ~At(q, "new") /\ ~Done(q)
      /\ conversations' = conversations /\ call[q].page = {}
  BY StepIsOnward DEF CallInv, MarkRead, Serving, At, Done, TalkInv, TalkAsTold, NoPage
<1>1. /\ call'[q].kind = "read" /\ By(q)' = By(q) /\ call'[q].on = call[q].on
      /\ call'[q].after = call[q].after
  BY <1>0 DEF Advance, Moved, By
<1>2. ASSUME ReadAsTold(q)', call'[q].page = {} PROVE TalkAsTold(q)'
  BY <1>1, <1>2 DEF TalkAsTold, ChatAsTold, HistoryAsTold, HistoryGoesOn, InboxAsTold, NoPage, Served
<1>3. CASE Refuse(q) /\ UNCHANGED messages
  <2>1. PICK outcome : Moved(q, "done", outcome, call[q].page) /\ outcome \notin {"ok", "none"}
    BY <1>3, <1>0, RefusedIsOver
  <2>2. ReadAsTold(q)' /\ call'[q].page = {}
    BY <2>1, <1>0 DEF Moved, ReadAsTold, Served
  <2> QED
    BY <2>2, <1>0, <1>2, <1>3, TalkRowsStay, TalkStepOf DEF talks
<1>4. CASE /\ call[q].on \in Mine(q)
           /\ messages' = [n \in DOMAIN messages |-> [messages[n] EXCEPT
                             !.state = IF n \in UnreadBy(By(q), call[q].on) THEN "read" ELSE @]]
           /\ Committed(q)
  <2>1. messages \in Seq(Message)
    BY DEF TalkInv, ConversationsTypeOK
  <2>2. /\ DOMAIN messages' = DOMAIN messages
        /\ \A n \in DOMAIN messages :
              /\ messages'[n] \in Message /\ messages'[n].of = messages[n].of
              /\ messages'[n].by = messages[n].by /\ messages'[n].from = messages[n].from
              /\ messages'[n].at = messages[n].at /\ messages'[n].after = messages[n].after
              /\ messages'[n].state = IF n \in UnreadBy(By(q), call[q].on) THEN "read" ELSE messages[n].state
    <3>1. \A n \in DOMAIN messages : messages[n] \in Message
      BY <2>1, ElementOf
    <3> QED
      BY <1>4, <3>1 DEF Message
  <2>3. TalksStay
    BY <2>2, <1>0 DEF TalksStay, UnreadBy
  <2>4. ConversationsTypeOK'
    <3>1. messages' = [n \in DOMAIN messages |-> messages'[n]]
      BY <1>4
    <3>2. \A n \in DOMAIN messages : messages'[n] \in Message
      BY <2>2
    <3>3. messages' \in Seq(Message)
      BY <2>1, <3>1, <3>2, MapIsSequence
    <3>4. Message' = Message
      BY <1>0 DEF Message
    <3> QED
      BY <3>3, <3>4, <1>0 DEF TalkInv, ConversationsTypeOK
  <2>5. PICK outcome : Moved(q, "done", outcome, call[q].page)
    BY <1>4, <1>0, CommitMoves
  <2>6. ConversationRows'
    BY <1>0 DEF TalkInv, ConversationRows, Onward, Done, At
  <2>7. MessageRows'
    <3>1. ASSUME NEW n \in DOMAIN messages PROVE ReadByOther(n)'
      <4>1. CASE n \notin UnreadBy(By(q), call[q].on)
        BY <4>1, <2>2, <1>0, ReadersStay
      <4>2. CASE n \in UnreadBy(By(q), call[q].on)
        <5>1. messages[n].of = call[q].on /\ messages[n].by # By(q)
          BY <4>2 DEF UnreadBy, MessagesIn
        <5>2. q \notin messages[n].after
          BY <1>0 DEF TalkInv, MessageRows, SentByOne
        <5>3. Done(q)'
          BY <2>5 DEF Moved, Done, At
        <5> QED
          BY <5>1, <5>2, <5>3, <2>2, <1>1 DEF ReadByOther
      <4> QED
        BY <4>1, <4>2
    <3>2. ASSUME NEW n \in DOMAIN messages
          PROVE  SentByOne(n)'
      <4>1. messages'[n].state # "inserting" => messages[n].state # "inserting"
        BY <2>2 DEF UnreadBy, MessagesIn
      <4> QED
        BY <4>1, <2>2, <1>0, SendersStay
    <3> QED
      BY <3>1, <3>2, <2>2 DEF MessageRows
  <2>8. ReadAsTold(q)'
    <3>1. ASSUME NEW n \in DOMAIN messages, messages[n].of = call[q].on, messages[n].by # By(q),
                 messages'[n].state # "inserting"
          PROVE  messages'[n].state = "read"
      <4>1. messages[n].state \in {"inserting", "unread", "read"}
        BY MessageFields DEF TalkInv
      <4> QED
        BY <4>1, <3>1, <2>2 DEF UnreadBy, MessagesIn
    <3> QED
      BY <3>1, <2>2, <1>1 DEF ReadAsTold, ToBeRead, MessagesIn
  <2> QED
    BY <1>0, <1>2, <2>3, <2>4, <2>5, <2>6, <2>7, <2>8, TalkStepOf DEF Moved
<1> QED
  BY <1>3, <1>4, <1>0 DEF MarkRead

\* It is kept by a message, which nobody sees yet.
LEMMA SayKeepsTalks ==
    ASSUME CallInv, TalkInv, [Next]_vars, NEW q \in Calls, Advance(q), UNCHANGED scene, PersistMessage(q)
    PROVE  TalkInv'
<1>0. /\ Onward /\ CallTypeOK /\ call[q].kind = "say" /\ ~At(q, "new") /\ ~Done(q)
      /\ conversations' = conversations /\ call[q].page = {} /\ By(q) \in Users
  BY StepIsOnward DEF CallInv, PersistMessage, Serving, At, Done, TalkInv, TalkAsTold, NoPage, By
<1>1. call'[q].kind = "say"
  BY <1>0 DEF Advance, Moved
<1>2. ASSUME call'[q].page = {} PROVE TalkAsTold(q)'
  BY <1>1, <1>2 DEF TalkAsTold, ChatAsTold, HistoryAsTold, HistoryGoesOn, ReadAsTold, InboxAsTold, NoPage, Served
<1>3. CASE Finish(q, "forbidden") /\ UNCHANGED messages
  <2>1. Moved(q, "done", "forbidden", call[q].page)
    BY <1>3, <1>0, FinishMoves
  <2> QED
    BY <2>1, <1>0, <1>2, <1>3, TalkRowsStay, TalkStepOf DEF talks, Moved
<1>4. CASE /\ call[q].on \in Mine(q)
           /\ \E now \in {Latest, Latest + 1} :
                 messages' = Append(messages, [of |-> call[q].on, by |-> By(q), from |-> q, at |-> now,
                                               state |-> "inserting", after |-> {}])
           /\ Goto(q, "inserting")
  <2>0. PICK now \in {Latest, Latest + 1} :
                 messages' = Append(messages, [of |-> call[q].on, by |-> By(q), from |-> q, at |-> now,
                                               state |-> "inserting", after |-> {}])
    BY <1>4
  <2> DEFINE new == [of |-> call[q].on, by |-> By(q), from |-> q, at |-> now,
                     state |-> "inserting", after |-> {}]
             last == Len(messages) + 1
  <2>9. Latest \in Nat
    <3>1. CASE messages = <<>>
      BY <3>1 DEF Latest
    <3>2. CASE messages # <<>>
      <4>1. Len(messages) \in DOMAIN messages
        BY <3>2 DEF TalkInv, ConversationsTypeOK
      <4> QED
        BY <3>2, <4>1, MessageFields DEF Latest, TalkInv
    <3> QED
      BY <3>1, <3>2
  <2>1. messages \in Seq(Message) /\ new \in Message
    <3>1. now \in Nat
      BY <2>9
    <3> QED
      BY <3>1, <1>0, <1>4, CallsAreIds DEF TalkInv, ConversationsTypeOK, Mine, Message
  <2>2. /\ messages' \in Seq(Message) /\ DOMAIN messages' = DOMAIN messages \cup {last}
        /\ \A n \in DOMAIN messages : messages'[n] = messages[n]
        /\ messages'[last] = new /\ last \notin DOMAIN messages
    BY <2>0, <2>1, AppendIsNew
  <2>3. TalksStay
    BY <2>2, <1>0 DEF TalksStay
  <2>4. ConversationsTypeOK'
    <3>1. Message' = Message
      BY <1>0 DEF Message
    <3> QED
      BY <3>1, <2>2, <1>0 DEF TalkInv, ConversationsTypeOK
  <2>5. Moved(q, "inserting", call[q].outcome, call[q].page)
    BY <1>4, <1>0, GotoMoves
  <2>6. ConversationRows'
    BY <1>0 DEF TalkInv, ConversationRows, Onward, Done, At
  <2>7. MessageRows'
    <3>1. ASSUME NEW n \in DOMAIN messages PROVE ReadByOther(n)'
      BY <2>2, <1>0, ReadersStay
    <3>2. ASSUME NEW n \in DOMAIN messages
          PROVE  SentByOne(n)'
      <4>1. messages[n].of \in DOMAIN conversations
        BY MessageFields DEF TalkInv
      <4> QED
        BY <4>1, <2>2, <1>0, SendersStay
    <3>3. ASSUME NEW n, n = last PROVE SentByOne(n)' /\ ReadByOther(n)'
      BY <3>3, <2>2, <1>0, <1>4 DEF Mine, SentByOne, ReadByOther
    <3> HIDE DEF last
    <3> QED
      BY <3>1, <3>2, <3>3, <2>2 DEF MessageRows
  <2> QED
    BY <1>0, <1>2, <2>3, <2>4, <2>5, <2>6, <2>7, TalkStepOf DEF Moved
<1> QED
  BY <1>3, <1>4, <1>0 DEF PersistMessage

\* It is kept by its commit: nobody who is done has seen it.
LEMMA StoredKeepsTalks ==
    ASSUME CallInv, TalkInv, [Next]_vars, NEW q \in Calls, Advance(q), UNCHANGED scene, MessageStored(q)
    PROVE  TalkInv'
<1>0. /\ Onward /\ CallTypeOK /\ call[q].kind = "say" /\ ~At(q, "new") /\ ~Done(q)
      /\ conversations' = conversations /\ call[q].page = {}
  BY StepIsOnward DEF CallInv, MessageStored, ServingAt, At, Done, TalkInv, TalkAsTold, NoPage
<1>1. PICK outcome : Moved(q, "done", outcome, call[q].page)
  BY <1>0, CommitMoves DEF MessageStored
<1>2. TalkAsTold(q)' /\ Done(q)'
  BY <1>0, <1>1 DEF Moved, TalkAsTold, ChatAsTold, HistoryAsTold, HistoryGoesOn, ReadAsTold, InboxAsTold,
                    NoPage, Served, Done, At
<1>3. messages \in Seq(Message) /\ \A n \in DOMAIN messages : messages[n] \in Message
  BY ElementOf DEF TalkInv, ConversationsTypeOK
<1>4. /\ DOMAIN messages' = DOMAIN messages /\ messages' = [n \in DOMAIN messages |-> messages'[n]]
      /\ \A n \in DOMAIN messages :
            /\ messages'[n] \in Message
            /\ messages'[n].of = messages[n].of /\ messages'[n].by = messages[n].by
            /\ messages'[n].from = messages[n].from /\ messages'[n].at = messages[n].at
            /\ messages[n].from # q => messages'[n].state = messages[n].state /\ messages'[n].after = messages[n].after
            /\ messages[n].from = q => messages'[n].state = "unread" /\ messages'[n].after = {p \in Calls : Done(p)}
  BY <1>3 DEF MessageStored, Message
<1>5. ASSUME NEW n \in DOMAIN messages, messages[n].from = q PROVE messages[n].state = "inserting"
  BY <1>0, <1>5 DEF TalkInv, MessageRows, SentByOne
<1>6. TalksStay
  BY <1>0, <1>4, <1>5 DEF TalksStay
<1>7. ConversationsTypeOK'
  <2>1. messages' \in Seq(Message)
    BY <1>3, <1>4, MapIsSequence
  <2>2. Message' = Message
    BY <1>0 DEF Message
  <2> QED
    BY <2>1, <2>2, <1>0 DEF TalkInv, ConversationsTypeOK
<1>8. ConversationRows'
  BY <1>0 DEF TalkInv, ConversationRows, Onward, Done, At
<1>9. MessageRows'
  <2>1. ASSUME NEW n \in DOMAIN messages
        PROVE  SentByOne(n)' /\ ReadByOther(n)'
    <3>1. CASE messages[n].from # q
      BY <3>1, <1>4, <1>0, SendersStay, ReadersStay
    <3>2. CASE messages[n].from = q
      <4>1. messages'[n].from = q /\ messages'[n].by \in conversations'[messages'[n].of]
        BY <3>2, <1>4, <1>0 DEF TalkInv, MessageRows, SentByOne
      <4>2. \A p \in messages'[n].after : Done(p)'
        BY <3>2, <1>4, <1>0 DEF Onward, Done, At
      <4>3. ReadByOther(n)'
        BY <3>2, <1>4 DEF ReadByOther
      <4>4. \A p : p = q => Done(p)'
        BY <1>2
      <4> QED
        BY <4>1, <4>2, <4>3, <4>4 DEF SentByOne
    <3> QED
      BY <3>1, <3>2
  <2> QED
    BY <2>1, <1>4 DEF MessageRows
<1> QED
  BY <1>0, <1>2, <1>6, <1>7, <1>8, <1>9, TalkStepOf

\* The invariant of the conversations is kept by every step of the composition.
LEMMA TalkInvStep ==
    ASSUME CallInv, TalkInv, [Next]_vars
    PROVE  TalkInv'
<1>0. CallTypeOK /\ Onward /\ UNCHANGED scene
  BY StepIsOnward, CallStep DEF CallInv
<1>1. CASE Elsewhere(TalkKinds) /\ UNCHANGED talks
  <2>1. TalksStay /\ ConversationsTypeOK' /\ ConversationRows' /\ MessageRows'
    BY <1>0, <1>1, TalkRowsStay
  <2>2. ASSUME NEW p \in Calls PROVE TalkAsTold(p)'
    <3>1. CASE call'[p].kind \notin TalkKinds
      BY <3>1 DEF TalkAsTold, ChatAsTold, HistoryAsTold, HistoryGoesOn, ReadAsTold, InboxAsTold, NoPage,
                  Served, TalkKinds
    <3>2. CASE Untouched(p)
      BY <3>2, <1>0, <2>1, NoTalkYet, TalkStaysTold
    <3>3. CASE Failed(p)
      <4>1. /\ \A kind : ~Served(p, kind)' /\ ~At(p, "absent")'
            /\ call'[p].page = call[p].page /\ call'[p].kind = call[p].kind /\ call'[p].on = call[p].on
            /\ By(p)' = By(p) /\ scene.faults /\ Mine(p)' = Mine(p)
            /\ MessagesIn(call[p].on)' = MessagesIn(call[p].on)
        BY <3>3, <1>1 DEF Failed, Served, At, By, Mine, MessagesIn, talks
      <4>2. ChatAsTold(p)'
        BY <4>1, <1>0 DEF ChatAsTold
      <4>3. HistoryAsTold(p)' /\ NoPage(p)'
        BY <4>1 DEF HistoryAsTold, NoPage, TalkInv, TalkAsTold
      <4> QED
        BY <4>1, <4>2, <4>3 DEF TalkAsTold, HistoryGoesOn, ReadAsTold, InboxAsTold
    <3>4. CASE Begun(p)
      <4>1. (\A kind : ~Served(p, kind)') /\ ~At(p, "absent")' /\ call'[p].page = {} /\ call'[p].outcome # "error"
        BY <3>4 DEF Begun, Served, At
      <4> QED
        BY <4>1 DEF TalkAsTold, ChatAsTold, HistoryAsTold, HistoryGoesOn, ReadAsTold, InboxAsTold, NoPage
    <3> QED
      BY <3>1, <3>2, <3>3, <3>4, <1>1, <1>0, OthersOf
  <2> QED
    BY <2>1, <2>2 DEF TalkInv
<1>2. ASSUME NEW q \in Calls, ConversationsStep(q) PROVE TalkInv'
  BY <1>0, <1>2, ConversationsAdvance, FindKeepsTalks, InsertKeepsTalks, InboxKeepsTalks,
     HistoryKeepsTalks, ReadKeepsTalks, SayKeepsTalks, StoredKeepsTalks DEF ConversationsStep
<1> QED
  BY <1>1, <1>2, ConversationsAlone

\* It is true at first.
LEMMA TalkInvInit == Init => TalkInv
<1> SUFFICES ASSUME Init PROVE TalkInv
  OBVIOUS
<1>1. /\ conversations = [i \in {0} |-> {OldTalk[n] : n \in DOMAIN OldTalk}]
      /\ messages = [n \in DOMAIN OldTalk |-> [of |-> 0, by |-> OldTalk[n], from |-> 0, at |-> n,
                                                state |-> "unread", after |-> {}]]
      /\ OldTalk \in Seq(Users)
  BY ConversationsAssumption DEF Init, ConversationsInit
<1>2. \A n \in DOMAIN OldTalk : OldTalk[n] \in Users /\ n \in Nat
  BY <1>1
<1>3. ConversationsTypeOK
  <2>1. \A n \in DOMAIN OldTalk : messages[n] \in Message
    BY <1>1, <1>2, CallsAreIds DEF Message
  <2>2. messages \in Seq(Message)
    BY <2>1, <1>1, MapIsSequence
  <2> QED
    BY <2>2, <1>1, <1>2, CallsAreIds DEF ConversationsTypeOK
<1>4. ConversationRows
  BY <1>1, CallsAreIds, ConversationsAssumption DEF ConversationRows
<1>5. MessageRows
  BY <1>1, CallsAreIds DEF MessageRows, SentByOne, ReadByOther
<1>6. \A q \in Calls : TalkAsTold(q)
  BY NoCallsYet DEF TalkAsTold, ChatAsTold, HistoryAsTold, HistoryGoesOn, ReadAsTold, InboxAsTold, NoPage, Served
<1> QED
  BY <1>3, <1>4, <1>5, <1>6 DEF TalkInv

\* No pair has two conversations, whoever opens them and when (service/chat.go:45-71).
THEOREM NoPairHasTwo == Spec => []OneConversationPerPair
<1>1. TalkInv => OneConversationPerPair
  BY DEF TalkInv, ConversationRows, TalkAsTold, ChatAsTold, OneConversationPerPair, Served
<1> QED
  BY <1>1, CallInvInit, CallInvStep, TalkInvInit, TalkInvStep, PTL DEF Spec

\* Who reads backwards misses nothing in between that was visible all along, and
\* what has been read is not unread any more (service/chat.go:121-126, :155-162).
THEOREM HistoriesAreExact == Spec => []HistoryIsExact
<1>1. ASSUME TalkInv PROVE HistoryIsExact
  <2>1. \A p, q \in Calls :
          (/\ Served(p, "history") /\ Served(q, "history") /\ p \in call[q].after
           /\ By(p) = By(q) /\ call[p].on = call[q].on /\ call[q].arg = call[p].arg + 1) =>
              \A m \in MessagesIn(call[q].on) :
                  (/\ p \notin messages[m].after
                   /\ \E new \in call[p].page : messages[m].at < messages[new].at
                   /\ \E old \in call[q].page : messages[old].at < messages[m].at) =>
                      \/ m \in call[q].page
                      \/ \E n \in call[p].page : messages[n].at = messages[m].at
    BY <1>1 DEF TalkInv, TalkAsTold, HistoryGoesOn, Tied
  <2>2. \A n \in DOMAIN messages : ReadByOther(n)
    BY <1>1 DEF TalkInv, MessageRows
  <2>3. ASSUME NEW r \in Calls, Served(r, "read"), NEW n \in MessagesIn(call[r].on),
               messages[n].by # By(r), r \notin messages[n].after
        PROVE  /\ messages[n].state = "read"
               /\ \A q \in Calls : (Served(q, "inbox") /\ By(q) = By(r) /\ r \in call[q].after) =>
                      \A c \in call[q].page : n \notin c.unread
    <3>1. n \in DOMAIN messages /\ ToBeRead(r, n)
      BY <2>3 DEF ToBeRead, MessagesIn
    <3> QED
      BY <1>1, <2>3, <3>1 DEF TalkInv, TalkAsTold, ReadAsTold, InboxAsTold
  <2> QED
    BY <2>1, <2>2, <2>3 DEF HistoryIsExact, ReadByOther
<1> QED
  BY <1>1, CallInvInit, CallInvStep, TalkInvInit, TalkInvStep, PTL DEF Spec

-----------------------------------------------------------------------------
(* Requests, questions and notifications.                                  *)

\* The calls that write or show requests, questions or notifications.
BoardKinds == NoticesKinds \cup RequestsKinds \cup QuestionsKinds

\* Their tables are written by these three modules alone.
LEMMA BoardsAlone ==
    ASSUME CallInv, [Next]_vars
    PROVE  \/ \E q \in Calls :
                \/ NoticesStep(q) /\ UNCHANGED <<requests, responses, questions, answers>>
                \/ RequestsStep(q) /\ UNCHANGED <<questions, answers>>
                \/ QuestionsStep(q) /\ UNCHANGED <<requests, responses>>
           \/ Elsewhere(BoardKinds) /\ UNCHANGED <<notices, requests, responses, questions, answers>>
  BY StepIsOneOf, StepsAdvance
  DEF StepCases, Elsewhere, CallInv, AllKinds, BulletinKinds, NoticesKinds, RequestsKinds, QuestionsKinds,
      AccountsKinds, PageKinds, TalkKinds, ResetKinds, boards, rows, Record, BoardKinds

\* A set of rows is finite.
LEMMA FiniteIds ==
    ASSUME NEW S, S \subseteq Ids PROVE IsFiniteSet(S) /\ Cardinality(S) \in Nat
<1>1. IsFiniteSet(Ids)
  BY CallsAssumption, FS_Interval DEF Ids
<1> QED
  BY <1>1, FS_Subset, FS_CardinalityType

\* Which call made a row, and that what it is about is of its community.
RequestRows ==
    /\ 0 \in DOMAIN requests => requests[0].by = OldRequester
    /\ \A i \in DOMAIN requests \cap Calls :
          call[i].kind = "publish" /\ Done(i) /\ requests[i].by = call[i].by

\* A response is by who made the call, one per provider and request.
ResponseRows ==
    /\ \A i \in DOMAIN responses :
          /\ call[i].kind = "respond" /\ call[i].pc \in {"telling", "done"}
          /\ responses[i].by = call[i].by /\ responses[i].to = call[i].on
          /\ Home[responses[i].by] = Home[requests[responses[i].to].by]
    /\ \A i, j \in DOMAIN responses : responses[i] = responses[j] => i = j

\* A question is by who made the call, and to somebody of the community.
QuestionRows ==
    /\ 0 \in DOMAIN questions => questions[0].by = OldAsker
    /\ \A i \in DOMAIN questions : Home[questions[i].by] = Home[questions[i].to]
    /\ \A i \in DOMAIN questions \cap Calls :
          /\ call[i].kind = "ask" /\ call[i].pc \in {"telling", "done"}
          /\ questions[i].by = call[i].by /\ questions[i].to = call[i].on

\* An answer is by who made the call, and of the community of its question.
AnswerRows ==
    \A i \in DOMAIN answers :
        /\ call[i].kind = "answer" /\ Done(i) /\ answers[i].by = call[i].by
        /\ Home[answers[i].by] = Home[questions[answers[i].to].by]

\* A notification stays in the community; one of a response has the response.
NoticeRows ==
    \A i \in DOMAIN notices :
        /\ Done(i) /\ Home[call[i].by] = Home[notices[i].to]
        /\ notices[i].type = "request_response" =>
              /\ i \in DOMAIN responses /\ responses[i].to = notices[i].about
              /\ notices[i].to = requests[notices[i].about].by

\* What is known of the rows.
BoardRows ==
    /\ NoticesTypeOK /\ RequestsTypeOK /\ QuestionsTypeOK
    /\ RequestRows /\ ResponseRows /\ QuestionRows /\ AnswerRows /\ NoticeRows

\* What a page may show.
OnBoard(q, x) ==
    \/ /\ call[q].kind \in {"notices", "unread"}
       /\ x \in DOMAIN notices /\ notices[x].to = By(q)
    \/ /\ call[q].kind \in {"feed", "request"}
       /\ x \in DOMAIN requests /\ Home[requests[x].by] = HomeOf(q)
    \/ /\ call[q].kind = "responses"
       /\ x \in DOMAIN responses /\ Home[responses[x].by] = HomeOf(q)
    \/ /\ call[q].kind = "questions"
       /\ x \in DOMAIN questions /\ Home[questions[x].by] = HomeOf(q)
    \/ /\ call[q].kind = "questions" /\ ~At(q, "answers")
       /\ x \in DOMAIN answers /\ Home[answers[x].by] = HomeOf(q)

\* What is shown is shown with the earlier answers to the questions on its page.
OrderKept(q) ==
    Served(q, "questions") =>
        \A i \in call[q].page \cap Calls, j \in DOMAIN answers :
            (j \in call[i].after /\ answers[j].to \in call[q].page) => j \in call[q].page

\* Who has been told of a response, or that there is one, has one.
RespondAsTold(q) ==
    (call[q].kind = "respond" /\ Done(q) /\ call[q].outcome \in {"ok", "conflict"}) =>
        \E i \in ResponsesTo(call[q].on) : responses[i].by = By(q)

\* Everything that a call of the boards has told.
BoardAsTold(q) ==
    /\ ServingAt(q, "respond", "telling") => q \in DOMAIN responses
    /\ ServingAt(q, "ask", "telling") => q \in DOMAIN questions
    /\ call[q].kind \in BoardKinds => \A x \in call[q].page : OnBoard(q, x)
    /\ RespondAsTold(q) /\ OrderKept(q)

\* The invariant of the boards.
BoardsInv == BoardRows /\ \A q \in Calls : BoardAsTold(q)

\* The rows stay, and whose they are and what they are about.
BoardsStay ==
    /\ \A i \in DOMAIN notices :
          /\ i \in DOMAIN notices' /\ notices'[i].to = notices[i].to
          /\ notices'[i].type = notices[i].type /\ notices'[i].about = notices[i].about
    /\ \A i \in DOMAIN requests : i \in DOMAIN requests' /\ requests'[i].by = requests[i].by
    /\ \A i \in DOMAIN responses : i \in DOMAIN responses' /\ responses'[i] = responses[i]
    /\ \A i \in DOMAIN questions : i \in DOMAIN questions' /\ questions'[i] = questions[i]
    /\ \A i \in DOMAIN answers : i \in DOMAIN answers' /\ answers'[i] = answers[i]
    /\ \A i \in DOMAIN answers' \ DOMAIN answers : i \in Calls /\ ~Done(i)

\* The rows, by the calls that make them.
LEMMA RowIds ==
    ASSUME BoardRows
    PROVE  /\ \A i \in DOMAIN notices : i \in Calls /\ notices[i] \in Notice
           /\ \A i \in DOMAIN requests : i \in Ids /\ requests[i].by \in Users
           /\ \A i \in DOMAIN responses :
                 i \in Calls /\ responses[i].by \in Users /\ responses[i].to \in DOMAIN requests
           /\ \A i \in DOMAIN questions : i \in Ids /\ questions[i].by \in Users /\ questions[i].to \in Users
           /\ \A i \in DOMAIN answers :
                 i \in Calls /\ answers[i].by \in Users /\ answers[i].to \in DOMAIN questions
  BY DEF BoardRows, NoticesTypeOK, RequestsTypeOK, QuestionsTypeOK

\* What may be shown may be shown later.
LEMMA OnBoardStays ==
    ASSUME BoardsStay, NEW q \in Calls, Untouched(q), NEW x, OnBoard(q, x)
    PROVE  OnBoard(q, x)'
  BY DEF BoardsStay, Untouched, OnBoard, HomeOf, By, At

\* A later answer is to none of the questions that were asked after it.
LEMMA OrderStays ==
    ASSUME CallInv, Onward, BoardsInv, BoardsStay, NEW q \in Calls, Untouched(q), Served(q, "questions")
    PROVE  OrderKept(q)'
<1>1. ASSUME NEW i \in call[q].page \cap Calls, NEW j \in DOMAIN answers', j \in call'[i].after,
             answers'[j].to \in call[q].page
      PROVE  j \in call[q].page
  <2>1. OnBoard(q, i)
    BY DEF BoardsInv, BoardAsTold, BoardKinds, QuestionsKinds, Served
  <2>2. i \in DOMAIN questions \cup DOMAIN answers
    BY <2>1 DEF OnBoard, Served
  <2>3. ~At(i, "new")
    BY <2>2 DEF BoardsInv, BoardRows, QuestionRows, AnswerRows, At, Done
  <2>4. j \in call[i].after /\ Done(j)
    BY <1>1, <2>3, AfterIsDone DEF Onward
  <2>5. j \in DOMAIN answers /\ answers'[j] = answers[j]
    BY <2>4 DEF BoardsStay
  <2> QED
    BY <1>1, <2>4, <2>5 DEF BoardsInv, BoardAsTold, OrderKept
<1> QED
  BY <1>1 DEF OrderKept, Untouched

\* As long as rows stay, what a call has told stands.
LEMMA BoardStaysTold ==
    ASSUME CallInv, Onward, BoardsInv, BoardsStay, NEW q \in Calls, Untouched(q)
    PROVE  BoardAsTold(q)'
<1>0. /\ \A kind : Served(q, kind)' = Served(q, kind)
      /\ \A kind, phase : ServingAt(q, kind, phase)' = ServingAt(q, kind, phase)
      /\ By(q)' = By(q) /\ call'[q] = call[q] /\ Done(q)' = Done(q)
  BY DEF Untouched, Served, ServingAt, By, Done, At
<1>1. \A x \in call[q].page : OnBoard(q, x) => OnBoard(q, x)'
  BY OnBoardStays
<1>2. OrderKept(q)'
  BY <1>0, OrderStays DEF OrderKept
<1>3. RespondAsTold(q)'
  <2>1. \A i \in ResponsesTo(call[q].on) : i \in ResponsesTo(call[q].on)' /\ responses'[i] = responses[i]
    BY <1>0 DEF ResponsesTo, BoardsStay
  <2>2. RespondAsTold(q)
    BY DEF BoardsInv, BoardAsTold
  <2> QED
    BY <1>0, <2>1, <2>2 DEF RespondAsTold
<1>4. /\ (ServingAt(q, "respond", "telling") => q \in DOMAIN responses)'
      /\ (ServingAt(q, "ask", "telling") => q \in DOMAIN questions)'
  BY <1>0 DEF BoardAsTold, BoardsInv, BoardsStay
<1>5. (call[q].kind \in BoardKinds => \A x \in call[q].page : OnBoard(q, x))'
  BY <1>0, <1>1 DEF BoardAsTold, BoardsInv
<1> QED
  BY <1>2, <1>3, <1>4, <1>5 DEF BoardAsTold

\* A step adds at most the row of q to each table, and what q says of it is so.
RowOf(q) ==
    /\ \A t \in {"ask", "respond"}, p \in Calls :
          call[p].kind = t /\ call[p].pc \in {"telling", "done"} => call'[p].pc \in {"telling", "done"}
    /\ \A i \in DOMAIN notices' \ DOMAIN notices :
          /\ i = q /\ call'[q].pc = "done" /\ Home[call'[q].by] = Home[notices'[q].to]
          /\ notices'[q].type = "request_response" =>
                /\ q \in DOMAIN responses /\ responses[q].to = notices'[q].about
                /\ notices'[q].to = requests[notices'[q].about].by
    /\ \A i \in DOMAIN requests' \ DOMAIN requests :
          /\ i = q /\ q \in Calls
          /\ call'[q].kind = "publish" /\ call'[q].pc = "done" /\ requests'[q].by = call'[q].by
    /\ \A i \in DOMAIN responses' \ DOMAIN responses :
          /\ i = q /\ call'[q].kind = "respond" /\ call'[q].pc \in {"telling", "done"}
          /\ responses'[q].by = call'[q].by /\ responses'[q].to = call'[q].on
          /\ responses'[q].to \in DOMAIN requests
          /\ Home[responses'[q].by] = Home[requests[responses'[q].to].by]
          /\ \A j \in DOMAIN responses : responses[j] # responses'[q]
    /\ \A i \in DOMAIN questions' \ DOMAIN questions :
          /\ i = q /\ q \in Calls /\ call'[q].kind = "ask" /\ call'[q].pc \in {"telling", "done"}
          /\ questions'[q].by = call'[q].by /\ questions'[q].to = call'[q].on
          /\ Home[questions'[q].by] = Home[questions'[q].to]
    /\ \A i \in DOMAIN answers' \ DOMAIN answers :
          /\ i = q /\ call'[q].kind = "answer" /\ call'[q].pc = "done" /\ answers'[q].by = call'[q].by
          /\ answers'[q].to \in DOMAIN questions
          /\ Home[answers'[q].by] = Home[questions[answers'[q].to].by]

\* What is known of the rows is kept, if it is true of the row of the step.
LEMMA BoardRowsStep ==
    ASSUME CallInv, Onward, BoardsInv, BoardsStay, NEW q, RowOf(q),
           NoticesTypeOK', RequestsTypeOK', QuestionsTypeOK'
    PROVE  BoardRows'
<1>0. BoardRows
  BY DEF BoardsInv
<1>1. \A i \in Calls : Done(i) => call'[i] = call[i]
  BY DEF Onward, Done, At
<1>2. \A i \in Calls : call[i].pc \in {"telling", "done"} =>
          call'[i].kind = call[i].kind /\ call'[i].by = call[i].by /\ call'[i].on = call[i].on
  BY DEF Onward, At
<1>3. RequestRows'
  BY <1>0, <1>1, RowIds, CallsAreIds DEF RequestRows, BoardRows, BoardsStay, RowOf, Done, At
<1>4. ResponseRows'
  <2>1. ASSUME NEW i \in DOMAIN responses'
        PROVE  /\ call'[i].kind = "respond" /\ call'[i].pc \in {"telling", "done"}
               /\ responses'[i].by = call'[i].by /\ responses'[i].to = call'[i].on
               /\ Home[responses'[i].by] = Home[requests'[responses'[i].to].by]
    <3>1. CASE i \in DOMAIN responses
      <4>1. i \in Calls /\ responses'[i] = responses[i] /\ responses[i].to \in DOMAIN requests
        BY <3>1, <1>0, RowIds DEF BoardsStay
      <4> QED
        BY <3>1, <4>1, <1>0, <1>2 DEF BoardRows, ResponseRows, BoardsStay, RowOf
    <3>2. CASE i \notin DOMAIN responses
      BY <3>2 DEF BoardsStay, RowOf
    <3> QED
      BY <3>1, <3>2
  <2>2. \A i, j \in DOMAIN responses' : responses'[i] = responses'[j] => i = j
    <3>1. \A i \in DOMAIN responses : responses'[i] = responses[i]
      BY DEF BoardsStay
    <3>2. \A i, j \in DOMAIN responses : responses[i] = responses[j] => i = j
      BY <1>0 DEF BoardRows, ResponseRows
    <3>3. \A i \in DOMAIN responses' \ DOMAIN responses :
             i = q /\ \A j \in DOMAIN responses : responses[j] # responses'[q]
      BY DEF RowOf
    <3> QED
      BY <3>1, <3>2, <3>3
  <2> QED
    BY <2>1, <2>2 DEF ResponseRows
<1>5. QuestionRows'
  <2>1. ASSUME NEW i \in DOMAIN questions'
        PROVE  /\ i = 0 => questions'[i].by = OldAsker
               /\ Home[questions'[i].by] = Home[questions'[i].to]
               /\ i \in Calls => /\ call'[i].kind = "ask" /\ call'[i].pc \in {"telling", "done"}
                                 /\ questions'[i].by = call'[i].by /\ questions'[i].to = call'[i].on
    <3>1. CASE i \in DOMAIN questions
      BY <3>1, <1>0, <1>2 DEF BoardRows, QuestionRows, BoardsStay, RowOf
    <3>2. CASE i \notin DOMAIN questions
      BY <3>2, CallsAreIds DEF RowOf
    <3> QED
      BY <3>1, <3>2
  <2> QED
    BY <2>1 DEF QuestionRows
<1>6. AnswerRows'
  <2>1. ASSUME NEW i \in DOMAIN answers'
        PROVE  /\ call'[i].kind = "answer" /\ call'[i].pc = "done" /\ answers'[i].by = call'[i].by
               /\ Home[answers'[i].by] = Home[questions'[answers'[i].to].by]
    <3>1. CASE i \in DOMAIN answers
      <4>1. i \in Calls /\ answers'[i] = answers[i] /\ answers[i].to \in DOMAIN questions
        BY <3>1, <1>0, RowIds DEF BoardsStay
      <4> QED
        BY <3>1, <4>1, <1>0, <1>1 DEF BoardRows, AnswerRows, BoardsStay, Done, At
    <3>2. CASE i \notin DOMAIN answers
      BY <3>2 DEF BoardsStay, RowOf
    <3> QED
      BY <3>1, <3>2
  <2> QED
    BY <2>1 DEF AnswerRows, Done, At
<1>7. NoticeRows'
  <2>1. ASSUME NEW i \in DOMAIN notices'
        PROVE  /\ call'[i].pc = "done" /\ Home[call'[i].by] = Home[notices'[i].to]
               /\ notices'[i].type = "request_response" =>
                    /\ i \in DOMAIN responses' /\ responses'[i].to = notices'[i].about
                    /\ notices'[i].to = requests'[notices'[i].about].by
    <3>0. \A j \in DOMAIN responses : /\ responses[j].to \in DOMAIN requests /\ responses'[j] = responses[j]
                                      /\ j \in DOMAIN responses'
      BY <1>0, RowIds DEF BoardsStay
    <3>1. CASE i \in DOMAIN notices
      <4>1. i \in Calls /\ Done(i) /\ call'[i] = call[i]
        BY <3>1, <1>0, <1>1, RowIds DEF BoardRows, NoticeRows
      <4>2. notices[i].type = "request_response" =>
              /\ i \in DOMAIN responses /\ responses[i].to = notices[i].about
              /\ notices[i].to = requests[notices[i].about].by
        BY <3>1, <1>0 DEF BoardRows, NoticeRows
      <4> QED
        BY <3>0, <3>1, <4>1, <4>2, <1>0 DEF BoardRows, NoticeRows, BoardsStay, Done, At
    <3>2. CASE i \notin DOMAIN notices
      BY <3>0, <3>2 DEF BoardsStay, RowOf
    <3> QED
      BY <3>1, <3>2
  <2> QED
    BY <2>1 DEF NoticeRows, Done, At
<1> QED
  BY <1>3, <1>4, <1>5, <1>6, <1>7 DEF BoardRows

\* What is left to show of the step of q.
LEMMA BoardStepOf ==
    ASSUME CallInv, Onward, BoardsInv, NEW q \in Calls, Advance(q), BoardsStay, RowOf(q),
           NoticesTypeOK', RequestsTypeOK', QuestionsTypeOK', BoardAsTold(q)'
    PROVE  BoardsInv'
<1>1. ASSUME NEW p \in Calls, p # q PROVE BoardAsTold(p)'
  BY <1>1, ServesOne, BoardStaysTold DEF Untouched
<1> QED
  BY <1>1, BoardRowsStep DEF BoardsInv


\* The newest of some rows are among them.
LEMMA NewestAreRows ==
    ASSUME NEW table, NEW S PROVE Newest(table, S) \subseteq S
  BY DEF Newest

tables == <<notices, requests, responses, questions, answers>>

\* A step that ends a call, or goes on with a page of questions, and writes nothing.
LEMMA ReadsKeepBoards ==
    ASSUME CallInv, Onward, BoardsInv, NEW q \in Calls, Advance(q), UNCHANGED tables,
           call'[q].pc = "done" \/ (call[q].kind = "questions" /\ call'[q].pc = "answers"),
           \A x \in call'[q].page : OnBoard(q, x)', RespondAsTold(q)', OrderKept(q)'
    PROVE  BoardsInv'
<1>1. BoardsStay
  BY DEF BoardsStay, tables
<1>2. RowOf(q)
  BY ServesOne DEF RowOf, tables, Advance, InProgress, Moved
<1>3. NoticesTypeOK' /\ RequestsTypeOK' /\ QuestionsTypeOK'
  BY DEF tables, BoardsInv, BoardRows, NoticesTypeOK, RequestsTypeOK, QuestionsTypeOK
<1>4. call'[q].kind = call[q].kind
  BY DEF Advance, Moved
<1>5. ~ServingAt(q, "respond", "telling")' /\ ~ServingAt(q, "ask", "telling")'
  BY <1>4 DEF ServingAt, At
<1>6. BoardAsTold(q)'
  BY <1>5 DEF BoardAsTold
<1> QED
  BY <1>1, <1>2, <1>3, <1>6, BoardStepOf

\* The invariant is kept by the notifications.
LEMMA NoticesKeepBoards ==
    ASSUME CallInv, Onward, BoardsInv, NEW q \in Calls, NoticesStep(q),
           UNCHANGED <<requests, responses, questions, answers>>
    PROVE  BoardsInv'
<1>0. CallTypeOK /\ Advance(q) /\ call[q].kind \in NoticesKinds
  BY NoticesAdvance DEF CallInv
<1>a. call'[q].kind = call[q].kind /\ call'[q].by = call[q].by
  BY <1>0 DEF Advance, Moved
<1>b. RespondAsTold(q)' /\ OrderKept(q)'
  BY <1>0, <1>a DEF RespondAsTold, OrderKept, NoticesKinds, Served
<1>1. CASE ListNotices(q) \/ UnreadCount(q)
  <2>1. \E S : Show(q, S) /\ S \subseteq MyNotices(By(q)) /\ call[q].kind \in {"notices", "unread"} /\ UNCHANGED notices
    BY <1>1, NewestAreRows DEF ListNotices, UnreadCount, Unread, Serving
  <2>2. PICK S : Show(q, S) /\ S \subseteq MyNotices(By(q)) /\ call[q].kind \in {"notices", "unread"} /\ UNCHANGED notices
    BY <2>1
  <2>3. call'[q].pc = "done" /\ call'[q].page = S
    BY <2>2, <1>0, ShowMoves DEF Moved
  <2>4. \A x \in call'[q].page : OnBoard(q, x)'
    BY <2>2, <2>3, <1>a DEF OnBoard, MyNotices, By
  <2> QED
    BY <1>0, <1>b, <2>2, <2>3, <2>4, ReadsKeepBoards DEF tables
<1>2. CASE MarkAllRead(q)
  <2>0. BoardRows
    BY DEF BoardsInv
  <2>1. call'[q].pc = "done" /\ call'[q].page = call[q].page
    BY <1>2, <1>0, CommitMoves DEF MarkAllRead, Moved
  <2>2. DOMAIN notices' = DOMAIN notices
    BY <1>2 DEF MarkAllRead
  <2>3. \A i \in DOMAIN notices :
           /\ notices'[i].to = notices[i].to /\ notices'[i].type = notices[i].type
           /\ notices'[i].about = notices[i].about /\ notices'[i] \in Notice
    <3> TAKE i \in DOMAIN notices
    <3>0. notices[i] \in Notice
      BY <2>0, RowIds
    <3> DEFINE b == notices[i].read \/ i \in MyNotices(By(q))
    <3>1. b \in BOOLEAN
      BY <3>0 DEF Notice
    <3>2. notices'[i] = [notices[i] EXCEPT !.read = b]
      BY <1>2 DEF MarkAllRead
    <3> HIDE DEF b
    <3> QED
      BY <3>0, <3>1, <3>2 DEF Notice
  <2>4. BoardsStay
    BY <2>2, <2>3 DEF BoardsStay
  <2>5. NoticesTypeOK' /\ RequestsTypeOK' /\ QuestionsTypeOK'
    BY <2>0, <2>2, <2>3 DEF BoardRows, NoticesTypeOK, RequestsTypeOK, QuestionsTypeOK
  <2>6. RowOf(q)
    BY <2>1, <2>2, <1>0, ServesOne DEF RowOf
  <2>7. \A x \in call'[q].page : OnBoard(q, x)'
    <3>1. call[q].kind = "readAll"
      BY <1>2 DEF MarkAllRead, Serving
    <3>2. call[q].page = {}
      BY <3>1 DEF BoardsInv, BoardAsTold, OnBoard, BoardKinds, NoticesKinds
    <3> QED
      BY <3>2, <2>1
  <2>8. BoardAsTold(q)'
    BY <1>b, <2>1, <2>7 DEF BoardAsTold, ServingAt, At
  <2> QED
    BY <1>0, <2>4, <2>5, <2>6, <2>8, BoardStepOf
<1> QED
  BY <1>1, <1>2 DEF NoticesStep

\* It is kept by the reads of the service requests.
LEMMA RequestReadsKeepBoards ==
    ASSUME CallInv, Onward, BoardsInv, NEW q \in Calls, Feed(q) \/ GetRequest(q) \/ ListResponses(q) \/ RefuseResponse(q),
           UNCHANGED <<questions, answers, scene>>
    PROVE  BoardsInv'
<1>0. CallTypeOK /\ Advance(q) /\ UNCHANGED tables
  BY RequestsAdvance DEF CallInv, RequestsStep, tables, Feed, GetRequest, ListResponses, RefuseResponse
<1>a. call'[q].kind = call[q].kind /\ call'[q].by = call[q].by /\ call'[q].on = call[q].on
  BY <1>0 DEF Advance, Moved
<1>p. call[q].kind \in RequestsKinds => \A x \in call[q].page : OnBoard(q, x)
  BY DEF BoardsInv, BoardAsTold, BoardKinds
<1>1. CASE Feed(q)
  <2>1. PICK S : Show(q, S) /\ S \subseteq {i \in DOMAIN requests : Home[requests[i].by] = HomeOf(q)} /\ call[q].kind = "feed"
    BY <1>1, NewestAreRows DEF Feed, Serving
  <2>3. call'[q].pc = "done" /\ call'[q].page = S
    BY <2>1, <1>0, ShowMoves DEF Moved
  <2>4. \A x \in call'[q].page : OnBoard(q, x)'
    BY <2>1, <2>3, <1>a, <1>0 DEF OnBoard, HomeOf, By, tables
  <2>5. RespondAsTold(q)' /\ OrderKept(q)'
    BY <2>1, <1>a DEF RespondAsTold, OrderKept, Served
  <2> QED
    BY <1>0, <2>3, <2>4, <2>5, ReadsKeepBoards
<1>2. CASE GetRequest(q) /\ RequestHere(q)
  <2>1. Show(q, {call[q].on}) /\ call[q].kind = "request"
    BY <1>2 DEF GetRequest, Serving
  <2>3. call'[q].pc = "done" /\ call'[q].page = {call[q].on}
    BY <2>1, <1>0, ShowMoves DEF Moved
  <2>4. \A x \in call'[q].page : OnBoard(q, x)'
    BY <2>1, <2>3, <1>a, <1>0, <1>2 DEF OnBoard, HomeOf, By, tables, RequestHere
  <2>5. RespondAsTold(q)' /\ OrderKept(q)'
    BY <2>1, <1>a DEF RespondAsTold, OrderKept, Served
  <2> QED
    BY <1>0, <2>3, <2>4, <2>5, ReadsKeepBoards
<1>3. CASE (\E outcome : Finish(q, outcome)) /\ call[q].kind \in {"request", "responses"}
  <2>3. call'[q].pc = "done" /\ call'[q].page = call[q].page
    BY <1>3, <1>0, FinishMoves DEF Moved
  <2>4. \A x \in call'[q].page : OnBoard(q, x)'
    BY <1>3, <1>p, <2>3, <1>a, <1>0 DEF OnBoard, HomeOf, By, tables, RequestsKinds
  <2>5. RespondAsTold(q)' /\ OrderKept(q)'
    BY <1>3, <1>a DEF RespondAsTold, OrderKept, Served
  <2> QED
    BY <1>0, <2>3, <2>4, <2>5, ReadsKeepBoards
<1>4. CASE ListResponses(q) /\ ~\E outcome : Finish(q, outcome)
  <2>1. /\ Show(q, {i \in ResponsesTo(call[q].on) : Home[responses[i].by] = HomeOf(q)})
        /\ call[q].kind = "responses"
    BY <1>4 DEF ListResponses, Serving
  <2>3. call'[q].pc = "done" /\ call'[q].page = {i \in ResponsesTo(call[q].on) : Home[responses[i].by] = HomeOf(q)}
    BY <2>1, <1>0, ShowMoves DEF Moved
  <2>4. \A x \in call'[q].page : OnBoard(q, x)'
    BY <2>1, <2>3, <1>a, <1>0 DEF OnBoard, HomeOf, By, tables, ResponsesTo
  <2>5. RespondAsTold(q)' /\ OrderKept(q)'
    BY <2>1, <1>a DEF RespondAsTold, OrderKept, Served
  <2> QED
    BY <1>0, <2>3, <2>4, <2>5, ReadsKeepBoards
<1>5. CASE RefuseResponse(q)
  <2>1. PICK outcome : /\ Finish(q, outcome) /\ call[q].kind = "respond"
                       /\ outcome \in {"forbidden", "notFound", "conflict"}
                       /\ outcome = "conflict" => HasResponded(By(q), call[q].on)
    BY <1>5 DEF RefuseResponse, Serving
  <2>3. call'[q].pc = "done" /\ call'[q].page = call[q].page /\ call'[q].outcome = outcome
    BY <2>1, <1>0, FinishMoves DEF Moved
  <2>4. \A x \in call'[q].page : OnBoard(q, x)'
    BY <2>1, <1>p, <2>3, <1>a, <1>0 DEF OnBoard, HomeOf, By, tables, RequestsKinds
  <2>5. RespondAsTold(q)' /\ OrderKept(q)'
    BY <2>1, <2>3, <1>a, <1>0 DEF RespondAsTold, OrderKept, Served, HasResponded, ResponsesTo, By, tables
  <2> QED
    BY <1>0, <2>3, <2>4, <2>5, ReadsKeepBoards
<1> QED
  BY <1>1, <1>2, <1>3, <1>4, <1>5 DEF GetRequest, ListResponses, Serving

\* A call that has only arrived has made no row yet, and one that tells has not told.
LEMMA NoRowYet ==
    ASSUME BoardRows, NEW q \in Calls, InProgress(q)
    PROVE  /\ q \notin DOMAIN notices /\ q \notin DOMAIN requests /\ q \notin DOMAIN answers
           /\ At(q, "arrived") => q \notin DOMAIN responses /\ q \notin DOMAIN questions
  BY DEF BoardRows, NoticeRows, RequestRows, ResponseRows, QuestionRows, AnswerRows, InProgress, At, Done

\* Tables that are left alone keep their type.
LEMMA TypesStay ==
    ASSUME BoardRows
    PROVE  /\ UNCHANGED notices => NoticesTypeOK'
           /\ UNCHANGED <<requests, responses>> => RequestsTypeOK'
           /\ UNCHANGED <<questions, answers>> => QuestionsTypeOK'
  BY DEF BoardRows, NoticesTypeOK, RequestsTypeOK, QuestionsTypeOK

\* Notify adds at most the notification of its call.
LEMMA NotifyAddsRow ==
    ASSUME BoardRows, NEW q \in Calls, q \notin DOMAIN notices, NEW to \in Users,
           NEW type \in {"request_response", "question_received"}, NEW about \in Ids,
           Notify(q, to, type, about)
    PROVE  /\ NoticesTypeOK' /\ DOMAIN notices' = DOMAIN notices \cup {q}
           /\ notices'[q].to = to /\ notices'[q].type = type /\ notices'[q].about = about
           /\ \A i \in DOMAIN notices : notices'[i] = notices[i]
<1> DEFINE row == [to |-> to, type |-> type, about |-> about, at |-> Cardinality(DOMAIN notices), read |-> FALSE]
<1>1. Cardinality(DOMAIN notices) \in Nat
  BY FiniteIds, RowIds, CallsAreIds
<1>2. row \in Notice /\ row.to = to /\ row.type = type /\ row.about = about
  BY <1>1 DEF Notice
<1>3. notices' = Put(notices, q, row)
  BY DEF Notify
<1> HIDE DEF row
<1>4. DOMAIN notices' = DOMAIN notices \cup {q} /\ notices'[q] = row
      /\ \A i \in DOMAIN notices : notices'[i] = notices[i]
  BY <1>3 DEF Put
<1> QED
  BY <1>2, <1>4 DEF NoticesTypeOK, BoardRows

\* The invariant is kept by a new request.
LEMMA PublishKeepsBoards ==
    ASSUME CallInv, Onward, BoardsInv, NEW q \in Calls, Publish(q), UNCHANGED <<questions, answers, scene>>
    PROVE  BoardsInv'
<1>0. CallTypeOK /\ Advance(q) /\ BoardRows /\ call[q].kind = "publish"
  BY RequestsAdvance DEF CallInv, RequestsStep, BoardsInv, Publish, Serving
<1>a. call'[q].kind = call[q].kind /\ call'[q].by = call[q].by /\ call'[q].on = call[q].on
  BY <1>0 DEF Advance, Moved
<1>b. call'[q].pc = "done" /\ call'[q].page = call[q].page
  BY <1>0, FinishMoves, CommitMoves DEF Publish, Moved
<1>p. \A x \in call'[q].page : OnBoard(q, x)'
  BY <1>0, <1>b DEF BoardsInv, BoardAsTold, BoardKinds, OnBoard, RequestsKinds
<1>t. RespondAsTold(q)' /\ OrderKept(q)'
  BY <1>0, <1>a DEF RespondAsTold, OrderKept, Served
<1>1. CASE UNCHANGED requests
  BY <1>0, <1>1, <1>b, <1>p, <1>t, ReadsKeepBoards DEF Publish, tables
<1>2. CASE ~ UNCHANGED requests
  <2> DEFINE row == [by |-> By(q), status |-> "open", at |-> Cardinality(DOMAIN requests)]
  <2>1. requests' = Put(requests, q, row) /\ UNCHANGED <<responses, notices>>
    BY <1>2 DEF Publish
  <2>2. row \in [by : Users, status : Statuses, at : Nat] /\ row.by = call[q].by
    <3>1. Cardinality(DOMAIN requests) \in Nat
      BY <1>0, FiniteIds, RowIds
    <3>2. call[q].by \in Users
      BY <1>0 DEF CallInv, Advance, InProgress
    <3> QED
      BY <3>1, <3>2 DEF Statuses, By
  <2> HIDE DEF row
  <2>3. /\ DOMAIN requests' = DOMAIN requests \cup {q} /\ requests'[q] = row
        /\ \A i \in DOMAIN requests : requests'[i] = requests[i]
    BY <1>0, <2>1, NoRowYet DEF Advance, Put
  <2>4. BoardsStay
    BY <2>1, <2>3, <1>0 DEF BoardsStay
  <2>5. RequestsTypeOK' /\ NoticesTypeOK' /\ QuestionsTypeOK'
    <3>1. DOMAIN requests' \subseteq Ids
      BY <1>0, <2>3, CallsAreIds DEF BoardRows, RequestsTypeOK
    <3>2. \A i \in DOMAIN requests' : requests'[i] \in [by : Users, status : Statuses, at : Nat]
      BY <1>0, <2>2, <2>3 DEF BoardRows, RequestsTypeOK
    <3>3. \A i \in DOMAIN responses : responses[i] \in [to : DOMAIN requests', by : Users]
      BY <1>0, <2>3 DEF BoardRows, RequestsTypeOK
    <3> QED
      BY <1>0, <2>1, <3>1, <3>2, <3>3, TypesStay DEF BoardRows, RequestsTypeOK
  <2>6. RowOf(q)
    BY <1>0, <1>a, <1>b, <2>1, <2>2, <2>3, ServesOne DEF RowOf
  <2>7. BoardAsTold(q)'
    BY <1>b, <1>p, <1>t DEF BoardAsTold, ServingAt, At
  <2> QED
    BY <1>0, <2>4, <2>5, <2>6, <2>7, BoardStepOf
<1> QED
  BY <1>1, <1>2

\* It is kept by a change of the status of a request.
LEMMA UpdateStatusKeepsBoards ==
    ASSUME CallInv, Onward, BoardsInv, NEW q \in Calls, UpdateStatus(q), UNCHANGED <<questions, answers, scene>>
    PROVE  BoardsInv'
<1>0. CallTypeOK /\ Advance(q) /\ BoardRows /\ call[q].kind = "setStatus"
  BY RequestsAdvance DEF CallInv, RequestsStep, BoardsInv, UpdateStatus, Serving
<1>a. call'[q].kind = call[q].kind /\ call'[q].by = call[q].by /\ call'[q].on = call[q].on
  BY <1>0 DEF Advance, Moved
<1>b. call'[q].pc = "done" /\ call'[q].page = call[q].page
  BY <1>0, FinishMoves, CommitMoves DEF UpdateStatus, Moved
<1>p. \A x \in call'[q].page : OnBoard(q, x)'
  BY <1>0, <1>b DEF BoardsInv, BoardAsTold, BoardKinds, OnBoard, RequestsKinds
<1>t. RespondAsTold(q)' /\ OrderKept(q)'
  BY <1>0, <1>a DEF RespondAsTold, OrderKept, Served
<1>1. CASE UNCHANGED requests
  BY <1>0, <1>1, <1>b, <1>p, <1>t, ReadsKeepBoards DEF UpdateStatus, tables
<1>2. CASE ~ UNCHANGED requests
  <2>1. PICK r, s : r = call[q].on /\ s = call[q].arg
    OBVIOUS
  <2>2. /\ RequestHere(q) /\ requests' = [requests EXCEPT ![r].status = s] /\ s \in Statuses
        /\ UNCHANGED <<responses, notices>>
    BY <1>2, <2>1 DEF UpdateStatus
  <2>3. s \in Statuses
    BY <2>2
  <2>4. /\ DOMAIN requests' = DOMAIN requests
        /\ \A i \in DOMAIN requests : /\ requests'[i].by = requests[i].by
                                      /\ requests'[i] \in [by : Users, status : Statuses, at : Nat]
    BY <1>0, <2>2, <2>3 DEF BoardRows, RequestsTypeOK
  <2>5. BoardsStay
    BY <2>2, <2>4 DEF BoardsStay
  <2>6. RequestsTypeOK' /\ NoticesTypeOK' /\ QuestionsTypeOK'
    BY <1>0, <2>2, <2>4, TypesStay DEF BoardRows, RequestsTypeOK
  <2>7. RowOf(q)
    BY <1>0, <1>b, <2>2, <2>4, ServesOne DEF RowOf
  <2>8. BoardAsTold(q)'
    BY <1>b, <1>p, <1>t DEF BoardAsTold, ServingAt, At
  <2> QED
    BY <1>0, <2>5, <2>6, <2>7, <2>8, BoardStepOf
<1> QED
  BY <1>1, <1>2

\* It is kept by a response, the one that comes second included.
LEMMA RespondKeepsBoards ==
    ASSUME CallInv, Onward, BoardsInv, NEW q \in Calls, Respond(q), UNCHANGED <<questions, answers, scene>>
    PROVE  BoardsInv'
<1>0. CallTypeOK /\ Advance(q) /\ BoardRows /\ call[q].kind = "respond" /\ At(q, "arrived")
  BY RequestsAdvance DEF CallInv, RequestsStep, BoardsInv, Respond, Serving
<1>a. call'[q].kind = call[q].kind /\ call'[q].by = call[q].by /\ call'[q].on = call[q].on
  BY <1>0 DEF Advance, Moved
<1>b. /\ call'[q].pc \in {"telling", "done"} /\ call'[q].page = call[q].page
      /\ call'[q].pc = "done" => call'[q].outcome = "error"
  BY <1>0, FinishMoves, GotoMoves DEF Respond, Moved
<1>p. \A x \in call'[q].page : OnBoard(q, x)'
  BY <1>0, <1>b DEF BoardsInv, BoardAsTold, BoardKinds, OnBoard, RequestsKinds
<1>t. RespondAsTold(q)' /\ OrderKept(q)'
  BY <1>0, <1>a, <1>b DEF RespondAsTold, OrderKept, Served, Done, At
<1>1. PICK row : row = [to |-> call[q].on, by |-> By(q)]
  OBVIOUS
<1>2. responses' = Put(responses, q, row) /\ UNCHANGED <<requests, notices>>
  BY <1>1 DEF Respond
<1>3. /\ row \in [to : DOMAIN requests, by : Users] /\ row.to = call[q].on /\ row.by = call[q].by
      /\ Home[row.by] = Home[requests[row.to].by]
  BY <1>0, <1>1 DEF CallInv, Advance, InProgress, By, Respond, RequestHere, HomeOf
<1>4. \A j \in DOMAIN responses : responses[j] # row
  BY <1>1 DEF Respond, HasResponded, ResponsesTo
<1>5. /\ DOMAIN responses' = DOMAIN responses \cup {q} /\ responses'[q] = row
      /\ \A i \in DOMAIN responses : responses'[i] = responses[i]
  BY <1>0, <1>2, NoRowYet DEF Advance, Put
<1>6. BoardsStay
  BY <1>2, <1>5 DEF BoardsStay
<1>7. RequestsTypeOK' /\ NoticesTypeOK' /\ QuestionsTypeOK'
  BY <1>0, <1>2, <1>3, <1>5, TypesStay DEF BoardRows, RequestsTypeOK
<1>8. RowOf(q)
  BY <1>0, <1>a, <1>b, <1>2, <1>3, <1>4, <1>5, ServesOne DEF RowOf
<1>9. BoardAsTold(q)'
  BY <1>0, <1>a, <1>5, <1>p, <1>t DEF BoardAsTold, ServingAt, At
<1> QED
  BY <1>0, <1>6, <1>7, <1>8, <1>9, BoardStepOf

\* It is kept by telling who made the request.
LEMMA TellRequesterKeepsBoards ==
    ASSUME CallInv, Onward, BoardsInv, NEW q \in Calls, TellRequester(q), UNCHANGED <<questions, answers, scene>>
    PROVE  BoardsInv'
<1>0. CallTypeOK /\ Advance(q) /\ BoardRows /\ call[q].kind = "respond" /\ q \in DOMAIN responses
  BY RequestsAdvance DEF CallInv, RequestsStep, BoardsInv, BoardAsTold, TellRequester, ServingAt
<1>a. call'[q].kind = call[q].kind /\ call'[q].by = call[q].by /\ call'[q].on = call[q].on
  BY <1>0 DEF Advance, Moved
<1>b. call'[q].pc = "done" /\ call'[q].page = call[q].page /\ call'[q].outcome = "ok"
  BY <1>0, FinishMoves DEF TellRequester, NotifyOrNot, Moved
<1>p. \A x \in call'[q].page : OnBoard(q, x)'
  BY <1>0, <1>b DEF BoardsInv, BoardAsTold, BoardKinds, OnBoard, RequestsKinds
<1>r. responses[q].by = call[q].by /\ responses[q].to = call[q].on /\ call[q].on \in DOMAIN requests
      /\ requests[call[q].on].by \in Users /\ Home[call[q].by] = Home[requests[call[q].on].by]
  BY <1>0, RowIds DEF BoardRows, ResponseRows
<1>u. UNCHANGED <<requests, responses>>
  BY DEF TellRequester
<1>t. RespondAsTold(q)' /\ OrderKept(q)'
  BY <1>0, <1>a, <1>b, <1>r, <1>u DEF RespondAsTold, OrderKept, Served, ResponsesTo, By
<1>1. CASE UNCHANGED notices
  BY <1>0, <1>1, <1>b, <1>p, <1>t, <1>u, ReadsKeepBoards DEF tables
<1>2. CASE ~ UNCHANGED notices
  <2>1. PICK r, to : r = call[q].on /\ to = requests[r].by
    OBVIOUS
  <2>2. Notify(q, to, "request_response", r)
    BY <1>2, <2>1 DEF TellRequester, NotifyOrNot, Notify, Requester
  <2>3. r \in Ids /\ to \in Users /\ q \notin DOMAIN notices
    BY <2>1, <1>r, <1>0, RowIds, NoRowYet DEF Advance
  <2>4. /\ NoticesTypeOK' /\ DOMAIN notices' = DOMAIN notices \cup {q}
        /\ notices'[q].to = to /\ notices'[q].type = "request_response" /\ notices'[q].about = r
        /\ \A i \in DOMAIN notices : notices'[i] = notices[i]
    BY <1>0, <2>2, <2>3, NotifyAddsRow
  <2>5. BoardsStay
    BY <2>4, <1>u DEF BoardsStay
  <2>6. RequestsTypeOK' /\ QuestionsTypeOK'
    BY <1>0, <1>u, TypesStay
  <2>7. RowOf(q)
    BY <1>0, <1>a, <1>b, <1>r, <1>u, <2>1, <2>4, ServesOne DEF RowOf
  <2>8. BoardAsTold(q)'
    BY <1>b, <1>p, <1>t DEF BoardAsTold, ServingAt, At
  <2> QED
    BY <1>0, <2>4, <2>5, <2>6, <2>7, <2>8, BoardStepOf
<1> QED
  BY <1>1, <1>2

\* It is kept by a question.
LEMMA AskKeepsBoards ==
    ASSUME CallInv, Onward, BoardsInv, NEW q \in Calls, Ask(q), UNCHANGED <<requests, responses, scene>>
    PROVE  BoardsInv'
<1>0. CallTypeOK /\ Advance(q) /\ BoardRows /\ call[q].kind = "ask" /\ At(q, "arrived")
  BY QuestionsAdvance DEF CallInv, QuestionsStep, BoardsInv, Ask, Serving
<1>a. call'[q].kind = call[q].kind /\ call'[q].by = call[q].by /\ call'[q].on = call[q].on
  BY <1>0 DEF Advance, Moved
<1>b. call'[q].pc \in {"telling", "done"} /\ call'[q].page = call[q].page
  BY <1>0, FinishMoves, GotoMoves DEF Ask, Moved
<1>p. \A x \in call'[q].page : OnBoard(q, x)'
  BY <1>0, <1>b DEF BoardsInv, BoardAsTold, BoardKinds, OnBoard, QuestionsKinds
<1>t. RespondAsTold(q)' /\ OrderKept(q)'
  BY <1>0, <1>a DEF RespondAsTold, OrderKept, Served
<1>1. CASE UNCHANGED questions
  <2>1. call'[q].pc = "done"
    <3>1. ~ \E row : questions' = Put(questions, q, row)
      BY <1>0, <1>1, NoRowYet DEF Put, Advance
    <3> QED
      BY <1>0, <3>1, FinishMoves DEF Ask, Moved
  <2> QED
    BY <1>0, <1>1, <1>p, <1>t, <2>1, ReadsKeepBoards DEF Ask, tables
<1>2. CASE ~ UNCHANGED questions
  <2>1. PICK row : row = [by |-> By(q), to |-> call[q].on]
    OBVIOUS
  <2>2. questions' = Put(questions, q, row) /\ ProviderHere(call[q].on, q) /\ UNCHANGED <<answers, notices>>
    BY <1>2, <2>1 DEF Ask
  <2>3. /\ row \in [by : Users, to : Users] /\ row.by = call[q].by /\ row.to = call[q].on
        /\ Home[row.by] = Home[row.to]
    BY <1>0, <2>1, <2>2 DEF CallInv, Advance, InProgress, By, ProviderHere, HomeOf
  <2>4. /\ DOMAIN questions' = DOMAIN questions \cup {q} /\ questions'[q] = row
        /\ \A i \in DOMAIN questions : questions'[i] = questions[i]
    BY <1>0, <2>2, NoRowYet DEF Advance, Put
  <2>5. BoardsStay
    BY <2>2, <2>4 DEF BoardsStay
  <2>6. RequestsTypeOK' /\ NoticesTypeOK' /\ QuestionsTypeOK'
    BY <1>0, <2>2, <2>3, <2>4, TypesStay, CallsAreIds DEF BoardRows, QuestionsTypeOK
  <2>7. RowOf(q)
    BY <1>0, <1>a, <1>b, <2>2, <2>3, <2>4, ServesOne DEF RowOf
  <2>8. BoardAsTold(q)'
    BY <1>0, <1>a, <2>4, <1>p, <1>t DEF BoardAsTold, ServingAt, At
  <2> QED
    BY <1>0, <2>5, <2>6, <2>7, <2>8, BoardStepOf
<1> QED
  BY <1>1, <1>2

\* It is kept by telling the provider of the question.
LEMMA TellProviderKeepsBoards ==
    ASSUME CallInv, Onward, BoardsInv, NEW q \in Calls, TellProvider(q), UNCHANGED <<requests, responses, scene>>
    PROVE  BoardsInv'
<1>0. CallTypeOK /\ Advance(q) /\ BoardRows /\ call[q].kind = "ask" /\ q \in DOMAIN questions
  BY QuestionsAdvance DEF CallInv, QuestionsStep, BoardsInv, BoardAsTold, TellProvider, ServingAt
<1>a. call'[q].kind = call[q].kind /\ call'[q].by = call[q].by /\ call'[q].on = call[q].on
  BY <1>0 DEF Advance, Moved
<1>b. call'[q].pc = "done" /\ call'[q].page = call[q].page
  BY <1>0, FinishMoves DEF TellProvider, NotifyOrNot, Moved
<1>p. \A x \in call'[q].page : OnBoard(q, x)'
  BY <1>0, <1>b DEF BoardsInv, BoardAsTold, BoardKinds, OnBoard, QuestionsKinds
<1>t. RespondAsTold(q)' /\ OrderKept(q)'
  BY <1>0, <1>a DEF RespondAsTold, OrderKept, Served
<1>1. CASE UNCHANGED notices
  BY <1>0, <1>1, <1>b, <1>p, <1>t, ReadsKeepBoards DEF tables, TellProvider
<1>2. CASE ~ UNCHANGED notices
  <2>1. PICK to : to = call[q].on
    OBVIOUS
  <2>2. Notify(q, to, "question_received", q)
    BY <1>2, <2>1 DEF TellProvider, NotifyOrNot
  <2>3. q \in Ids /\ to \in Users /\ q \notin DOMAIN notices /\ Home[call[q].by] = Home[to]
    BY <2>1, <1>0, RowIds, NoRowYet, CallsAreIds DEF Advance, BoardRows, QuestionRows
  <2>4. /\ NoticesTypeOK' /\ DOMAIN notices' = DOMAIN notices \cup {q}
        /\ notices'[q].to = to /\ notices'[q].type = "question_received"
        /\ \A i \in DOMAIN notices : notices'[i] = notices[i]
    BY <1>0, <2>2, <2>3, NotifyAddsRow
  <2>5. UNCHANGED <<questions, answers>>
    BY DEF TellProvider
  <2>6. BoardsStay /\ RequestsTypeOK' /\ QuestionsTypeOK'
    BY <1>0, <2>4, <2>5, TypesStay DEF BoardsStay
  <2>7. RowOf(q)
    BY <1>0, <1>a, <1>b, <2>3, <2>4, <2>5, ServesOne DEF RowOf
  <2>8. BoardAsTold(q)'
    BY <1>b, <1>p, <1>t DEF BoardAsTold, ServingAt, At
  <2> QED
    BY <1>0, <2>4, <2>6, <2>7, <2>8, BoardStepOf
<1> QED
  BY <1>1, <1>2

\* It is kept by an answer.
LEMMA AnswerKeepsBoards ==
    ASSUME CallInv, Onward, BoardsInv, NEW q \in Calls, Answer(q), UNCHANGED <<requests, responses, scene>>
    PROVE  BoardsInv'
<1>0. CallTypeOK /\ Advance(q) /\ BoardRows /\ call[q].kind = "answer"
  BY QuestionsAdvance DEF CallInv, QuestionsStep, BoardsInv, Answer, Serving
<1>a. call'[q].kind = call[q].kind /\ call'[q].by = call[q].by /\ call'[q].on = call[q].on
  BY <1>0 DEF Advance, Moved
<1>b. call'[q].pc = "done" /\ call'[q].page = call[q].page
  BY <1>0, FinishMoves, CommitMoves DEF Answer, Moved
<1>p. \A x \in call'[q].page : OnBoard(q, x)'
  BY <1>0, <1>b DEF BoardsInv, BoardAsTold, BoardKinds, OnBoard, QuestionsKinds
<1>t. RespondAsTold(q)' /\ OrderKept(q)'
  BY <1>0, <1>a DEF RespondAsTold, OrderKept, Served
<1>8. BoardAsTold(q)'
  BY <1>b, <1>p, <1>t DEF BoardAsTold, ServingAt, At
<1>1. CASE UNCHANGED answers
  BY <1>0, <1>1, <1>b, <1>p, <1>t, ReadsKeepBoards DEF tables, Answer
<1>2. CASE ~ UNCHANGED answers
  <2>1. PICK row : row = [by |-> By(q), to |-> call[q].on]
    OBVIOUS
  <2>2. /\ answers' = Put(answers, q, row) /\ UNCHANGED <<questions, notices>>
        /\ call[q].on \in DOMAIN questions /\ Home[questions[call[q].on].by] = HomeOf(q)
    BY <1>2, <2>1 DEF Answer
  <2>3. /\ row \in [by : Users, to : DOMAIN questions] /\ row.by = call[q].by
        /\ Home[row.by] = Home[questions[row.to].by]
    BY <1>0, <2>1, <2>2 DEF CallInv, Advance, InProgress, By, HomeOf
  <2>4. /\ DOMAIN answers' = DOMAIN answers \cup {q} /\ answers'[q] = row
        /\ \A i \in DOMAIN answers : answers'[i] = answers[i]
    BY <1>0, <2>2, NoRowYet DEF Advance, Put
  <2>5. BoardsStay
    BY <1>0, <2>2, <2>4 DEF BoardsStay, Advance, InProgress, Done, At
  <2>6. RequestsTypeOK' /\ NoticesTypeOK' /\ QuestionsTypeOK'
    BY <1>0, <2>2, <2>3, <2>4, TypesStay DEF BoardRows, QuestionsTypeOK
  <2>7. RowOf(q)
    BY <1>0, <1>a, <1>b, <2>2, <2>3, <2>4, ServesOne DEF RowOf
  <2> QED
    BY <1>0, <1>8, <2>5, <2>6, <2>7, BoardStepOf
<1> QED
  BY <1>1, <1>2

\* It is kept by the first read of a page of questions.
LEMMA ReadQuestionsKeepsBoards ==
    ASSUME CallInv, Onward, BoardsInv, NEW q \in Calls, ReadQuestions(q), UNCHANGED <<requests, responses, scene>>
    PROVE  BoardsInv'
<1>0. CallTypeOK /\ Advance(q) /\ BoardRows /\ call[q].kind = "questions" /\ UNCHANGED tables
  BY QuestionsAdvance DEF CallInv, QuestionsStep, ListQuestions, BoardsInv, ReadQuestions, Serving, tables
<1>a. call'[q].kind = call[q].kind /\ call'[q].by = call[q].by /\ call'[q].on = call[q].on
  BY <1>0 DEF Advance, Moved
<1>1. PICK found : found = QuestionsTo(call[q].on, q)
  OBVIOUS
<1>2. /\ call'[q].page = found
      /\ \/ call'[q].pc = "done" /\ found = {}
         \/ call'[q].pc = "answers"
  BY <1>0, <1>1, ShowMoves, KeepMoves DEF ReadQuestions, Moved
<1>3. \A x \in found : x \in DOMAIN questions /\ Home[questions[x].by] = HomeOf(q)
  BY <1>0, <1>1 DEF QuestionsTo, BoardRows, QuestionRows
<1>4. \A x \in call'[q].page : OnBoard(q, x)'
  BY <1>0, <1>a, <1>2, <1>3 DEF OnBoard, HomeOf, By, tables
<1>5. RespondAsTold(q)' /\ OrderKept(q)'
  BY <1>0, <1>a, <1>2 DEF RespondAsTold, OrderKept, Served, Done, At
<1> QED
  BY <1>0, <1>2, <1>4, <1>5, ReadsKeepBoards

\* It is kept by the second, that finds the answers to what the first found.
LEMMA ReadAnswersKeepsBoards ==
    ASSUME CallInv, Onward, BoardsInv, NEW q \in Calls, ReadAnswers(q), UNCHANGED <<requests, responses, scene>>
    PROVE  BoardsInv'
<1>0. CallTypeOK /\ Advance(q) /\ BoardRows /\ ServingAt(q, "questions", "answers") /\ UNCHANGED tables
  BY QuestionsAdvance DEF CallInv, QuestionsStep, ListQuestions, BoardsInv, ReadAnswers, tables
<1>a. call'[q].kind = call[q].kind /\ call'[q].by = call[q].by /\ call'[q].on = call[q].on
  BY <1>0 DEF Advance, Moved
<1>1. PICK asked, given : asked = call[q].page /\ given = {i \in DOMAIN answers : answers[i].to \in call[q].page}
  OBVIOUS
<1>2. call'[q].page = asked \cup given /\ call'[q].pc = "done"
  BY <1>0, <1>1, ShowMoves DEF ReadAnswers, Moved
<1>3. \A x \in asked : x \in DOMAIN questions /\ Home[questions[x].by] = HomeOf(q)
  BY <1>0, <1>1 DEF BoardsInv, BoardAsTold, BoardKinds, QuestionsKinds, OnBoard, ServingAt
<1>4. \A x \in given : x \in DOMAIN answers /\ answers[x].to \in asked /\ Home[answers[x].by] = HomeOf(q)
  BY <1>0, <1>1, <1>3 DEF BoardRows, AnswerRows
<1>5. \A x \in call'[q].page : OnBoard(q, x)'
  BY <1>0, <1>a, <1>2, <1>3, <1>4 DEF OnBoard, HomeOf, By, tables, ServingAt, At
<1>6. OrderKept(q)'
  <2>1. ASSUME NEW j \in DOMAIN answers, answers[j].to \in asked \cup given PROVE j \in given
    <3>1. answers[j].to \in DOMAIN questions
      BY <1>0, RowIds
    <3>2. answers[j].to \notin DOMAIN answers
      <4>1. PICK x : x = answers[j].to
        OBVIOUS
      <4>2. x \in DOMAIN answers => x \in Calls /\ call[x].kind = "answer"
        BY <1>0, RowIds DEF BoardRows, AnswerRows
      <4>3. x \in Calls => call[x].kind = "ask"
        BY <1>0, <3>1, <4>1 DEF BoardRows, QuestionRows
      <4> QED
        BY <4>1, <4>2, <4>3
    <3> QED
      BY <1>1, <1>4, <2>1, <3>2
  <2> QED
    BY <1>0, <1>2, <2>1 DEF OrderKept, tables
<1>7. RespondAsTold(q)'
  BY <1>0, <1>a DEF RespondAsTold, ServingAt
<1> QED
  BY <1>0, <1>2, <1>5, <1>6, <1>7, ReadsKeepBoards

\* The invariant of the boards is kept by every step of the composition.
LEMMA BoardsInvStep ==
    ASSUME CallInv, BoardsInv, [Next]_vars PROVE BoardsInv'
<1>0. Onward
  BY StepIsOnward
<1>1. ASSUME NEW q \in Calls, NoticesStep(q), UNCHANGED <<requests, responses, questions, answers>>
      PROVE  BoardsInv'
  BY <1>0, <1>1, NoticesKeepBoards
<1>2. ASSUME NEW q \in Calls, RequestsStep(q), UNCHANGED <<questions, answers>>
      PROVE  BoardsInv'
  BY <1>0, <1>2, RequestReadsKeepBoards, PublishKeepsBoards, UpdateStatusKeepsBoards, RespondKeepsBoards,
     TellRequesterKeepsBoards DEF RequestsStep
<1>3. ASSUME NEW q \in Calls, QuestionsStep(q), UNCHANGED <<requests, responses>>
      PROVE  BoardsInv'
  BY <1>0, <1>3, AskKeepsBoards, TellProviderKeepsBoards, AnswerKeepsBoards, ReadQuestionsKeepsBoards,
     ReadAnswersKeepsBoards DEF QuestionsStep, ListQuestions
<1>4. CASE Elsewhere(BoardKinds) /\ UNCHANGED tables
  <2>1. BoardsStay /\ NoticesTypeOK' /\ RequestsTypeOK' /\ QuestionsTypeOK'
    BY <1>4 DEF BoardsStay, tables, BoardsInv, BoardRows, NoticesTypeOK, RequestsTypeOK, QuestionsTypeOK
  <2>2. ASSUME NEW p \in Calls PROVE BoardAsTold(p)'
    <3>1. CASE Untouched(p)
      BY <1>0, <2>1, <3>1, BoardStaysTold
    <3>2. CASE Failed(p)
      <4>1. /\ ~ServingAt(p, "respond", "telling")' /\ ~ServingAt(p, "ask", "telling")'
            /\ OrderKept(p)'
        BY <3>2 DEF Failed, ServingAt, At, OrderKept, Served
      <4>2. RespondAsTold(p)'
        BY <3>2 DEF Failed, RespondAsTold
      <4>3. (call[p].kind \in BoardKinds => \A x \in call[p].page : OnBoard(p, x))'
        <5>1. call'[p].kind = call[p].kind /\ call'[p].page = call[p].page /\ call'[p].by = call[p].by
              /\ call'[p].pc = "done"
          BY <3>2 DEF Failed
        <5>2. \A x : OnBoard(p, x) => OnBoard(p, x)'
          BY <1>4, <5>1 DEF OnBoard, HomeOf, By, At, tables
        <5> QED
          BY <5>1, <5>2 DEF BoardsInv, BoardAsTold
      <4> QED
        BY <4>1, <4>2, <4>3 DEF BoardAsTold
    <3>3. CASE Begun(p)
      BY <3>3 DEF Begun, BoardAsTold, ServingAt, At, RespondAsTold, OrderKept, Done
    <3>4. CASE call'[p].kind \notin BoardKinds
      BY <3>4 DEF BoardAsTold, ServingAt, RespondAsTold, OrderKept, Served, BoardKinds, RequestsKinds, QuestionsKinds
    <3> QED
      BY <1>4, <3>1, <3>2, <3>3, <3>4, OthersOf DEF CallInv
  <2>3. RowOf(0)
    <3>1. ASSUME NEW p \in Calls, call[p].kind \in {"ask", "respond"}, call[p].pc \in {"telling", "done"}
          PROVE  call'[p].pc \in {"telling", "done"}
      BY <1>0, <1>4, <3>1, OthersStay
      DEF CallInv, Fails, Moved, Arrived, At, BoardKinds, RequestsKinds, QuestionsKinds
    <3> QED
      BY <1>4, <3>1 DEF RowOf, tables
  <2>4. BoardRows'
    BY <1>0, <2>1, <2>3, BoardRowsStep
  <2> QED
    BY <2>2, <2>4 DEF BoardsInv
<1> QED
  BY <1>1, <1>2, <1>3, <1>4, BoardsAlone DEF tables

\* It is true at first.
LEMMA BoardsInvInit == Init => BoardsInv
<1> SUFFICES ASSUME Init PROVE BoardsInv
  OBVIOUS
<1>1. NoticesInit /\ RequestsInit /\ QuestionsInit
  BY DEF Init
<1>2. /\ \A q \in Calls : /\ call[q].kind = "none" /\ call[q].pc = "new" /\ call[q].outcome = "none"
                           /\ call[q].page = {}
      /\ 0 \notin Calls /\ 0 \in Ids
  BY NoCallsYet
<1>3. BoardRows
  BY <1>1, <1>2, RequestsAssumption, QuestionsAssumption
  DEF BoardRows, NoticesInit, RequestsInit, QuestionsInit, NoticesTypeOK, RequestsTypeOK, QuestionsTypeOK,
      RequestRows, ResponseRows, QuestionRows, AnswerRows, NoticeRows, Statuses
<1>4. \A q \in Calls : BoardAsTold(q)
  BY <1>2 DEF BoardAsTold, ServingAt, RespondAsTold, OrderKept, Served
<1> QED
  BY <1>3, <1>4 DEF BoardsInv

\* A provider has one response to a request, whoever else responds at the same time;
\* who made the request is told of it at most once, and who responded gets an answer
\* that is true (handler/request.go:239-263, the UNIQUE of service_responses).
THEOREM RespondedOnceAlways == Spec => []RespondedOnce
<1>1. ASSUME CallInv, BoardsInv PROVE RespondedOnce
  <2>0. BoardRows
    BY <1>1 DEF BoardsInv
  <2>1. \A q \in Calls : RespondAsTold(q)
    BY <1>1 DEF BoardsInv, BoardAsTold
  <2>2. \A i, j \in DOMAIN responses : responses[i] = responses[j] => i = j
    BY <2>0 DEF BoardRows, ResponseRows
  <2> DEFINE told == {i \in DOMAIN notices : notices[i].type = "request_response"}
  <2>3. \A i \in told : /\ notices[i].to = requests[notices[i].about].by
                        /\ i \in DOMAIN responses /\ responses[i].to = notices[i].about
    BY <2>0 DEF BoardRows, NoticeRows
  <2>4. ASSUME NEW r \in DOMAIN requests
        PROVE  Cardinality({i \in told : notices[i].about = r}) <= Cardinality(ResponsesTo(r))
    <3>1. {i \in told : notices[i].about = r} \subseteq ResponsesTo(r)
      BY <2>3 DEF ResponsesTo
    <3>2. IsFiniteSet(ResponsesTo(r))
      BY <2>0, FiniteIds, RowIds, CallsAreIds DEF ResponsesTo
    <3> QED
      BY <3>1, <3>2, FS_Subset
  <2> QED
    BY <2>1, <2>2, <2>3, <2>4 DEF RespondedOnce, RespondAsTold
<1> QED
  BY <1>1, CallInvInit, CallInvStep, BoardsInvInit, BoardsInvStep, PTL DEF Spec

\* A page of questions that shows a question or an answer shows every answer to its
\* questions that had been given before, although two statements read them
\* (handler/question.go:75-120).
THEOREM PagesKeepOrder == Spec => []PageKeepsOrder
<1>1. ASSUME BoardsInv PROVE PageKeepsOrder
  BY <1>1 DEF BoardsInv, BoardAsTold, OrderKept, PageKeepsOrder
<1> QED
  BY <1>1, CallInvInit, CallInvStep, BoardsInvInit, BoardsInvStep, PTL DEF Spec
=============================================================================
