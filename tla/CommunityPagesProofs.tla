------------------------ MODULE CommunityPagesProofs ------------------------
(***************************************************************************)
(* The rest of the composition: accounts, what providers save, the pages   *)
(* that show it, visits and favorites.  A page is read by several          *)
(* statements while others write, so its invariant rests on those of the   *)
(* accounts and of the saves.  CommunityInv puts every part together: from *)
(* it follow the types, that communities stay apart, that somebody can     *)
(* always go on, and what is left to do after a call's own statement.      *)
(***************************************************************************)
EXTENDS CommunityProofs

-----------------------------------------------------------------------------
(* Accounts.                                                               *)

\* The accounts are written by the accounts alone.
LEMMA AccountsAlone ==
    ASSUME CallInv, [Next]_vars
    PROVE  \/ \E q \in Calls : AccountsStep(q)
           \/ Elsewhere(AccountsKinds) /\ UNCHANGED accounts
  BY StepIsOneOf, StepsAdvance
  DEF StepCases, Elsewhere, CallInv, AllKinds, BulletinKinds, NoticesKinds, RequestsKinds, QuestionsKinds,
      AccountsKinds, PageKinds, TalkKinds, ResetKinds, boards, rows, Record, ProviderPageStep,
      ConversationsStep

\* r deleted the account of u, and was answered that it did.
DeletionOf(r, u) ==
    \/ Served(r, "leave") /\ By(r) = u
    \/ Served(r, "remove") /\ call[r].on = u

\* u has not asked to come back since r was answered.
NotBackSince(r, u) ==
    \A b \in Calls : (call[b].kind = "comeBack" /\ By(b) = u) => b \in call[r].after

\* What the list of an admin has shown: users of the community, and nobody who was
\* deleted before.
UsersAsTold(q) ==
    call[q].kind \in AccountsKinds => \A u \in call[q].page :
        /\ call[q].kind = "users" /\ Here(q, u)
        /\ call[q].arg # "deleted" => ~GoneBefore(u, q)

\* The invariant of the accounts.
AccountsInv ==
    /\ AccountsTypeOK
    /\ \A u \in Users : Deleted(u) => Home[u] = Home[accounts[u].deletedBy]
    /\ \A r \in Calls, u \in Users : DeletionOf(r, u) /\ NotBackSince(r, u) => Deleted(u)
    /\ \A q \in Calls : UsersAsTold(q)

\* Who was deleted before a call began, and has not come back since, is deleted.
LEMMA GoneAreDeleted ==
    ASSUME CallInv, AccountsInv, NEW q \in Calls, NEW u \in Users, GoneBefore(u, q)
    PROVE  Deleted(u)
<1>1. PICK r \in call[q].after : DeletionOf(r, u) /\ NotBackSince(r, u)
  BY DEF GoneBefore, DeletionOf, NotBackSince
<1>2. r \in Calls
  BY AfterIsDone
<1> QED
  BY <1>1, <1>2 DEF AccountsInv

\* What is true of deletions and of those who come back does not become true later.
LEMMA NotBackShrinks ==
    ASSUME CallInv, Onward, NEW r \in Calls, Done(r), NEW u, NotBackSince(r, u)'
    PROVE  NotBackSince(r, u)
<1>1. call'[r] = call[r]
  BY DEF Onward, Done, At
<1>2. ASSUME NEW b \in Calls, call[b].kind = "comeBack", By(b) = u PROVE b \in call[r].after
  <2>1. ~At(b, "new")
    BY <1>2 DEF CallInv, At, NewCall
  <2>2. call'[b].kind = "comeBack" /\ call'[b].by = u
    BY <1>2, <2>1 DEF Onward, By
  <2> QED
    BY <1>1, <2>2 DEF NotBackSince, By
<1> QED
  BY <1>2 DEF NotBackSince

\* Who counts as deleted before a call began did when it began.
LEMMA GoneShrinks ==
    ASSUME CallInv, Onward, NEW q \in Calls, ~At(q, "new"), NEW u, GoneBefore(u, q)'
    PROVE  GoneBefore(u, q)
<1>1. call'[q].after = call[q].after
  BY DEF Onward
<1>2. PICK r \in call[q].after : (DeletionOf(r, u) /\ NotBackSince(r, u))'
  BY <1>1 DEF GoneBefore, DeletionOf, NotBackSince
<1>3. r \in Calls /\ Done(r)
  BY AfterIsDone
<1>4. call'[r] = call[r]
  BY <1>3 DEF Onward, Done, At
<1>5. DeletionOf(r, u)
  BY <1>2, <1>4 DEF DeletionOf, Served, Done, At, By
<1>6. NotBackSince(r, u)
  BY <1>2, <1>3, NotBackShrinks
<1> QED
  BY <1>5, <1>6 DEF GoneBefore, DeletionOf, NotBackSince

\* A list of users that is left alone stays true.
LEMMA UsersStay ==
    ASSUME CallInv, Onward, NEW q \in Calls, ~At(q, "new"), UsersAsTold(q), call'[q].page = call[q].page
    PROVE  UsersAsTold(q)'
<1>1. call'[q].kind = call[q].kind /\ call'[q].by = call[q].by /\ call'[q].arg = call[q].arg
  BY DEF Onward
<1>2. ASSUME NEW u \in call[q].page, call[q].kind \in AccountsKinds
      PROVE  call[q].kind = "users" /\ Here(q, u)' /\ (call[q].arg # "deleted" => ~GoneBefore(u, q)')
  BY <1>1, <1>2, GoneShrinks DEF UsersAsTold, Here, HomeOf, By
<1> QED
  BY <1>1, <1>2 DEF UsersAsTold

\* A step of q that does not undo a deletion of before.
LEMMA AccountsStepOf ==
    ASSUME CallInv, Onward, AccountsInv, NEW q \in Calls, Advance(q), AccountsTypeOK',
           \A u \in Users : Deleted(u)' => Home[u] = Home[accounts'[u].deletedBy],
           \A u \in Users : Deleted(u) => Deleted(u)' \/ (call[q].kind = "comeBack" /\ By(q) = u),
           \A u \in Users : DeletionOf(q, u)' => Deleted(u)',
           UsersAsTold(q)'
    PROVE  AccountsInv'
<1>1. ASSUME NEW p \in Calls PROVE UsersAsTold(p)'
  <2>1. CASE At(p, "new") /\ p # q
    BY <2>1, ServesOne DEF CallInv, At, NewCall, UsersAsTold, AccountsKinds
  <2> QED
    BY <2>1, ServesOne, UsersStay DEF AccountsInv
<1>2. ASSUME NEW r \in Calls, NEW u \in Users, (DeletionOf(r, u) /\ NotBackSince(r, u))'
      PROVE  Deleted(u)'
  <2>1. CASE r = q
    BY <1>2, <2>1
  <2>2. CASE r # q
    <3>1. call'[r] = call[r]
      BY <2>2, ServesOne
    <3>2. DeletionOf(r, u) /\ Done(r)
      BY <1>2, <3>1 DEF DeletionOf, Served, Done, At, By
    <3>3. NotBackSince(r, u)
      BY <1>2, <3>2, NotBackShrinks
    <3>4. Deleted(u)
      BY <3>2, <3>3 DEF AccountsInv
    <3>5. ~(call[q].kind = "comeBack" /\ By(q) = u)
      <4>1. SUFFICES ASSUME call[q].kind = "comeBack", By(q) = u PROVE FALSE
        OBVIOUS
      <4>2. q \in call[r].after
        BY <3>3, <4>1 DEF NotBackSince
      <4>3. Done(q)
        BY <4>2, AfterIsDone
      <4> QED
        BY <4>3 DEF Done, At, Advance, InProgress
    <3> QED
      BY <3>4, <3>5
  <2> QED
    BY <2>1, <2>2
<1> QED
  BY <1>1, <1>2 DEF AccountsInv

\* The other calls of the accounts show nothing.
LEMMA NoUsersShown ==
    ASSUME NEW q \in Calls, UsersAsTold(q), call[q].kind \in AccountsKinds \ {"users"}, Advance(q),
           call'[q].page = call[q].page
    PROVE  UsersAsTold(q)'
  BY DEF UsersAsTold, Advance, Moved

\* The invariant of the accounts is kept by every step of the composition.
LEMMA AccountsInvStep ==
    ASSUME CallInv, AccountsInv, [Next]_vars PROVE AccountsInv'
<1>0. Onward /\ CallTypeOK /\ AccountsTypeOK /\ None \notin Users
  BY StepIsOnward, CallsAssumption DEF CallInv, AccountsInv
<1>1. ASSUME NEW q \in Calls, AccountsStep(q) PROVE AccountsInv'
  <2>0. Advance(q) /\ UsersAsTold(q) /\ call[q].by \in Users /\ AsAsked(q)
    BY <1>0, <1>1, AccountsAdvance DEF AccountsInv, CallInv, Advance, InProgress
  <2>a. call'[q].kind = call[q].kind /\ call'[q].by = call[q].by /\ call'[q].on = call[q].on
        /\ call'[q].after = call[q].after /\ call'[q].arg = call[q].arg
    BY <2>0 DEF Advance, Moved
  <2>u. UNCHANGED accounts => /\ AccountsTypeOK'
                              /\ \A u \in Users : Deleted(u)' => Home[u] = Home[accounts'[u].deletedBy]
                              /\ \A u \in Users : Deleted(u) => Deleted(u)'
    BY <1>0 DEF AccountsTypeOK, Deleted, AccountsInv
  <2>1. CASE Leave(q)
    <3>1. call[q].kind = "leave"
      BY <2>1 DEF Leave, Serving
    <3>2. call'[q].page = call[q].page
      BY <1>0, <2>1, FinishMoves, CommitMoves DEF Leave, Moved
    <3>3. UsersAsTold(q)'
      BY <2>0, <3>1, <3>2, NoUsersShown DEF AccountsKinds
    <3>4. CASE UNCHANGED accounts /\ \E outcome \in {"forbidden", "notFound"} : Finish(q, outcome)
      <4>1. call'[q].outcome # "ok"
        BY <1>0, <3>4, FinishMoves DEF Moved
      <4>2. \A u : ~DeletionOf(q, u)'
        BY <4>1 DEF DeletionOf, Served
      <4> QED
        BY <1>0, <2>0, <2>u, <3>3, <3>4, <4>2, AccountsStepOf
    <3>5. CASE \E u : u = By(q) /\ accounts' = [accounts EXCEPT ![u].deletedBy = u]
      <4>1. PICK u : u = By(q) /\ accounts' = [accounts EXCEPT ![u].deletedBy = u]
        BY <3>5
      <4>2. u \in Users /\ u # None
        BY <2>0, <4>1, <1>0 DEF By
      <4>3. AccountsTypeOK' /\ accounts'[u].deletedBy = u
            /\ \A v \in Users \ {u} : accounts'[v] = accounts[v]
        BY <1>0, <4>1, <4>2 DEF AccountsTypeOK
      <4>4. \A v \in Users : Deleted(v)' => Home[v] = Home[accounts'[v].deletedBy]
        BY <4>3 DEF Deleted, AccountsInv
      <4>5. \A v \in Users : Deleted(v) => Deleted(v)'
        BY <4>2, <4>3 DEF Deleted
      <4>6. \A v \in Users : DeletionOf(q, v)' => Deleted(v)'
        BY <2>a, <3>1, <4>1, <4>2, <4>3 DEF DeletionOf, Served, By, Deleted
      <4> QED
        BY <1>0, <2>0, <3>3, <4>3, <4>4, <4>5, <4>6, AccountsStepOf
    <3> QED
      BY <2>1, <3>4, <3>5 DEF Leave
  <2>2. CASE Remove(q)
    <3>1. call[q].kind = "remove"
      BY <2>2 DEF Remove, Serving
    <3>2. call'[q].page = call[q].page
      BY <1>0, <2>2, FinishMoves, CommitMoves DEF Remove, Moved
    <3>3. UsersAsTold(q)'
      BY <2>0, <3>1, <3>2, NoUsersShown DEF AccountsKinds
    <3>4. CASE UNCHANGED accounts /\ \E outcome \in {"forbidden", "notFound"} : Finish(q, outcome)
      <4>1. call'[q].outcome # "ok"
        BY <1>0, <3>4, FinishMoves DEF Moved
      <4>2. \A u : ~DeletionOf(q, u)'
        BY <4>1 DEF DeletionOf, Served
      <4> QED
        BY <1>0, <2>0, <2>u, <3>3, <3>4, <4>2, AccountsStepOf
    <3>5. CASE \E u, a : /\ u = call[q].on /\ a = By(q) /\ Here(q, u)
                         /\ accounts' = [accounts EXCEPT ![u].deletedBy = a]
      <4>1. PICK u, a : /\ u = call[q].on /\ a = By(q) /\ Here(q, u)
                        /\ accounts' = [accounts EXCEPT ![u].deletedBy = a]
        BY <3>5
      <4>2. u \in Users /\ a \in Users /\ a # None /\ Home[u] = Home[a]
        BY <2>0, <4>1, <1>0 DEF By, Here, HomeOf
      <4>3. AccountsTypeOK' /\ accounts'[u].deletedBy = a
            /\ \A v \in Users \ {u} : accounts'[v] = accounts[v]
        BY <1>0, <4>1, <4>2 DEF AccountsTypeOK
      <4>4. \A v \in Users : Deleted(v)' => Home[v] = Home[accounts'[v].deletedBy]
        BY <4>2, <4>3 DEF Deleted, AccountsInv
      <4>5. \A v \in Users : Deleted(v) => Deleted(v)'
        BY <4>2, <4>3 DEF Deleted
      <4>6. \A v \in Users : DeletionOf(q, v)' => Deleted(v)'
        BY <2>a, <3>1, <4>1, <4>2, <4>3 DEF DeletionOf, Served, By, Deleted
      <4> QED
        BY <1>0, <2>0, <3>3, <4>3, <4>4, <4>5, <4>6, AccountsStepOf
    <3> QED
      BY <2>2, <3>4, <3>5 DEF Remove
  <2>3. CASE ComeBack(q)
    <3>1. call[q].kind = "comeBack"
      BY <2>3 DEF ComeBack, Serving
    <3>2. call'[q].page = call[q].page
      BY <1>0, <2>3, FinishMoves DEF ComeBack, Moved
    <3>3. UsersAsTold(q)'
      BY <2>0, <3>1, <3>2, NoUsersShown DEF AccountsKinds
    <3>4. \A v : ~DeletionOf(q, v)'
      BY <2>a, <3>1 DEF DeletionOf, Served
    <3>5. CASE UNCHANGED accounts
      BY <1>0, <2>0, <2>u, <3>3, <3>4, <3>5, AccountsStepOf
    <3>6. CASE \E u : u = By(q) /\ accounts' = [accounts EXCEPT ![u].deletedBy = None]
      <4>1. PICK u : u = By(q) /\ accounts' = [accounts EXCEPT ![u].deletedBy = None]
        BY <3>6
      <4>2. u \in Users
        BY <2>0, <4>1 DEF By
      <4>3. AccountsTypeOK' /\ accounts'[u].deletedBy = None
            /\ \A v \in Users \ {u} : accounts'[v] = accounts[v]
        BY <1>0, <4>1, <4>2 DEF AccountsTypeOK
      <4>4. \A v \in Users : Deleted(v)' => Home[v] = Home[accounts'[v].deletedBy]
        BY <4>3 DEF Deleted, AccountsInv
      <4>5. \A v \in Users : Deleted(v) => Deleted(v)' \/ (call[q].kind = "comeBack" /\ By(q) = v)
        BY <3>1, <4>1, <4>3 DEF Deleted
      <4> QED
        BY <1>0, <2>0, <3>3, <3>4, <4>3, <4>4, <4>5, AccountsStepOf
    <3> QED
      BY <2>3, <3>5, <3>6 DEF ComeBack
  <2>4. CASE UpdateUserStatus(q)
    <3>1. call[q].kind = "status"
      BY <2>4 DEF UpdateUserStatus, Serving
    <3>2. call'[q].page = call[q].page
      BY <1>0, <2>4, CommitMoves, FinishMoves DEF UpdateUserStatus, Moved
    <3>3. UsersAsTold(q)'
      BY <2>0, <3>1, <3>2, NoUsersShown DEF AccountsKinds
    <3>4. \A v : ~DeletionOf(q, v)'
      BY <2>a, <3>1 DEF DeletionOf, Served
    <3>5. CASE UNCHANGED accounts
      BY <1>0, <2>0, <2>u, <3>3, <3>4, <3>5, AccountsStepOf
    <3>6. CASE \E u, s : /\ u = call[q].on /\ s \in UserStatuses /\ Here(q, u)
                         /\ accounts' = [accounts EXCEPT ![u].status = s]
      <4>1. PICK u, s : /\ u = call[q].on /\ s \in UserStatuses /\ Here(q, u)
                        /\ accounts' = [accounts EXCEPT ![u].status = s]
        BY <3>6
      <4>2. u \in Users /\ s \in UserStatuses
        BY <4>1 DEF Here
      <4>3. AccountsTypeOK' /\ \A v \in Users : accounts'[v].deletedBy = accounts[v].deletedBy
        BY <1>0, <4>1, <4>2 DEF AccountsTypeOK
      <4>4. \A v \in Users : Deleted(v)' => Home[v] = Home[accounts'[v].deletedBy]
        BY <4>3 DEF Deleted, AccountsInv
      <4>5. \A v \in Users : Deleted(v) => Deleted(v)'
        BY <4>3 DEF Deleted
      <4> QED
        BY <1>0, <2>0, <3>3, <3>4, <4>3, <4>4, <4>5, AccountsStepOf
    <3> QED
      BY <2>4, <3>5, <3>6 DEF UpdateUserStatus
  <2>5. CASE ListUsers(q)
    <3>1. call[q].kind = "users" /\ UNCHANGED accounts
      BY <2>5 DEF ListUsers, Serving
    <3>2. call'[q].page = {u \in Users : Here(q, u) /\ (Deleted(u) <=> call[q].arg = "deleted")}
      BY <1>0, <2>5, ShowMoves DEF ListUsers, Moved
    <3>3. ASSUME NEW u \in call'[q].page
          PROVE  Here(q, u)' /\ (call[q].arg # "deleted" => ~GoneBefore(u, q)')
      <4>1. u \in Users /\ Here(q, u) /\ (call[q].arg # "deleted" => ~Deleted(u))
        BY <3>2, <3>3
      <4>2. call[q].arg # "deleted" => ~GoneBefore(u, q)
        BY <4>1, GoneAreDeleted
      <4>3. ~At(q, "new")
        BY <2>0 DEF Advance, InProgress, At
      <4> QED
        BY <1>0, <2>a, <4>1, <4>2, <4>3, GoneShrinks DEF Here, HomeOf, By
    <3>4. UsersAsTold(q)'
      BY <2>a, <3>1, <3>3 DEF UsersAsTold
    <3>5. \A v : ~DeletionOf(q, v)'
      BY <2>a, <3>1 DEF DeletionOf, Served
    <3> QED
      BY <1>0, <2>0, <2>u, <3>1, <3>4, <3>5, AccountsStepOf
  <2> QED
    BY <1>1, <2>1, <2>2, <2>3, <2>4, <2>5 DEF AccountsStep
<1>2. CASE Elsewhere(AccountsKinds) /\ UNCHANGED accounts
  <2>1. AccountsTypeOK' /\ \A u \in Users : /\ Deleted(u)' <=> Deleted(u)
                                            /\ Deleted(u)' => Home[u] = Home[accounts'[u].deletedBy]
    BY <1>0, <1>2 DEF AccountsTypeOK, Deleted, AccountsInv
  <2>2. ASSUME NEW r \in Calls, NEW u \in Users, (DeletionOf(r, u) /\ NotBackSince(r, u))'
        PROVE  Deleted(u)'
    <3>1. call'[r].kind \in AccountsKinds
      BY <2>2 DEF DeletionOf, Served, AccountsKinds
    <3>2. Untouched(r) \/ Failed(r) \/ Begun(r)
      BY <1>0, <1>2, <3>1, OthersOf
    <3>3. call'[r] = call[r]
      BY <2>2, <3>2 DEF DeletionOf, Served, Untouched, Failed, Begun, Done, At
    <3>4. DeletionOf(r, u) /\ Done(r)
      BY <2>2, <3>3 DEF DeletionOf, Served, Done, At, By
    <3>5. NotBackSince(r, u)
      BY <1>0, <2>2, <3>4, NotBackShrinks
    <3> QED
      BY <2>1, <3>4, <3>5 DEF AccountsInv
  <2>3. ASSUME NEW p \in Calls PROVE UsersAsTold(p)'
    <3>1. CASE call'[p].kind \notin AccountsKinds
      BY <3>1 DEF UsersAsTold
    <3>2. CASE Begun(p)
      BY <3>2 DEF Begun, UsersAsTold
    <3>3. CASE Untouched(p) \/ Failed(p)
      <4>1. CASE At(p, "new")
        BY <3>3, <4>1 DEF CallInv, At, NewCall, UsersAsTold, AccountsKinds, Untouched, Failed, InProgress
      <4>2. CASE ~At(p, "new")
        BY <1>0, <3>3, <4>2, UsersStay DEF AccountsInv, Untouched, Failed
      <4> QED
        BY <4>1, <4>2
    <3> QED
      BY <1>0, <1>2, <3>1, <3>2, <3>3, OthersOf
  <2> QED
    BY <2>1, <2>2, <2>3 DEF AccountsInv
<1> QED
  BY <1>1, <1>2, AccountsAlone

\* It is true at first.
LEMMA AccountsInvInit == Init => AccountsInv
<1> SUFFICES ASSUME Init PROVE AccountsInv
  OBVIOUS
<1>1. AccountsInit /\ \A q \in Calls : call[q].kind = "none" /\ call[q].page = {}
  BY NoCallsYet DEF Init
<1> QED
  BY <1>1 DEF AccountsInit, AccountsInv, AccountsTypeOK, Deleted, DeletionOf, Served, UsersAsTold, UserStatuses

-----------------------------------------------------------------------------
(* What providers save.                                                    *)

\* The calls that save, and what they save.
SaveKinds == {"save", "saveAgenda"}
saved == <<bios, services, agenda>>

\* What providers save, and the favorites, are written by their pages alone.
LEMMA PageAlone ==
    ASSUME CallInv, [Next]_vars
    PROVE  \/ \E q \in Calls : ProviderPageStep(q)
           \/ Elsewhere(PageKinds) /\ UNCHANGED profiles
  BY StepIsOneOf, StepsAdvance
  DEF StepCases, Elsewhere, CallInv, AllKinds, BulletinKinds, NoticesKinds, RequestsKinds, QuestionsKinds,
      AccountsKinds, PageKinds, TalkKinds, ResetKinds, boards, rows, Record, AccountsStep

\* The steps of a save.
SaveStep(q) ==
    \/ ValidateSlugs(q) \/ LockProfile(q) \/ CommitSave(q)
    \/ FindSlots(q) \/ DeleteSlots(q) \/ InsertSlot(q) \/ CommitAgenda(q)

\* What providers save is written by the saves alone.
LEMMA SavesAlone ==
    ASSUME CallInv, [Next]_vars
    PROVE  \/ \E q \in Calls : SaveStep(q) /\ Advance(q) /\ UNCHANGED <<accounts, visits, scene>>
           \/ Elsewhere(SaveKinds) /\ UNCHANGED saved
<1>0. CallTypeOK
  BY DEF CallInv
<1>1. CASE Elsewhere(PageKinds) /\ UNCHANGED profiles
  BY <1>1 DEF Elsewhere, PageKinds, SaveKinds, profiles, saved
<1>2. ASSUME NEW q \in Calls, ProviderPageStep(q)
      PROVE  \/ SaveStep(q) /\ Advance(q) /\ UNCHANGED <<accounts, visits, scene>>
             \/ Advance(q) /\ call[q].kind \notin SaveKinds /\ UNCHANGED saved
  <2>1. Advance(q)
    BY <1>0, <1>2, ProviderPageAdvance
  <2>2. CASE SaveStep(q)
    BY <1>2, <2>1, <2>2
    DEF ProviderPageStep, SaveStep, ValidateSlugs, LockProfile, CommitSave, FindSlots, DeleteSlots,
        InsertSlot, CommitAgenda
  <2>3. CASE \/ ReadProfile(q) \/ GetCategories(q) \/ GetCategorySlugs(q) \/ GetAvailability(q)
             \/ ReadFacts(q)
    BY <2>1, <2>3 DEF ReadProfile, GetCategories, GetCategorySlugs, GetAvailability, ReadSlice, ReadFacts,
       Paging, SaveKinds, profiles, saved
  <2>4. CASE FindProviders(q) \/ AttachCategories(q) \/ AttachSeals(q) \/ MyRatingSummary(q)
    BY <2>1, <2>4 DEF FindProviders, AttachCategories, AttachSeals, MyRatingSummary, Listing, Serving,
       SaveKinds, profiles, saved
  <2>5. CASE ReadCounts(q) \/ ReadRank(q) \/ ListCategories(q) \/ ListProviderServices(q) \/ Stats(q)
    BY <2>1, <2>5 DEF ReadCounts, ReadRank, ListCategories, ListProviderServices, Stats, Serving, ServingAt,
       SaveKinds, profiles, saved
  <2>6. CASE Favorite(q) \/ Unfavorite(q)
    BY <2>1, <2>6 DEF Favorite, Unfavorite, Serving, SaveKinds, saved
  <2> QED
    BY <1>2, <2>2, <2>3, <2>4, <2>5, <2>6 DEF ProviderPageStep, SaveStep
<1> QED
  BY <1>1, <1>2, PageAlone DEF Elsewhere

\* What is in the tables, and that the slugs of a provider are of one save.
SavedRows ==
    /\ bios \in [Providers -> Ids \cup {None}]
    /\ services \subseteq [of : Providers, part : {"slug"}, item : Categories, from : Ids]
    /\ agenda \subseteq [of : Providers, part : {"slot"}, item : Slots, from : Ids]
    /\ \A r, t \in services : r.of = t.of => r.from = t.from
    /\ \A r \in agenda : r.from \in Calls => Done(r.from)

\* A save in progress holds rows of its provider; one of the slugs holds them all,
\* and alone, and one of the agenda all those of before.
Held(q) ==
    /\ ServingAt(q, "save", "locked") =>
          /\ call[q].page = IF call[q].arg.slugs = None THEN {} ELSE OfP(services, By(q))
          /\ By(q) \in Providers =>
                \A p \in Calls : ServingAt(p, "save", "locked") /\ By(p) = By(q) => p = q
          /\ call[q].arg.slugs # None => Range(call[q].arg.slugs) \subseteq Categories
    /\ ServingAt(q, "save", "valid") =>
          (call[q].arg.slugs # None => Range(call[q].arg.slugs) \subseteq Categories)
    /\ call[q].kind = "saveAgenda" =>
          /\ \A r \in call[q].page : /\ r \in [of : Providers, part : {"slot"}, item : Slots, from : Ids]
                                     /\ r.of = By(q)
          /\ IsFiniteSet(Inserted(q))
    /\ call[q].kind = "saveAgenda" /\ call[q].pc \in {"deleting", "inserting"} =>
          \A r \in agenda : r.of = By(q) /\ r.from \in call[q].after \cup {0} => r \in call[q].page
    /\ call[q].kind = "save" => \A r \in call[q].page : r.of = By(q)
    /\ call[q].kind \in SaveKinds /\ call[q].pc = "arrived" => call[q].page = {}

\* What s has replaced is gone.
Gone(s) ==
    /\ Served(s, "save") /\ call[s].arg.bio /\ By(s) \in Providers =>
          bios[By(s)] \notin call[s].after \cup {0}
    /\ Served(s, "save") /\ call[s].arg.slugs # None =>
          \A r \in services : r.of = By(s) => r.from \notin call[s].after \cup {0}
    /\ Served(s, "saveAgenda") =>
          \A r \in agenda : r.of = By(s) => r.from \notin call[s].after \cup {0}

\* The invariant of what providers save.
SavesInv == SavedRows /\ \A q \in Calls : Held(q) /\ Gone(q)

\* New rows are of calls that have not been answered yet.
SavesStay ==
    /\ \A p \in Providers : bios'[p] = bios[p] \/ (bios'[p] \in Calls /\ ~Done(bios'[p]))
    /\ \A r \in services' \ services : r.from \in Calls /\ ~Done(r.from)
    /\ \A r \in agenda' \ agenda : r.from \in Calls /\ ~Done(r.from)

\* The rows of before are of no call.
LEMMA ZeroIsNoCall == 0 \notin Calls
  BY DEF Calls

\* What has been replaced stays replaced, as new rows are of other calls.
LEMMA GoneStays ==
    ASSUME CallInv, Onward, SavesInv, SavesStay, NEW s \in Calls, Untouched(s)
    PROVE  Gone(s)'
<1>1. \A r \in call[s].after : r \in Calls /\ Done(r)
  BY AfterIsDone
<1>2. call'[s] = call[s] /\ By(s)' = By(s) /\ \A kind : Served(s, kind)' = Served(s, kind)
  BY DEF Untouched, By, Served, Done, At
<1>3. Gone(s)
  BY DEF SavesInv
<1> QED
  BY <1>1, <1>2, <1>3, ZeroIsNoCall DEF Gone, SavesStay

\* What a save in progress holds is not disturbed by a save of somebody else, nor
\* by an agenda.
LEMMA HeldStays ==
    ASSUME CallInv, Onward, SavesInv, SavesStay, NEW p \in Calls, Untouched(p),
           ServingAt(p, "save", "locked") => OfP(services', By(p)) = OfP(services, By(p)),
           \A r \in Calls : ServingAt(r, "save", "locked")' /\ By(r)' = By(p) /\ By(p) \in Providers
                               /\ ServingAt(p, "save", "locked") => ServingAt(r, "save", "locked") /\ By(r) = By(p)
    PROVE  Held(p)'
<1>1. \A r \in call[p].after : r \in Calls /\ Done(r)
  BY AfterIsDone
<1>2. call'[p] = call[p] /\ By(p)' = By(p)
      /\ \A kind, phase : ServingAt(p, kind, phase)' = ServingAt(p, kind, phase)
  BY DEF Untouched, By, ServingAt, At
<1>3. Held(p)
  BY DEF SavesInv
<1>4. OfP(services, By(p))' = OfP(services', By(p))
  BY <1>2 DEF OfP
<1>7. Inserted(p)' = Inserted(p)
  BY <1>2 DEF Inserted
<1>5. (ServingAt(p, "save", "locked") =>
          /\ call[p].page = IF call[p].arg.slugs = None THEN {} ELSE OfP(services, By(p))
          /\ By(p) \in Providers =>
                \A r \in Calls : ServingAt(r, "save", "locked") /\ By(r) = By(p) => r = p
          /\ call[p].arg.slugs # None => Range(call[p].arg.slugs) \subseteq Categories)'
  BY <1>2, <1>3, <1>4 DEF Held
<1>6. (call[p].kind = "saveAgenda" /\ call[p].pc \in {"deleting", "inserting"} =>
          \A r \in agenda : r.of = By(p) /\ r.from \in call[p].after \cup {0} => r \in call[p].page)'
  BY <1>1, <1>2, <1>3, ZeroIsNoCall DEF Held, SavesStay
<1> QED
  BY <1>2, <1>3, <1>5, <1>6, <1>7 DEF Held

\* A step of one save, by what it does to its own rows and to those who hold theirs.
LEMMA SaveStepOf ==
    ASSUME CallInv, Onward, SavesInv, NEW q \in Calls, Advance(q), SavesStay, SavedRows', Held(q)', Gone(q)',
           \A p \in Calls \ {q} :
              ServingAt(p, "save", "locked") => OfP(services', By(p)) = OfP(services, By(p)),
           ServingAt(q, "save", "locked")' =>
              (By(q) \in Providers => \A p \in Calls : ~(ServingAt(p, "save", "locked") /\ By(p) = By(q)))
    PROVE  SavesInv'
<1>1. ASSUME NEW p \in Calls \ {q} PROVE Held(p)' /\ Gone(p)'
  <2>1. Untouched(p)
    BY ServesOne DEF Untouched
  <2>2. ASSUME NEW r \in Calls, ServingAt(r, "save", "locked")', By(r)' = By(p), By(p) \in Providers,
               ServingAt(p, "save", "locked")
        PROVE  ServingAt(r, "save", "locked") /\ By(r) = By(p)
    <3>1. CASE r = q
      <4>1. By(q)' = By(q)
        BY DEF By, Advance, Moved
      <4> QED
        BY <2>2, <3>1, <4>1
    <3>2. CASE r # q
      BY <2>2, <3>2, ServesOne DEF ServingAt, At, By
    <3> QED
      BY <3>1, <3>2
  <2> QED
    BY <1>1, <2>1, <2>2, HeldStays, GoneStays
<1> QED
  BY <1>1 DEF SavesInv

\* A step that writes nothing and does not end a save well.
LEMMA SavesWait ==
    ASSUME CallInv, Onward, SavesInv, NEW q \in Calls, Advance(q), UNCHANGED saved, Held(q)',
           call'[q].outcome # "ok",
           ServingAt(q, "save", "locked")' =>
              (By(q) \in Providers => \A p \in Calls : ~(ServingAt(p, "save", "locked") /\ By(p) = By(q)))
    PROVE  SavesInv'
<1>1. SavesStay
  BY DEF SavesStay, saved
<1>2. SavedRows'
  <2>1. \A r \in Calls : Done(r) => Done(r)'
    BY DEF Onward, Done, At
  <2> QED
    BY <2>1 DEF SavesInv, SavedRows, saved
<1>3. Gone(q)'
  BY DEF Gone, Served
<1> QED
  BY <1>1, <1>2, <1>3, SaveStepOf DEF saved

\* The call that a save is.
LEMMA SaveFacts ==
    ASSUME CallInv, SavesInv, NEW q \in Calls, Advance(q)
    PROVE  /\ CallTypeOK /\ SavedRows /\ Held(q)
           /\ call[q].by \in Users /\ AsAsked(q) /\ call[q].outcome = "none" /\ ~Done(q)
           /\ q \notin call[q].after /\ q # 0 /\ q \in Ids
           /\ call'[q].kind = call[q].kind /\ call'[q].by = call[q].by /\ call'[q].arg = call[q].arg
           /\ call'[q].after = call[q].after
  BY CallsAreIds, AfterIsDone DEF CallInv, CallTypeOK, SavesInv, Advance, Moved, InProgress, Done, At

\* A save that is refused changes nothing.
LEMMA RefusedSaves ==
    ASSUME CallInv, Onward, SavesInv, NEW q \in Calls, Advance(q), UNCHANGED saved,
           call[q].kind \in SaveKinds, NEW outcome, Finish(q, outcome), outcome # "ok"
    PROVE  SavesInv'
<1>0. CallTypeOK /\ Held(q) /\ call'[q].kind = call[q].kind /\ call'[q].by = call[q].by
  BY SaveFacts
<1>1. call'[q].pc = "done" /\ call'[q].page = call[q].page /\ call'[q].outcome = outcome
  BY <1>0, FinishMoves DEF Moved
<1>2. Inserted(q)' = Inserted(q)
  BY <1>1 DEF Inserted
<1>3. Held(q)'
  BY <1>0, <1>1, <1>2 DEF Held, ServingAt, At, By
<1> QED
  BY <1>1, <1>3, SavesWait DEF ServingAt, At

\* The invariant is kept by the check of the slugs, outside the transaction.
LEMMA ValidateKeepsSaves ==
    ASSUME CallInv, Onward, SavesInv, NEW q \in Calls, Advance(q), ValidateSlugs(q)
    PROVE  SavesInv'
<1>0. CallTypeOK /\ Held(q) /\ call'[q].kind = call[q].kind /\ call'[q].by = call[q].by
      /\ call'[q].arg = call[q].arg /\ call[q].outcome = "none"
  BY SaveFacts
<1>1. UNCHANGED saved /\ call[q].kind = "save"
  BY DEF ValidateSlugs, Serving, profiles, saved
<1>2. CASE Goto(q, "valid") /\ (call[q].arg.slugs # None => Range(call[q].arg.slugs) \subseteq Categories)
  <2>1. call'[q].pc = "valid" /\ call'[q].page = call[q].page /\ call'[q].outcome = "none"
    BY <1>0, <1>2, GotoMoves DEF Moved
  <2>2. Held(q)'
    BY <1>0, <1>1, <1>2, <2>1 DEF Held, ServingAt, At, By
  <2> QED
    BY <1>1, <2>1, <2>2, SavesWait DEF ServingAt, At
<1>3. CASE Finish(q, "unknownSlug")
  BY <1>1, <1>3, RefusedSaves DEF SaveKinds
<1> QED
  BY <1>2, <1>3 DEF ValidateSlugs

\* It is kept by the first statement of the transaction: the row lock makes a provider's
\* other saves wait.
LEMMA LockKeepsSaves ==
    ASSUME CallInv, Onward, SavesInv, NEW q \in Calls, Advance(q), LockProfile(q)
    PROVE  SavesInv'
<1>0. CallTypeOK /\ Held(q) /\ call'[q].kind = call[q].kind /\ call'[q].by = call[q].by
      /\ call'[q].arg = call[q].arg /\ call[q].outcome = "none"
  BY SaveFacts
<1>1. UNCHANGED saved /\ ServingAt(q, "save", "valid")
      /\ (By(q) \in Providers => \A p \in Calls : ~(ServingAt(p, "save", "locked") /\ By(p) = By(q)))
  BY DEF LockProfile, profiles, saved
<1>2. /\ call'[q].pc = "locked" /\ call'[q].outcome = "none"
      /\ call'[q].page = IF call[q].arg.slugs = None THEN {} ELSE OfP(services, By(q))
  BY <1>0, KeepMoves DEF LockProfile, Moved
<1>3. \A p \in Calls \ {q} : /\ ServingAt(p, "save", "locked")' <=> ServingAt(p, "save", "locked")
                             /\ By(p)' = By(p)
  BY ServesOne DEF ServingAt, At, By
<1>4. By(q)' = By(q) /\ OfP(services, By(q))' = OfP(services, By(q))
  BY <1>0, <1>1 DEF By, OfP, saved
<1>5. Held(q)'
  <2>1. \A r \in call'[q].page : r.of = By(q)
    BY <1>2 DEF OfP
  <2>2. (By(q) \in Providers => \A p \in Calls : ServingAt(p, "save", "locked") /\ By(p) = By(q) => p = q)'
    BY <1>1, <1>3, <1>4
  <2>3. call[q].kind = "save" /\ (call[q].arg.slugs # None => Range(call[q].arg.slugs) \subseteq Categories)
    BY <1>0, <1>1 DEF Held, ServingAt
  <2> QED
    BY <1>0, <1>2, <1>4, <2>1, <2>2, <2>3 DEF Held, ServingAt, At
<1> QED
  BY <1>1, <1>2, <1>5, SavesWait

\* It is kept by the commit of a save.
LEMMA CommitSaveKeepsSaves ==
    ASSUME CallInv, Onward, SavesInv, NEW q \in Calls, Advance(q), CommitSave(q)
    PROVE  SavesInv'
<1>0. /\ CallTypeOK /\ SavedRows /\ Held(q) /\ call[q].by \in Users /\ AsAsked(q) /\ ~Done(q)
      /\ q \notin call[q].after /\ q # 0 /\ q \in Ids
      /\ call'[q].kind = call[q].kind /\ call'[q].by = call[q].by /\ call'[q].arg = call[q].arg
      /\ call'[q].after = call[q].after
  BY SaveFacts
<1>1. ServingAt(q, "save", "locked") /\ UNCHANGED agenda /\ call[q].kind = "save"
  BY DEF CommitSave, ServingAt
<1>2. CASE Finish(q, "error") /\ UNCHANGED saved
  BY <1>1, <1>2, RefusedSaves DEF SaveKinds
<1>3. CASE ~(Finish(q, "error") /\ UNCHANGED saved)
  <2> DEFINE slugs == IF call[q].arg.slugs = None THEN <<>> ELSE call[q].arg.slugs
  <2>1. PICK u, new, bio : /\ u = By(q) /\ new = {Row(u, "slug", c, q) : c \in Range(slugs)}
                           /\ bio = call[q].arg.bio
    OBVIOUS
  <2>2. /\ u \in Providers \/ slugs = <<>>
        /\ services' = (services \ call[q].page) \cup new
        /\ bios' = [p \in Providers |-> IF p = u /\ bio THEN q ELSE bios[p]]
        /\ Committed(q)
    BY <1>1, <1>3, <2>1 DEF CommitSave, saved
  <2>3. call'[q].pc = "done" /\ call'[q].page = call[q].page
    BY <1>0, <2>2, CommitMoves DEF Moved
  <2>4. Range(<<>>) = {}
    BY DEF Range
  <2>5. \A r \in new : /\ r \in [of : Providers, part : {"slug"}, item : Categories, from : Ids]
                       /\ r.of = u /\ r.from = q
    <3>1. Range(slugs) \subseteq Categories
      BY <1>0, <1>1, <2>4 DEF Held
    <3>2. Range(slugs) # {} => u \in Providers
      BY <2>2, <2>4
    <3> HIDE DEF slugs
    <3> QED
      BY <1>0, <2>1, <3>1, <3>2 DEF Row
  <2>6. \A r \in call[q].page : r.of = u
    BY <1>0, <1>1, <2>1 DEF Held
  <2>7. CASE call[q].arg.slugs = None
    <3>1. new = {} /\ call[q].page = {} /\ services' = services
      BY <1>0, <1>1, <2>1, <2>2, <2>4, <2>7 DEF Held
    <3>2. SavesStay
      BY <1>0, <1>1, <2>2, <3>1 DEF SavesStay
    <3>3. SavedRows'
      <4>1. \A r \in Calls : Done(r) => Done(r)'
        BY DEF Onward, Done, At
      <4>2. bios' \in [Providers -> Ids \cup {None}]
        BY <1>0, <2>2 DEF SavedRows
      <4> QED
        BY <1>0, <1>1, <3>1, <4>1, <4>2 DEF SavedRows
    <3>4. Held(q)'
      BY <1>0, <1>1, <2>3, <3>1 DEF Held, ServingAt, At
    <3>5. Gone(q)'
      BY <1>0, <1>1, <2>1, <2>2, <2>7 DEF Gone, By, Served
    <3>6. ~ServingAt(q, "save", "locked")'
      BY <2>3 DEF ServingAt, At
    <3> QED
      BY <3>1, <3>2, <3>3, <3>4, <3>5, <3>6, SaveStepOf
  <2>8. CASE call[q].arg.slugs # None
    <3>1. call[q].page = OfP(services, u)
      BY <1>0, <1>1, <2>1, <2>8 DEF Held
    <3>2. /\ \A r \in services' : r.of = u => r \in new
          /\ \A r \in services' : r.of # u => r \in services
          /\ \A r \in services : r.of # u => r \in services'
      BY <2>2, <2>5, <3>1 DEF OfP
    <3>3. SavesStay
      BY <1>0, <1>1, <2>2, <2>5 DEF SavesStay
    <3>4. SavedRows'
      <4>1. \A r \in Calls : Done(r) => Done(r)'
        BY DEF Onward, Done, At
      <4>2. bios' \in [Providers -> Ids \cup {None}]
        BY <1>0, <2>2 DEF SavedRows
      <4>3. services' \subseteq [of : Providers, part : {"slug"}, item : Categories, from : Ids]
        BY <1>0, <2>2, <2>5 DEF SavedRows
      <4>4. \A r, t \in services' : r.of = t.of => r.from = t.from
        BY <1>0, <2>5, <3>2 DEF SavedRows
      <4> QED
        BY <1>0, <1>1, <4>1, <4>2, <4>3, <4>4 DEF SavedRows
    <3>5. Held(q)'
      BY <1>0, <1>1, <2>1, <2>3, <2>6 DEF Held, ServingAt, At, By
    <3>6. Gone(q)'
      BY <1>0, <1>1, <2>1, <2>2, <2>5, <3>2 DEF Gone, By, Served
    <3>7. ASSUME NEW p \in Calls \ {q}, ServingAt(p, "save", "locked")
          PROVE  OfP(services', By(p)) = OfP(services, By(p))
      <4>1. CASE By(p) = u
        <5>1. u \notin Providers
          BY <1>0, <1>1, <2>1, <3>7, <4>1 DEF Held
        <5>2. new = {} /\ OfP(services, u) = {}
          BY <1>0, <2>5, <5>1 DEF SavedRows, OfP
        <5> QED
          BY <2>2, <3>1, <4>1, <5>2
      <4>2. CASE By(p) # u
        BY <3>2, <4>2 DEF OfP
      <4> QED
        BY <4>1, <4>2
    <3>8. ~ServingAt(q, "save", "locked")'
      BY <2>3 DEF ServingAt, At
    <3> QED
      BY <3>3, <3>4, <3>5, <3>6, <3>7, <3>8, SaveStepOf
  <2> QED
    BY <2>7, <2>8
<1> QED
  BY <1>2, <1>3

\* It is kept by the first statement of an agenda.
LEMMA FindSlotsKeepsSaves ==
    ASSUME CallInv, Onward, SavesInv, NEW q \in Calls, Advance(q), FindSlots(q)
    PROVE  SavesInv'
<1>0. /\ CallTypeOK /\ SavedRows /\ Held(q) /\ call[q].outcome = "none" /\ ~Done(q)
      /\ call'[q].kind = call[q].kind /\ call'[q].by = call[q].by /\ call'[q].after = call[q].after
  BY SaveFacts
<1>1. UNCHANGED saved /\ call[q].kind = "saveAgenda" /\ Keep(q, "deleting", OfP(agenda, By(q)))
  BY DEF FindSlots, Serving, profiles, saved
<1>2. call'[q].pc = "deleting" /\ call'[q].page = OfP(agenda, By(q)) /\ call'[q].outcome = "none"
  BY <1>0, <1>1, KeepMoves DEF Moved
<1>3. IsFiniteSet(Inserted(q)')
  <2>1. \A r \in call'[q].page : r.from # q
    BY <1>0, <1>2 DEF SavedRows, OfP
  <2>2. Inserted(q)' = {}
    BY <2>1 DEF Inserted
  <2> QED
    BY <2>2, FS_EmptySet
<1>4. Held(q)'
  BY <1>0, <1>1, <1>2, <1>3 DEF Held, SavedRows, OfP, ServingAt, By, saved
<1> QED
  BY <1>1, <1>2, <1>4, SavesWait DEF ServingAt, At

\* It is kept by the deletion of its slots.
LEMMA DeleteSlotsKeepsSaves ==
    ASSUME CallInv, Onward, SavesInv, NEW q \in Calls, Advance(q), DeleteSlots(q)
    PROVE  SavesInv'
<1>0. /\ CallTypeOK /\ SavedRows /\ Held(q) /\ call[q].outcome = "none" /\ ~Done(q)
      /\ call'[q].kind = call[q].kind /\ call'[q].by = call[q].by /\ call'[q].after = call[q].after
  BY SaveFacts
<1>1. /\ UNCHANGED saved /\ call[q].kind = "saveAgenda" /\ call[q].pc = "deleting"
      /\ Keep(q, "inserting", call[q].page \cap agenda)
  BY DEF DeleteSlots, ServingAt, At, profiles, saved
<1>2. call'[q].pc = "inserting" /\ call'[q].page = call[q].page \cap agenda /\ call'[q].outcome = "none"
  BY <1>0, <1>1, KeepMoves DEF Moved
<1>3. IsFiniteSet(Inserted(q)')
  <2>1. \A r \in call'[q].page : r.from # q
    BY <1>0, <1>2 DEF SavedRows
  <2>2. Inserted(q)' = {}
    BY <2>1 DEF Inserted
  <2> QED
    BY <2>2, FS_EmptySet
<1>4. Held(q)'
  BY <1>0, <1>1, <1>2, <1>3 DEF Held, SavedRows, ServingAt, By, saved
<1> QED
  BY <1>1, <1>2, <1>4, SavesWait DEF ServingAt, At

\* It is kept by the insertion of a slot, one that another save has inserted included.
LEMMA InsertSlotKeepsSaves ==
    ASSUME CallInv, Onward, SavesInv, NEW q \in Calls, Advance(q), InsertSlot(q)
    PROVE  SavesInv'
<1>0. /\ CallTypeOK /\ SavedRows /\ Held(q) /\ call[q].outcome = "none" /\ ~Done(q)
      /\ q \in Ids /\ call[q].by \in Users /\ AsAsked(q)
      /\ call'[q].kind = call[q].kind /\ call'[q].by = call[q].by /\ call'[q].after = call[q].after
  BY SaveFacts
<1>1. UNCHANGED saved /\ call[q].kind = "saveAgenda" /\ call[q].pc = "inserting" /\ Left(q)
  BY DEF InsertSlot, Inserting, ServingAt, At, profiles, saved
<1>2. CASE Finish(q, "error")
  BY <1>1, <1>2, RefusedSaves DEF SaveKinds
<1>3. CASE ~Finish(q, "error")
  <2>1. PICK u, n, slots : u = By(q) /\ n = Cardinality(Inserted(q)) /\ slots = call[q].arg
    OBVIOUS
  <2>2. u \in Providers /\ Keep(q, "inserting", call[q].page \cup {Row(u, "slot", slots[1 + n], q)})
    BY <1>3, <2>1 DEF InsertSlot, SlotTaken, NextSlot
  <2>3. slots[1 + n] \in Slots
    <3>1. slots \in Seq(Slots)
      BY <1>0, <1>1, <2>1, ProviderPageAssumption DEF AsAsked
    <3>2. n \in Nat /\ n < Len(slots)
      BY <1>0, <1>1, <2>1, FS_CardinalityType DEF Held, Left
    <3> QED
      BY <3>1, <3>2
  <2>4. PICK row : /\ row = Row(u, "slot", slots[1 + n], q)
                   /\ row \in [of : Providers, part : {"slot"}, item : Slots, from : Ids]
                   /\ row.of = u /\ row.from = q
    <3> DEFINE new == [of |-> u, part |-> "slot", item |-> slots[1 + n], from |-> q]
    <3>1. new = Row(u, "slot", slots[1 + n], q)
      BY DEF Row
    <3>2. new \in [of : Providers, part : {"slot"}, item : Slots, from : Ids]
      BY <1>0, <2>2, <2>3
    <3>3. new.of = u /\ new.from = q
      OBVIOUS
    <3> HIDE DEF new
    <3> QED
      BY <3>1, <3>2, <3>3
  <2>5. /\ call'[q].pc = "inserting" /\ call'[q].page = call[q].page \cup {row}
        /\ call'[q].outcome = "none"
    BY <1>0, <2>2, <2>4, KeepMoves DEF Moved
  <2>6. IsFiniteSet(Inserted(q)')
    <3>1. Inserted(q)' = Inserted(q) \cup {row}
      BY <2>4, <2>5 DEF Inserted
    <3>2. IsFiniteSet(Inserted(q))
      BY <1>0, <1>1 DEF Held
    <3> QED
      BY <3>1, <3>2, FS_AddElement
  <2>7. Held(q)'
    BY <1>0, <1>1, <2>1, <2>4, <2>5, <2>6 DEF Held, ServingAt, By, saved
  <2> QED
    BY <1>1, <2>5, <2>7, SavesWait DEF ServingAt, At
<1> QED
  BY <1>2, <1>3

\* It is kept by the commit of an agenda.
LEMMA CommitAgendaKeepsSaves ==
    ASSUME CallInv, Onward, SavesInv, NEW q \in Calls, Advance(q), CommitAgenda(q)
    PROVE  SavesInv'
<1>0. /\ CallTypeOK /\ SavedRows /\ Held(q) /\ ~Done(q) /\ q \notin call[q].after /\ q # 0
      /\ call'[q].kind = call[q].kind /\ call'[q].by = call[q].by /\ call'[q].after = call[q].after
  BY SaveFacts
<1>1. /\ UNCHANGED <<bios, services>> /\ call[q].kind = "saveAgenda" /\ call[q].pc = "inserting"
      /\ Committed(q) /\ agenda' = (agenda \ call[q].page) \cup Inserted(q)
  BY DEF CommitAgenda, ServingAt, At
<1>2. call'[q].pc = "done" /\ call'[q].page = call[q].page
  BY <1>0, <1>1, CommitMoves DEF Moved
<1>3. \A r \in Inserted(q) : r \in call[q].page /\ r.from = q
  BY DEF Inserted
<1>4. SavesStay
  BY <1>0, <1>1, <1>3 DEF SavesStay
<1>5. SavedRows'
  <2>1. \A r \in Calls : Done(r) => Done(r)'
    BY DEF Onward, Done, At
  <2>2. Done(q)'
    BY <1>2 DEF Done, At
  <2>3. agenda' \subseteq [of : Providers, part : {"slot"}, item : Slots, from : Ids]
    BY <1>0, <1>1, <1>3 DEF Held, SavedRows
  <2>4. \A r \in agenda' : r.from \in Calls => Done(r.from)'
    BY <1>0, <1>1, <1>3, <2>1, <2>2 DEF SavedRows
  <2> QED
    BY <1>0, <1>1, <2>3, <2>4 DEF SavedRows
<1>6. Held(q)'
  <2>1. Inserted(q)' = Inserted(q)
    BY <1>2 DEF Inserted
  <2> QED
    BY <1>0, <1>1, <1>2, <2>1 DEF Held, ServingAt, By
<1>7. Gone(q)'
  <2>1. ASSUME NEW r \in agenda', r.of = By(q) PROVE r.from \notin call[q].after \cup {0}
    BY <1>0, <1>1, <1>3, <2>1 DEF Held
  <2> QED
    BY <1>0, <1>1, <2>1 DEF Gone, Served, By
<1>8. ~ServingAt(q, "save", "locked")'
  BY <1>2 DEF ServingAt, At
<1> QED
  BY <1>1, <1>4, <1>5, <1>6, <1>7, <1>8, SaveStepOf

\* The invariant of what providers save is kept by every step of the composition.
LEMMA SavesInvStep ==
    ASSUME CallInv, SavesInv, [Next]_vars PROVE SavesInv'
<1>0. Onward /\ CallTypeOK
  BY StepIsOnward DEF CallInv
<1>1. ASSUME NEW q \in Calls, SaveStep(q), Advance(q) PROVE SavesInv'
  BY <1>0, <1>1, ValidateKeepsSaves, LockKeepsSaves, CommitSaveKeepsSaves, FindSlotsKeepsSaves,
     DeleteSlotsKeepsSaves, InsertSlotKeepsSaves, CommitAgendaKeepsSaves DEF SaveStep
<1>2. CASE Elsewhere(SaveKinds) /\ UNCHANGED saved
  <2>1. SavesStay
    BY <1>2 DEF SavesStay, saved
  <2>2. SavedRows'
    <3>1. \A r \in Calls : Done(r) => Done(r)'
      BY <1>0 DEF Onward, Done, At
    <3> QED
      BY <1>2, <3>1 DEF SavesInv, SavedRows, saved
  <2>3. ASSUME NEW p \in Calls, call'[p].kind \in SaveKinds
        PROVE  Untouched(p) \/ Failed(p) \/ Begun(p)
    BY <1>0, <1>2, <2>3, OthersOf
  <2>4. \A r \in Calls : ServingAt(r, "save", "locked")' => call'[r] = call[r]
    BY <2>3 DEF ServingAt, At, SaveKinds, Untouched, Failed, Begun
  <2>5. ASSUME NEW p \in Calls PROVE Held(p)' /\ Gone(p)'
    <3>1. CASE call'[p].kind \notin SaveKinds
      BY <3>1 DEF Held, Gone, Served, ServingAt, SaveKinds
    <3>2. CASE Untouched(p)
      <4>1. \A r \in Calls : ServingAt(r, "save", "locked")' =>
               ServingAt(r, "save", "locked") /\ By(r)' = By(r)
        BY <2>4 DEF ServingAt, At, By
      <4> QED
        BY <1>0, <1>2, <2>1, <3>2, <4>1, HeldStays, GoneStays DEF saved
    <3>3. CASE Failed(p)
      <4>1. Inserted(p)' = Inserted(p) /\ Held(p)
        BY <3>3 DEF Inserted, Failed, SavesInv
      <4> QED
        BY <3>3, <4>1 DEF Failed, Held, Gone, Served, ServingAt, At, By
    <3>4. CASE Begun(p)
      <4>1. call'[p].page = {} /\ Inserted(p)' = {}
        BY <3>4 DEF Begun, Inserted
      <4> QED
        BY <3>4, <4>1, FS_EmptySet DEF Begun, Held, Gone, Served, ServingAt, At
    <3> QED
      BY <2>3, <3>1, <3>2, <3>3, <3>4
  <2> QED
    BY <2>2, <2>5 DEF SavesInv
<1> QED
  BY <1>1, <1>2, SavesAlone

\* It is true at first.
LEMMA SavesInvInit == Init => SavesInv
<1> SUFFICES ASSUME Init PROVE SavesInv
  OBVIOUS
<1>1. ProviderPageInit /\ \A q \in Calls : call[q].kind = "none" /\ call[q].page = {}
  BY NoCallsYet DEF Init
<1>2. 0 \in Ids /\ 0 \notin Calls
  BY CallsAreIds
<1>3. OldCategory \in Categories /\ OldSlot \in Slots
  BY ProviderPageAssumption DEF OldCategory, OldSlot
<1>4. SavedRows
  <2>1. bios \in [Providers -> Ids \cup {None}]
    BY <1>1, <1>2 DEF ProviderPageInit
  <2>2. \A r \in services : /\ r \in [of : Providers, part : {"slug"}, item : Categories, from : Ids]
                            /\ r.from = 0
    BY <1>1, <1>2, <1>3 DEF ProviderPageInit, Row
  <2>3. \A r \in agenda : /\ r \in [of : Providers, part : {"slot"}, item : Slots, from : Ids]
                          /\ r.from = 0
    BY <1>1, <1>2, <1>3 DEF ProviderPageInit, Row
  <2> QED
    BY <1>2, <2>1, <2>2, <2>3 DEF SavedRows
<1>5. \A q \in Calls : Held(q) /\ Gone(q)
  BY <1>1 DEF Held, Gone, Served, ServingAt, SaveKinds
<1> QED
  BY <1>4, <1>5 DEF SavesInv

-----------------------------------------------------------------------------
(* Pages.                                                                  *)

\* The calls that show what providers have saved, or who they are.
ReadKinds == PageKinds \ SaveKinds

\* Their steps.
ReadStep(q) ==
    \/ ReadProfile(q) \/ GetCategories(q) \/ GetCategorySlugs(q) \/ GetAvailability(q) \/ ReadFacts(q)
    \/ FindProviders(q) \/ AttachCategories(q) \/ AttachSeals(q)
    \/ MyRatingSummary(q) \/ ReadCounts(q) \/ ReadRank(q)
    \/ ListCategories(q) \/ ListProviderServices(q) \/ Stats(q) \/ Favorite(q) \/ Unfavorite(q)

\* These calls go on by these steps alone.
LEMMA ReadsAlone ==
    ASSUME CallInv, [Next]_vars
    PROVE  \/ \E q \in Calls : ReadStep(q) /\ Advance(q) /\ call[q].kind \in ReadKinds
           \/ Elsewhere(ReadKinds)
<1>0. CallTypeOK
  BY DEF CallInv
<1>1. CASE Elsewhere(PageKinds)
  BY <1>1 DEF Elsewhere, ReadKinds
<1>2. ASSUME NEW q \in Calls, ProviderPageStep(q)
      PROVE  \/ ReadStep(q) /\ Advance(q) /\ call[q].kind \in ReadKinds
             \/ Advance(q) /\ call[q].kind \in SaveKinds
  <2>1. Advance(q) /\ call[q].kind \in PageKinds
    BY <1>0, <1>2, ProviderPageAdvance
  <2>2. SaveStep(q) => call[q].kind \in SaveKinds
    BY DEF SaveStep, ValidateSlugs, LockProfile, CommitSave, FindSlots, DeleteSlots, InsertSlot, Inserting,
       CommitAgenda, Serving, ServingAt, SaveKinds
  <2>3. SaveStep(q) \/ ReadStep(q)
    BY <1>2 DEF ProviderPageStep, SaveStep, ReadStep
  <2> QED
    BY <2>1, <2>2, <2>3 DEF ReadKinds
<1> QED
  BY <1>1, <1>2, PageAlone DEF Elsewhere, ReadKinds

\* The pages that do not show who is deleted.
ShowingKinds == {"search", "featured", "favorites", "visit", "myPage", "stats"}

\* A row that the page of q may show.
PageRow(q, r) ==
    /\ r.of \in Users /\ Home[r.of] = HomeOf(q)
    /\ call[q].kind \in ShowingKinds /\ r.part \in {"listed", "user", "bio"} => ~GoneBefore(r.of, q)
    /\ call[q].kind \in {"visit", "myPage"} => \A s \in call[q].after : ~Replaced(r, s)

\* Whose page it is, once it has been found, is a provider of the community.
SubjectHere(q) ==
    call[q].kind \in {"visit", "myPage"} /\ call[q].pc \in {"names", "slugs", "slots", "facts"} =>
        Subject(q) \in Providers /\ Home[Subject(q)] = HomeOf(q)

\* p was saving while q read.
SavedMeanwhile(p, q) ==
    \E s \in Calls : /\ call[s].kind \in {"save", "saveAgenda"} /\ By(s) = p
                     /\ s \notin call[q].after /\ q \notin call[s].after

\* Who is featured was eligible, or was saving.
FeaturedAsTold(q) ==
    call[q].kind = "featured" =>
        /\ call[q].pc \in {"names", "facts"} =>
              \A p \in OnPage(q) : p \in Providers /\ (Eligible(p) \/ SavedMeanwhile(p, q))
        /\ Served(q, "featured") =>
              \A p \in OnPage(q) : \/ \E r \in call[q].page : r.of = p /\ r.part = "seal"
                                   \/ SavedMeanwhile(p, q)

\* What a page has shown may be shown.
PageAsTold(q) ==
    /\ call[q].kind \in ReadKinds => \A r \in call[q].page : PageRow(q, r)
    /\ SubjectHere(q) /\ FeaturedAsTold(q)

\* The invariant of the pages.
PagesInv == \A q \in Calls : PageAsTold(q)

\* A row that may be shown may be shown later.
LEMMA PageRowStays ==
    ASSUME CallInv, Onward, NEW q \in Calls, ~At(q, "new"), NEW r, PageRow(q, r)
    PROVE  PageRow(q, r)'
<1>1. call'[q].kind = call[q].kind /\ call'[q].by = call[q].by /\ call'[q].after = call[q].after
  BY DEF Onward
<1>2. \A u : GoneBefore(u, q)' => GoneBefore(u, q)
  BY GoneShrinks
<1>3. ASSUME NEW s \in call[q].after PROVE Replaced(r, s)' => Replaced(r, s)
  <2>1. s \in Calls /\ Done(s)
    BY AfterIsDone
  <2>2. call'[s] = call[s]
    BY <2>1 DEF Onward, Done, At
  <2> QED
    BY <2>2 DEF Replaced, Served, Done, At, By
<1> QED
  BY <1>1, <1>2, <1>3 DEF PageRow, HomeOf, By

\* Who was saving meanwhile was.
LEMMA MeanwhileStays ==
    ASSUME CallInv, Onward, NEW q \in Calls, ~At(q, "new"), NEW p, SavedMeanwhile(p, q)
    PROVE  SavedMeanwhile(p, q)'
<1>1. PICK s \in Calls : /\ call[s].kind \in {"save", "saveAgenda"} /\ By(s) = p
                         /\ s \notin call[q].after /\ q \notin call[s].after
  BY DEF SavedMeanwhile
<1>2. ~At(s, "new")
  BY <1>1 DEF CallInv, At, NewCall
<1> QED
  BY <1>1, <1>2 DEF SavedMeanwhile, Onward, By

\* Who has what a seal takes has it until a save of theirs.
LEMMA EligibleStays ==
    ASSUME CallInv, SavesInv, [Next]_vars, NEW q \in Calls, InProgress(q), NEW p \in Providers, Eligible(p)
    PROVE  Eligible(p)' \/ SavedMeanwhile(p, q)
<1>0. bios \in [Providers -> Ids \cup {None}]
  BY DEF SavesInv, SavedRows
<1>1. CASE UNCHANGED saved
  BY <1>1 DEF saved, Eligible, Complete, OfP
<1>2. ASSUME NEW s \in Calls, SaveStep(s), Advance(s) PROVE Eligible(p)' \/ SavedMeanwhile(p, q)
  <2>1. CASE By(s) = p
    <3>1. call[s].kind \in {"save", "saveAgenda"}
      BY <1>2 DEF SaveStep, ValidateSlugs, LockProfile, CommitSave, FindSlots, DeleteSlots, InsertSlot,
         Inserting, CommitAgenda, Serving, ServingAt
    <3>2. s \notin call[q].after /\ q \notin call[s].after
      BY <1>2, AfterIsDone DEF Advance, InProgress, Done, At
    <3> QED
      BY <2>1, <3>1, <3>2 DEF SavedMeanwhile
  <2>2. CASE By(s) # p /\ CommitSave(s) /\ ~ UNCHANGED saved
    <3>1. PICK u, new, bio :
             /\ u = By(s) /\ \A r \in new : r.of = u
             /\ services' = (services \ call[s].page) \cup new /\ UNCHANGED agenda
             /\ bios' = [v \in Providers |-> IF v = u /\ bio THEN s ELSE bios[v]]
      <4> DEFINE slugs == IF call[s].arg.slugs = None THEN <<>> ELSE call[s].arg.slugs
                 new == {Row(By(s), "slug", c, s) : c \in Range(slugs)}
      <4>1. /\ services' = (services \ call[s].page) \cup new /\ UNCHANGED agenda
            /\ bios' = [v \in Providers |-> IF v = By(s) /\ call[s].arg.bio THEN s ELSE bios[v]]
        BY <2>2 DEF CommitSave, saved
      <4>2. \A r \in new : r.of = By(s)
        BY DEF Row
      <4> HIDE DEF new
      <4> QED
        BY <4>1, <4>2
    <3>2. \A r \in call[s].page : r.of = u
      BY <2>2, <3>1 DEF SavesInv, Held, CommitSave, ServingAt
    <3>3. OfP(services', p) = OfP(services, p)
      BY <2>2, <3>1, <3>2 DEF OfP
    <3>4. bios'[p] = bios[p]
      BY <2>2, <3>1
    <3> QED
      BY <3>1, <3>3, <3>4 DEF Eligible, Complete, OfP
  <2>3. CASE By(s) # p /\ CommitAgenda(s)
    <3>1. \A r \in call[s].page : r.of # p
      BY <2>3 DEF SavesInv, Held, CommitAgenda, ServingAt
    <3>2. agenda' = (agenda \ call[s].page) \cup Inserted(s) /\ Inserted(s) \subseteq call[s].page
      BY <2>3 DEF CommitAgenda, Inserted
    <3>3. OfP(agenda', p) = OfP(agenda, p)
      BY <3>1, <3>2 DEF OfP
    <3> QED
      BY <2>3, <3>3 DEF Eligible, Complete, OfP, CommitAgenda
  <2>4. CASE ~CommitSave(s) /\ ~CommitAgenda(s)
    BY <1>1, <1>2, <2>4 DEF SaveStep, ValidateSlugs, LockProfile, FindSlots, DeleteSlots, InsertSlot,
       profiles, saved
  <2> QED
    BY <1>1, <2>1, <2>2, <2>3, <2>4
<1> QED
  BY <1>1, <1>2, SavesAlone

\* The page of a call that is not served by the step.
LEMMA PageStays ==
    ASSUME CallInv, SavesInv, PagesInv, [Next]_vars, NEW p \in Calls, Untouched(p)
    PROVE  PageAsTold(p)'
<1>0. Onward /\ call'[p] = call[p] /\ PageAsTold(p)
  BY StepIsOnward DEF Untouched, PagesInv
<1>1. CASE At(p, "new")
  <2>1. call'[p].kind = "none" /\ call'[p].page = {}
    BY <1>0, <1>1 DEF CallInv, At, NewCall
  <2> QED
    BY <2>1 DEF PageAsTold, SubjectHere, FeaturedAsTold
<1>2. CASE ~At(p, "new")
  <2>1. \A r : PageRow(p, r) => PageRow(p, r)'
    BY <1>0, <1>2, PageRowStays
  <2>2. SubjectHere(p)'
    BY <1>0 DEF PageAsTold, SubjectHere, Subject, HomeOf, By
  <2>3. OnPage(p)' = OnPage(p)
    BY <1>0 DEF OnPage
  <2>4. \A u : SavedMeanwhile(u, p) => SavedMeanwhile(u, p)'
    BY <1>0, <1>2, MeanwhileStays
  <2>5. ASSUME call[p].kind = "featured", call[p].pc \in {"names", "facts"}, NEW u \in OnPage(p)
        PROVE  u \in Providers /\ (Eligible(u)' \/ SavedMeanwhile(u, p)')
    <3>1. u \in Providers /\ (Eligible(u) \/ SavedMeanwhile(u, p))
      BY <1>0, <2>5 DEF PageAsTold, FeaturedAsTold
    <3>2. InProgress(p)
      BY <2>5 DEF InProgress
    <3> QED
      BY <2>4, <3>1, <3>2, EligibleStays
  <2>6. FeaturedAsTold(p)'
    <3>1. call[p].kind = "featured" /\ Served(p, "featured") =>
             \A u \in OnPage(p) : \/ \E r \in call[p].page : r.of = u /\ r.part = "seal"
                                  \/ SavedMeanwhile(u, p)'
      BY <1>0, <2>4 DEF PageAsTold, FeaturedAsTold
    <3> QED
      BY <1>0, <2>3, <2>5, <3>1 DEF FeaturedAsTold, Served, Done, At
  <2> QED
    BY <1>0, <2>1, <2>2, <2>6 DEF PageAsTold
<1> QED
  BY <1>1, <1>2

\* A step of one page, by the rows that it adds.
LEMMA PageStepOf ==
    ASSUME CallInv, SavesInv, PagesInv, [Next]_vars, NEW q \in Calls, Advance(q), call[q].kind \in ReadKinds,
           \A r \in call'[q].page : r \in call[q].page \/ PageRow(q, r),
           SubjectHere(q)', FeaturedAsTold(q)'
    PROVE  PagesInv'
<1>1. ASSUME NEW p \in Calls \ {q} PROVE PageAsTold(p)'
  BY ServesOne, PageStays DEF Untouched
<1>2. ~At(q, "new")
  BY DEF Advance, InProgress, At
<1>3. \A r \in call'[q].page : PageRow(q, r)'
  BY <1>2, StepIsOnward, PageRowStays DEF PagesInv, PageAsTold
<1> QED
  BY <1>1, <1>3 DEF PagesInv, PageAsTold

\* What is true of a call that one of these steps serves.
LEMMA ReadFacts0 ==
    ASSUME CallInv, PagesInv, SavesInv, NEW q \in Calls, Advance(q), call[q].kind \in ReadKinds
    PROVE  /\ CallTypeOK /\ SavedRows /\ PageAsTold(q) /\ call[q].by \in Users
           /\ call'[q].kind = call[q].kind /\ call'[q].by = call[q].by /\ call'[q].on = call[q].on
           /\ call'[q].after = call[q].after /\ call[q].outcome = "none" /\ InProgress(q)
           /\ \A r \in call[q].page : PageRow(q, r)
           /\ Subject(q)' = Subject(q) /\ HomeOf(q)' = HomeOf(q)
  BY DEF CallInv, CallTypeOK, PagesInv, SavesInv, PageAsTold, Advance, Moved, InProgress, Subject, HomeOf, By

\* Providers are users, and no row that is in the tables has been replaced.
LEMMA ProvidersAreUsers == Providers \subseteq Users
  BY DEF Providers

\* A row as it stands in the tables may be shown on a page of its provider.
LEMMA TablesMayBeShown ==
    ASSUME CallInv, SavesInv, NEW q \in Calls, NEW r \in services \cup agenda, NEW part \in {"name", "slug", "slot"},
           r.part = "slug" => part \in {"name", "slug"}, r.part = "slot" => part = "slot",
           Home[r.of] = HomeOf(q)
    PROVE  PageRow(q, [r EXCEPT !.part = part])
<1>1. r.of \in Providers /\ r.of \in Users /\ r.part \in {"slug", "slot"}
      /\ (r.part = "slug" <=> r \in services) /\ (r.part = "slot" <=> r \in agenda)
      /\ r \in [of : Providers, part : {"slug", "slot"}, item : Categories \cup Slots, from : Ids]
  BY ProvidersAreUsers DEF SavesInv, SavedRows
<1>2. PICK t : t = [r EXCEPT !.part = part]
  OBVIOUS
<1>3. t.of = r.of /\ t.from = r.from /\ t.part = part
  BY <1>1, <1>2
<1>4. ASSUME NEW s \in call[q].after, Replaced(t, s) PROVE FALSE
  <2>1. s \in Calls /\ Gone(s)
    BY AfterIsDone DEF SavesInv
  <2>2. By(s) = r.of /\ r.from \in call[s].after \cup {0}
    BY <1>3, <1>4 DEF Replaced
  <2> QED
    BY <1>1, <1>3, <1>4, <2>1, <2>2 DEF Replaced, Gone
<1> QED
  BY <1>1, <1>2, <1>3, <1>4 DEF PageRow

\* The invariant is kept by the read of a profile.
LEMMA ProfileKeepsPages ==
    ASSUME CallInv, AccountsInv, SavesInv, PagesInv, [Next]_vars, NEW q \in Calls, Advance(q),
           call[q].kind \in ReadKinds, ReadProfile(q)
    PROVE  PagesInv'
<1>0. /\ CallTypeOK /\ SavedRows /\ call'[q].kind = call[q].kind
      /\ Subject(q)' = Subject(q) /\ HomeOf(q)' = HomeOf(q)
  BY ReadFacts0
<1>1. call[q].kind \in {"visit", "myPage"}
  BY DEF ReadProfile, Paging
<1>2. FeaturedAsTold(q)'
  BY <1>0, <1>1 DEF FeaturedAsTold
<1>3. CASE Finish(q, "notFound")
  <2>1. call'[q].pc = "done" /\ call'[q].page = call[q].page
    BY <1>0, <1>3, FinishMoves DEF Moved
  <2>2. SubjectHere(q)'
    BY <2>1 DEF SubjectHere
  <2> QED
    BY <1>2, <2>1, <2>2, PageStepOf
<1>4. CASE ~Finish(q, "notFound")
  <2>1. PICK p : p = Subject(q)
    OBVIOUS
  <2>2. /\ p \in Providers /\ Here(q, p) /\ ~Deleted(p)
        /\ Keep(q, "names", IF bios[p] = None THEN {} ELSE {Row(p, "bio", "bio", bios[p])})
    BY <1>4, <2>1 DEF ReadProfile
  <2>3. call'[q].page = IF bios[p] = None THEN {} ELSE {Row(p, "bio", "bio", bios[p])}
    BY <1>0, <2>2, KeepMoves DEF Moved
  <2>4. SubjectHere(q)'
    BY <1>0, <2>1, <2>2 DEF SubjectHere, Here
  <2>5. PageRow(q, Row(p, "bio", "bio", bios[p]))
    <3>1. PICK t : t = Row(p, "bio", "bio", bios[p])
      OBVIOUS
    <3>2. t.of = p /\ t.part = "bio" /\ t.from = bios[p]
      BY <3>1 DEF Row
    <3>3. p \in Users /\ Home[p] = HomeOf(q)
      BY <2>2 DEF Here
    <3>4. ~GoneBefore(p, q)
      BY <2>2, <3>3, GoneAreDeleted
    <3>5. ASSUME NEW s \in call[q].after, Replaced(t, s) PROVE FALSE
      <4>1. s \in Calls /\ Gone(s)
        BY AfterIsDone DEF SavesInv
      <4> QED
        BY <2>2, <3>2, <3>5, <4>1 DEF Replaced, Gone
    <3> QED
      BY <3>1, <3>2, <3>3, <3>4, <3>5 DEF PageRow
  <2> QED
    BY <1>2, <2>3, <2>4, <2>5, PageStepOf
<1> QED
  BY <1>3, <1>4

\* It is kept by the reads of what belongs to the profile.
LEMMA SliceKeepsPages ==
    ASSUME CallInv, SavesInv, PagesInv, [Next]_vars, NEW q \in Calls, Advance(q), call[q].kind \in ReadKinds,
           GetCategories(q) \/ GetCategorySlugs(q) \/ GetAvailability(q)
    PROVE  PagesInv'
<1>0. /\ CallTypeOK /\ SavedRows /\ call'[q].kind = call[q].kind /\ PageAsTold(q)
      /\ Subject(q)' = Subject(q) /\ HomeOf(q)' = HomeOf(q)
  BY ReadFacts0
<1>1. PICK phase, part, next, slice :
         /\ ReadSlice(q, phase, part, next, slice) /\ phase \in {"names", "slugs", "slots"}
         /\ part \in {"name", "slug", "slot"} /\ slice \subseteq services \cup agenda
         /\ \A r \in slice : (r.part = "slug" => part \in {"name", "slug"}) /\ (r.part = "slot" => part = "slot")
  BY <1>0 DEF GetCategories, GetCategorySlugs, GetAvailability, SavedRows
<1>2. call[q].kind \in {"visit", "myPage"} /\ call[q].pc = phase
  BY <1>1 DEF ReadSlice, Paging, At
<1>3. Subject(q) \in Providers /\ Home[Subject(q)] = HomeOf(q)
  BY <1>0, <1>1, <1>2 DEF PageAsTold, SubjectHere
<1>4. SubjectHere(q)' /\ FeaturedAsTold(q)'
  BY <1>0, <1>2, <1>3 DEF SubjectHere, FeaturedAsTold
<1>5. \A x \in Shown(OfP(slice, Subject(q)), part) : PageRow(q, x)
  <2>1. ASSUME NEW r \in slice, r.of = Subject(q) PROVE PageRow(q, [r EXCEPT !.part = part])
    BY <1>1, <1>3, <2>1, TablesMayBeShown
  <2> QED
    BY <2>1 DEF Shown, OfP
<1>6. PICK some \in SUBSET Shown(OfP(slice, Subject(q)), part) : call'[q].page = call[q].page \cup some
  <2>1. PICK some \in SUBSET Shown(OfP(slice, Subject(q)), part) : Keep(q, next, call[q].page \cup some)
    BY <1>1 DEF ReadSlice
  <2> QED
    BY <1>0, <2>1, KeepMoves DEF Moved
<1> QED
  BY <1>4, <1>5, <1>6, PageStepOf

\* A row that is about a page, not saved by anybody.
LEMMA RemarkMayBeShown ==
    ASSUME NEW q \in Calls, NEW p, p \in Users, Home[p] = HomeOf(q), NEW part, NEW item, NEW from,
           part \notin {"slot", "bio", "slug", "name"},
           part \in {"listed", "user"} => ~GoneBefore(p, q)
    PROVE  PageRow(q, Row(p, part, item, from))
<1>1. PICK t : t = Row(p, part, item, from)
  OBVIOUS
<1>2. t.of = p /\ t.part = part
  BY <1>1 DEF Row
<1> QED
  BY <1>1, <1>2 DEF PageRow, Replaced

\* It is kept by the read of what was counted.
LEMMA FactsKeepPages ==
    ASSUME CallInv, SavesInv, PagesInv, [Next]_vars, NEW q \in Calls, Advance(q), call[q].kind \in ReadKinds,
           ReadFacts(q)
    PROVE  PagesInv'
<1>0. /\ CallTypeOK /\ call'[q].kind = call[q].kind /\ PageAsTold(q)
      /\ Subject(q)' = Subject(q) /\ HomeOf(q)' = HomeOf(q)
  BY ReadFacts0
<1>1. call[q].kind \in {"visit", "myPage"} /\ call[q].pc = "facts"
  BY DEF ReadFacts, Paging, At
<1>2. PICK p : p = Subject(q)
  OBVIOUS
<1>3. p \in Providers /\ p \in Users /\ Home[p] = HomeOf(q)
  BY <1>0, <1>1, <1>2, ProvidersAreUsers DEF PageAsTold, SubjectHere
<1>4. PICK shown : /\ shown \subseteq {Row(p, "seal", "seal", 0), Row(p, "heart", "heart", 0)}
                   /\ Show(q, call[q].page \cup shown)
  BY <1>2 DEF ReadFacts, Seal
<1>5. call'[q].page = call[q].page \cup shown /\ call'[q].pc = "done"
  BY <1>0, <1>4, ShowMoves DEF Moved
<1>6. PageRow(q, Row(p, "seal", "seal", 0)) /\ PageRow(q, Row(p, "heart", "heart", 0))
  BY <1>3, RemarkMayBeShown
<1>7. SubjectHere(q)' /\ FeaturedAsTold(q)'
  BY <1>0, <1>1, <1>5 DEF SubjectHere, FeaturedAsTold
<1> QED
  BY <1>4, <1>5, <1>6, <1>7, PageStepOf

\* A page that ends, or is about none of these.
LEMMA OtherPage ==
    ASSUME CallInv, SavesInv, PagesInv, NEW q \in Calls, Advance(q), call[q].kind \in ReadKinds,
           call[q].kind \notin {"visit", "myPage"}, call[q].kind # "featured" \/ call'[q].page = {}
    PROVE  SubjectHere(q)' /\ FeaturedAsTold(q)'
<1>1. call'[q].kind = call[q].kind
  BY ReadFacts0
<1>2. call'[q].page = {} => OnPage(q)' = {}
  BY DEF OnPage
<1> QED
  BY <1>1, <1>2 DEF SubjectHere, FeaturedAsTold

\* It is kept by the search for providers.
LEMMA FindKeepsPages ==
    ASSUME CallInv, AccountsInv, SavesInv, PagesInv, [Next]_vars, NEW q \in Calls, Advance(q),
           call[q].kind \in ReadKinds, FindProviders(q)
    PROVE  PagesInv'
<1>0. /\ CallTypeOK /\ call'[q].kind = call[q].kind /\ call[q].outcome = "none" /\ InProgress(q)
  BY ReadFacts0
<1>1. call[q].kind \in {"search", "featured", "favorites"}
  BY DEF FindProviders, Listing
<1>2. PICK S, found : /\ S \subseteq Found(q) /\ found = {Row(p, "listed", "listed", 0) : p \in S}
                      /\ IF S = {} THEN Show(q, found) ELSE Keep(q, "names", found)
  <2>1. PICK S \in SUBSET Found(q) :
           LET found == {Row(p, "listed", "listed", 0) : p \in S}
           IN  IF S = {} THEN Show(q, found) ELSE Keep(q, "names", found)
    BY DEF FindProviders
  <2> DEFINE found == {Row(p, "listed", "listed", 0) : p \in S}
  <2>2. IF S = {} THEN Show(q, found) ELSE Keep(q, "names", found)
    BY <2>1
  <2> HIDE DEF found
  <2>3. found = {Row(p, "listed", "listed", 0) : p \in S}
    BY DEF found
  <2> QED
    BY <2>2, <2>3
<1>3. ASSUME NEW p \in S
      PROVE  /\ p \in Providers /\ p \in Users /\ Home[p] = HomeOf(q) /\ ~GoneBefore(p, q)
             /\ call[q].kind = "featured" => Eligible(p)
  <2>1. /\ p \in Providers /\ Here(q, p) /\ ~Deleted(p)
        /\ call[q].kind = "featured" => Eligible(p)
    BY <1>1, <1>2, <1>3 DEF Found, SearchResult, Listed, FavoritesOf
  <2> QED
    BY <2>1, GoneAreDeleted DEF Here
<1>4. call'[q].page = found /\ call'[q].pc \in {"names", "done"} /\ (call'[q].pc = "done" => S = {})
  BY <1>0, <1>2, ShowMoves, KeepMoves DEF Moved
<1>5. \A r \in found : PageRow(q, r)
  BY <1>2, <1>3, RemarkMayBeShown
<1>6. SubjectHere(q)'
  BY <1>0, <1>1 DEF SubjectHere
<1>7. FeaturedAsTold(q)'
  <2>1. OnPage(q)' = S
    <3>1. \A p : Row(p, "listed", "listed", 0).of = p
      BY DEF Row
    <3> QED
      BY <1>2, <1>4, <3>1 DEF OnPage
  <2>2. \A p \in S : call[q].kind = "featured" => Eligible(p)' \/ SavedMeanwhile(p, q)'
    <3>1. ~At(q, "new")
      BY <1>0 DEF InProgress, At
    <3> QED
      BY <1>0, <1>3, <3>1, EligibleStays, MeanwhileStays, StepIsOnward
  <2> QED
    BY <1>0, <1>3, <1>4, <2>1, <2>2 DEF FeaturedAsTold, Served, Done, At
<1> QED
  BY <1>4, <1>5, <1>6, <1>7, PageStepOf

\* What is added to a list is about those who are on it.
LEMMA ListGoesOn ==
    ASSUME CallInv, SavesInv, PagesInv, [Next]_vars, NEW q \in Calls, Advance(q), call[q].kind \in ReadKinds,
           call[q].pc \in {"names", "facts"}, NEW shown, call'[q].page = call[q].page \cup shown,
           \A r \in shown : r.of \in OnPage(q), call[q].kind = "featured",
           call'[q].pc # "done"
    PROVE  FeaturedAsTold(q)'
<1>0. call'[q].kind = call[q].kind /\ PageAsTold(q) /\ InProgress(q)
  BY ReadFacts0
<1>1. OnPage(q)' = OnPage(q)
  BY DEF OnPage
<1>2. ASSUME NEW p \in OnPage(q) PROVE p \in Providers /\ (Eligible(p)' \/ SavedMeanwhile(p, q)')
  <2>1. p \in Providers /\ (Eligible(p) \/ SavedMeanwhile(p, q))
    BY <1>0, <1>2 DEF PageAsTold, FeaturedAsTold
  <2>2. ~At(q, "new")
    BY <1>0 DEF InProgress, At
  <2> QED
    BY <1>0, <2>1, <2>2, EligibleStays, MeanwhileStays, StepIsOnward
<1> QED
  BY <1>0, <1>1, <1>2 DEF FeaturedAsTold, Served, Done, At

\* It is kept by the read of their categories.
LEMMA NamesKeepPages ==
    ASSUME CallInv, SavesInv, PagesInv, [Next]_vars, NEW q \in Calls, Advance(q),
           call[q].kind \in ReadKinds, AttachCategories(q)
    PROVE  PagesInv'
<1>0. /\ CallTypeOK /\ SavedRows /\ call'[q].kind = call[q].kind
      /\ \A r \in call[q].page : PageRow(q, r)
  BY ReadFacts0
<1>1. call[q].kind \in {"search", "featured", "favorites"} /\ call[q].pc = "names"
  BY DEF AttachCategories, Listing, At
<1>2. PICK shown : /\ shown = Shown(UNION {OfP(services, p) : p \in OnPage(q)}, "name")
                   /\ Keep(q, "facts", call[q].page \cup shown)
  BY DEF AttachCategories
<1>3. call'[q].page = call[q].page \cup shown /\ call'[q].pc = "facts"
  BY <1>0, <1>2, KeepMoves DEF Moved
<1>4. ASSUME NEW x \in shown PROVE PageRow(q, x) /\ x.of \in OnPage(q)
  <2>1. PICK r \in services : x = [r EXCEPT !.part = "name"] /\ r.of \in OnPage(q)
    BY <1>2, <1>4 DEF Shown, OfP
  <2>2. Home[r.of] = HomeOf(q)
    BY <1>0, <2>1 DEF OnPage, PageRow
  <2>3. r.part = "slug" /\ r \in [of : Providers, part : {"slug"}, item : Categories, from : Ids]
    BY <1>0 DEF SavedRows
  <2>4. PageRow(q, [r EXCEPT !.part = "name"])
    BY <2>2, <2>3, TablesMayBeShown
  <2>5. x.of = r.of
    BY <2>1, <2>3
  <2> QED
    BY <2>1, <2>4, <2>5
<1>5. SubjectHere(q)'
  BY <1>0, <1>1 DEF SubjectHere
<1>6. FeaturedAsTold(q)'
  <2>1. CASE call[q].kind = "featured"
    BY <1>1, <1>3, <1>4, <2>1, ListGoesOn
  <2>2. CASE call[q].kind # "featured"
    BY <1>0, <2>2 DEF FeaturedAsTold
  <2> QED
    BY <2>1, <2>2
<1> QED
  BY <1>3, <1>4, <1>5, <1>6, PageStepOf

\* It is kept by the read of their seals.
LEMMA SealsKeepPages ==
    ASSUME CallInv, SavesInv, PagesInv, [Next]_vars, NEW q \in Calls, Advance(q),
           call[q].kind \in ReadKinds, AttachSeals(q)
    PROVE  PagesInv'
<1>0. /\ CallTypeOK /\ SavedRows /\ call'[q].kind = call[q].kind /\ PageAsTold(q) /\ InProgress(q)
      /\ \A r \in call[q].page : PageRow(q, r)
  BY ReadFacts0
<1>1. call[q].kind \in {"search", "featured", "favorites"} /\ call[q].pc = "facts"
  BY DEF AttachSeals, Listing, At
<1>2. PICK shown : /\ shown = UNION {Seal(p) : p \in OnPage(q)}
                   /\ Show(q, call[q].page \cup shown)
  BY DEF AttachSeals
<1>3. call'[q].page = call[q].page \cup shown /\ call'[q].pc = "done"
  BY <1>0, <1>2, ShowMoves DEF Moved
<1>4. ASSUME NEW x \in shown PROVE PageRow(q, x) /\ x.of \in OnPage(q)
  <2>1. PICK p \in OnPage(q) : x = Row(p, "seal", "seal", 0)
    BY <1>2, <1>4 DEF Seal
  <2>2. p \in Users /\ Home[p] = HomeOf(q)
    BY <1>0, <2>1 DEF OnPage, PageRow
  <2>3. x.of = p
    BY <2>1 DEF Row
  <2> QED
    BY <2>1, <2>2, <2>3, RemarkMayBeShown
<1>5. SubjectHere(q)'
  BY <1>0, <1>1 DEF SubjectHere
<1>6. FeaturedAsTold(q)'
  <2>1. OnPage(q)' = OnPage(q)
    BY <1>3, <1>4 DEF OnPage
  <2>2. ASSUME NEW p \in OnPage(q), call[q].kind = "featured"
        PROVE  \/ \E r \in call'[q].page : r.of = p /\ r.part = "seal"
               \/ SavedMeanwhile(p, q)'
    <3>1. p \in Providers /\ (Eligible(p) \/ SavedMeanwhile(p, q))
      BY <1>0, <1>1, <2>2 DEF PageAsTold, FeaturedAsTold
    <3>2. CASE Eligible(p)
      <4>1. Row(p, "seal", "seal", 0) \in shown
        BY <1>2, <3>2, <2>2 DEF Seal, Eligible
      <4>2. Row(p, "seal", "seal", 0).of = p /\ Row(p, "seal", "seal", 0).part = "seal"
        BY DEF Row
      <4> QED
        BY <1>3, <4>1, <4>2
    <3>3. CASE SavedMeanwhile(p, q)
      <4>1. ~At(q, "new")
        BY <1>0 DEF InProgress, At
      <4> QED
        BY <3>3, <4>1, MeanwhileStays, StepIsOnward
    <3> QED
      BY <3>1, <3>2, <3>3
  <2> QED
    BY <1>0, <1>3, <2>1, <2>2 DEF FeaturedAsTold
<1> QED
  BY <1>3, <1>4, <1>5, <1>6, PageStepOf

\* It is kept by the reads in one statement, and by the favorites.
LEMMA PlainKeepsPages ==
    ASSUME CallInv, AccountsInv, SavesInv, PagesInv, [Next]_vars, NEW q \in Calls, Advance(q),
           call[q].kind \in ReadKinds,
           \/ MyRatingSummary(q) \/ ReadCounts(q) \/ ReadRank(q) \/ ListCategories(q)
           \/ ListProviderServices(q) \/ Stats(q) \/ Favorite(q) \/ Unfavorite(q)
    PROVE  PagesInv'
<1>0. /\ CallTypeOK /\ SavedRows /\ call'[q].kind = call[q].kind /\ call[q].by \in Users
  BY ReadFacts0
<1>a. call[q].kind \notin {"visit", "myPage", "featured", "search", "favorites"}
  BY DEF MyRatingSummary, ReadCounts, ReadRank, ListCategories, ListProviderServices, Stats, Favorite,
     Unfavorite, Serving, ServingAt
<1>b. SubjectHere(q)' /\ FeaturedAsTold(q)'
  BY <1>a, OtherPage
<1>1. CASE call'[q].page = call[q].page
  BY <1>1, <1>b, PageStepOf
<1>2. CASE MyRatingSummary(q) \/ Favorite(q) \/ Unfavorite(q)
  <2>1. call'[q].page = call[q].page
    BY <1>0, <1>2, FinishMoves, CommitMoves DEF MyRatingSummary, Favorite, Unfavorite, Moved
  <2> QED
    BY <1>1, <2>1
<1>3. CASE ReadCounts(q)
  <2>1. PICK counts : /\ \A x \in counts : \E type, i : x = Row(By(q), "count", type, i)
                      /\ Keep(q, "rank", counts) \/ Finish(q, "error")
    <3> DEFINE counts == {Row(By(q), "count", events[i].type, i) :
                             i \in {j \in DOMAIN events : events[j].of = By(q)}}
    <3>1. Keep(q, "rank", counts) \/ Finish(q, "error")
      BY <1>3 DEF ReadCounts
    <3>2. \A x \in counts : \E type, i : x = Row(By(q), "count", type, i)
      OBVIOUS
    <3> HIDE DEF counts
    <3> QED
      BY <3>1, <3>2
  <2>2. call'[q].page \in {counts, call[q].page}
    BY <1>0, <2>1, KeepMoves, FinishMoves DEF Moved
  <2>3. \A x \in counts : PageRow(q, x)
    <3>1. \A type, i : PageRow(q, Row(By(q), "count", type, i))
      BY <1>0, RemarkMayBeShown DEF HomeOf, By
    <3> QED
      BY <2>1, <3>1
  <2> QED
    BY <1>b, <2>2, <2>3, PageStepOf
<1>4. ASSUME NEW c, NEW p \in Offered(q, c)
      PROVE  PageRow(q, Row(p, "rival", c, 0)) /\ PageRow(q, Row(p, "counted", c, 0))
  <2>1. p \in Users /\ Home[p] = HomeOf(q)
    BY <1>4 DEF Offered, Here
  <2> QED
    BY <2>1, RemarkMayBeShown
<1>5. CASE ReadRank(q) /\ ~Show(q, call[q].page)
  <2>1. PICK c : Show(q, call[q].page \cup {Row(p, "rival", c, 0) : p \in Offered(q, c)})
    BY <1>5 DEF ReadRank
  <2>2. call'[q].page = call[q].page \cup {Row(p, "rival", c, 0) : p \in Offered(q, c)}
    BY <1>0, <2>1, ShowMoves DEF Moved
  <2> QED
    BY <1>4, <1>b, <2>2, PageStepOf
<1>6. CASE Show(q, call[q].page)
  <2>1. call'[q].page = call[q].page
    BY <1>0, <1>6, ShowMoves DEF Moved
  <2> QED
    BY <1>1, <2>1
<1>7. CASE ListCategories(q)
  <2>1. PICK counted : /\ \A x \in counted : \E c : \E p \in Offered(q, c) : x = Row(p, "counted", c, 0)
                       /\ Show(q, counted)
    <3> DEFINE counted == UNION {{Row(p, "counted", c, 0) : p \in Offered(q, c)} : c \in Categories}
    <3>1. Show(q, counted)
      BY <1>7 DEF ListCategories
    <3>2. \A x \in counted : \E c : \E p \in Offered(q, c) : x = Row(p, "counted", c, 0)
      OBVIOUS
    <3> HIDE DEF counted
    <3> QED
      BY <3>1, <3>2
  <2>2. call'[q].page = counted
    BY <1>0, <2>1, ShowMoves DEF Moved
  <2> QED
    BY <1>4, <1>b, <2>1, <2>2, PageStepOf
<1>8. ASSUME NEW r \in services, Here(q, r.of) PROVE PageRow(q, r)
  <2>1. r.part = "slug"
    BY <1>0 DEF SavedRows
  <2> QED
    BY <1>8, <1>a, <2>1 DEF PageRow, Here
<1>9. CASE ListProviderServices(q)
  <2>1. call'[q].page = {r \in services : Here(q, r.of)}
    BY <1>0, <1>9, ShowMoves DEF ListProviderServices, Moved
  <2> QED
    BY <1>8, <1>b, <2>1, PageStepOf
<1>10. CASE Stats(q)
  <2>1. PICK users, kept : /\ users = {Row(u, "user", Role[u], 0) : u \in {v \in Users : Here(q, v) /\ ~Deleted(v)}}
                           /\ kept = {r \in services : Here(q, r.of)}
    OBVIOUS
  <2>2. call'[q].page = users \cup kept
    BY <1>0, <1>10, <2>1, ShowMoves DEF Stats, Moved
  <2>3. \A x \in users : PageRow(q, x)
    <3>1. ASSUME NEW u \in Users, Here(q, u), ~Deleted(u) PROVE PageRow(q, Row(u, "user", Role[u], 0))
      BY <3>1, GoneAreDeleted, RemarkMayBeShown DEF Here
    <3> QED
      BY <2>1, <3>1
  <2> QED
    BY <1>8, <1>b, <2>1, <2>2, <2>3, PageStepOf
<1> QED
  BY <1>2, <1>3, <1>5, <1>6, <1>7, <1>9, <1>10

\* The invariant of the pages is kept by every step of the composition.
LEMMA PagesInvStep ==
    ASSUME CallInv, AccountsInv, SavesInv, PagesInv, [Next]_vars PROVE PagesInv'
<1>0. Onward /\ CallTypeOK
  BY StepIsOnward DEF CallInv
<1>1. ASSUME NEW q \in Calls, ReadStep(q), Advance(q), call[q].kind \in ReadKinds PROVE PagesInv'
  BY <1>1, ProfileKeepsPages, SliceKeepsPages, FactsKeepPages, FindKeepsPages, NamesKeepPages,
     SealsKeepPages, PlainKeepsPages DEF ReadStep
<1>2. CASE Elsewhere(ReadKinds)
  <2>1. ASSUME NEW p \in Calls PROVE PageAsTold(p)'
    <3>1. CASE call'[p].kind \notin ReadKinds
      BY <3>1 DEF PageAsTold, SubjectHere, FeaturedAsTold, ReadKinds, PageKinds, SaveKinds
    <3>2. CASE Untouched(p)
      BY <3>2, PageStays
    <3>3. CASE Failed(p)
      <4>1. ~At(p, "new") /\ PageAsTold(p)
        BY <3>3 DEF Failed, InProgress, At, PagesInv
      <4>2. \A r : PageRow(p, r) => PageRow(p, r)'
        BY <1>0, <4>1, PageRowStays
      <4> QED
        BY <3>3, <4>1, <4>2 DEF Failed, PageAsTold, SubjectHere, FeaturedAsTold, Served
    <3>4. CASE Begun(p)
      BY <3>4 DEF Begun, PageAsTold, SubjectHere, FeaturedAsTold, Served
    <3> QED
      BY <1>0, <1>2, <3>1, <3>2, <3>3, <3>4, OthersOf
  <2> QED
    BY <2>1 DEF PagesInv
<1> QED
  BY <1>1, <1>2, ReadsAlone

\* It is true at first.
LEMMA PagesInvInit == Init => PagesInv
  BY NoCallsYet DEF PagesInv, PageAsTold, SubjectHere, FeaturedAsTold

-----------------------------------------------------------------------------
(* What all of it shows of the pages.                                      *)

\* A save that was answered has replaced, in the tables and on later pages, what was
\* saved before it (service/provider.go:368-392, :597-636).
THEOREM SavesReplaceAlways == Spec => []SavesReplace
<1>1. ASSUME CallInv, SavesInv, PagesInv PROVE SavesReplace
  <2>1. SavedRows /\ \A q \in Calls : Gone(q)
    BY <1>1 DEF SavesInv
  <2>2. ASSUME NEW r \in services \cup agenda, NEW s \in Calls, Replaced(r, s) PROVE FALSE
    <3>1. /\ r \in services => r.part = "slug"
          /\ r \in agenda => r.part = "slot"
      BY <2>1 DEF SavedRows
    <3> QED
      BY <2>1, <2>2, <3>1 DEF Replaced, Gone
  <2>3. ASSUME NEW q \in Calls, call[q].kind \in {"visit", "myPage"},
               NEW r \in call[q].page, NEW s \in call[q].after
        PROVE  ~Replaced(r, s)
    BY <1>1, <2>3 DEF PagesInv, PageAsTold, PageRow, ReadKinds, PageKinds, SaveKinds
  <2> QED
    BY <2>1, <2>2, <2>3 DEF SavesReplace, SavedRows
<1> QED
  BY <1>1, CallInvInit, CallInvStep, AccountsInvInit, AccountsInvStep, SavesInvInit, SavesInvStep,
     PagesInvInit, PagesInvStep, PTL DEF Spec

\* Who is featured on the home page has the seal that it promises, unless saving
\* meanwhile (service/provider.go:118-119).
THEOREM FeaturedHaveSeals == Spec => []FeaturedHasSeal
<1>1. ASSUME PagesInv PROVE FeaturedHasSeal
  BY <1>1 DEF PagesInv, PageAsTold, FeaturedAsTold, FeaturedHasSeal, SavedMeanwhile, Served
<1> QED
  BY <1>1, CallInvInit, CallInvStep, AccountsInvInit, AccountsInvStep, SavesInvInit, SavesInvStep,
     PagesInvInit, PagesInvStep, PTL DEF Spec

\* Who was deleted before a page was asked for, and has not come back, is not on it
\* (docs/ciclo-de-vida-da-conta.md:163-165, service/provider.go, service/user.go).
THEOREM DeletedAreNotShown == Spec => []DeletedIsNotShown
<1>1. ASSUME AccountsInv, PagesInv PROVE DeletedIsNotShown
  <2>1. ASSUME NEW q \in Calls, call[q].kind \in ShowingKinds, NEW r \in call[q].page,
               r.part \in {"listed", "user", "bio"}
        PROVE  ~GoneBefore(r.of, q)
    BY <1>1, <2>1 DEF PagesInv, PageAsTold, PageRow, ShowingKinds, ReadKinds, PageKinds, SaveKinds
  <2>2. ASSUME NEW q \in Calls, call[q].kind = "users", call[q].arg # "deleted", NEW u \in call[q].page
        PROVE  ~GoneBefore(u, q)
    BY <1>1, <2>2 DEF AccountsInv, UsersAsTold, AccountsKinds
  <2> QED
    BY <2>1, <2>2 DEF DeletedIsNotShown, ShowingKinds
<1> QED
  BY <1>1, CallInvInit, CallInvStep, AccountsInvInit, AccountsInvStep, SavesInvInit, SavesInvStep,
     PagesInvInit, PagesInvStep, PTL DEF Spec

-----------------------------------------------------------------------------
(* Visits and favorites.                                                   *)

\* Whose page a call is a visit to, or whom it starts to talk to.
VisitRows ==
    /\ \A i \in recording \cup DOMAIN events :
          /\ call[i].kind \in {"visit", "chat"} /\ ~At(i, "new")
          /\ call[i].on \in Users /\ Home[call[i].on] = HomeOf(i)
    /\ \A i \in DOMAIN events : events[i].of = call[i].on

\* The invariant of the visits.
VisitsInv == VisitsTypeOK /\ VisitRows

\* Visits are recorded after a visit or a first contact alone.
LEMMA VisitsAlone ==
    ASSUME CallInv, [Next]_vars
    PROVE  \/ UNCHANGED visits
           \/ \E q \in Calls : RecordEvent(q)
           \/ \E q \in Calls : /\ GoRecord(q) /\ InProgress(q)
                               /\ \/ ReadFacts(q) /\ call[q].kind = "visit"
                                  \/ FindConversation(q) /\ Here(q, call[q].on)
                                  \/ InsertConversation(q)
<1>1. ASSUME NEW q \in Calls, ConversationsStep(q), ~ UNCHANGED visits
      PROVE  /\ GoRecord(q) /\ InProgress(q)
             /\ (FindConversation(q) /\ Here(q, call[q].on)) \/ InsertConversation(q)
  BY <1>1 DEF ConversationsStep, FindConversation, InsertConversation, ListConversations, ListMessages,
     MarkRead, PersistMessage, MessageStored, Refuse, Serving, ServingAt, InProgress, At
<1>2. ASSUME NEW q \in Calls, ProviderPageStep(q), ~ UNCHANGED visits
      PROVE  GoRecord(q) /\ InProgress(q) /\ ReadFacts(q) /\ call[q].kind = "visit"
  <2>1. CASE ReadFacts(q)
    BY <1>2, <2>1 DEF ReadFacts, Paging, InProgress, At
  <2>2. CASE SaveStep(q)
    BY <1>2, <2>2
    DEF SaveStep, ValidateSlugs, LockProfile, CommitSave, FindSlots, DeleteSlots, InsertSlot, CommitAgenda
  <2>3. CASE ReadProfile(q) \/ GetCategories(q) \/ GetCategorySlugs(q) \/ GetAvailability(q)
    BY <1>2, <2>3 DEF ReadProfile, GetCategories, GetCategorySlugs, GetAvailability, ReadSlice
  <2>4. CASE FindProviders(q) \/ AttachCategories(q) \/ AttachSeals(q) \/ MyRatingSummary(q)
    BY <1>2, <2>4 DEF FindProviders, AttachCategories, AttachSeals, MyRatingSummary
  <2>5. CASE \/ ReadCounts(q) \/ ReadRank(q) \/ ListCategories(q) \/ ListProviderServices(q) \/ Stats(q)
             \/ Favorite(q) \/ Unfavorite(q)
    BY <1>2, <2>5 DEF ReadCounts, ReadRank, ListCategories, ListProviderServices, Stats, Favorite, Unfavorite
  <2> QED
    BY <1>2, <2>1, <2>2, <2>3, <2>4, <2>5 DEF ProviderPageStep, SaveStep
<1> QED
  BY <1>1, <1>2, StepIsOneOf DEF StepCases, rows, AccountsStep, Record

\* The invariant of the visits is kept by every step of the composition.
LEMMA VisitsInvStep ==
    ASSUME CallInv, SavesInv, PagesInv, TalkInv, VisitsInv, [Next]_vars PROVE VisitsInv'
<1>0. Onward /\ VisitsTypeOK
  BY StepIsOnward DEF VisitsInv
<1>1. \A i \in recording \cup DOMAIN events :
         /\ i \in Calls /\ call[i].kind \in {"visit", "chat"} /\ ~At(i, "new")
         /\ call[i].on \in Users /\ Home[call[i].on] = HomeOf(i)
  BY DEF VisitsInv, VisitsTypeOK, VisitRows
<1>2. \A i \in Calls : ~At(i, "new") =>
         /\ ~At(i, "new")' /\ call'[i].kind = call[i].kind /\ call'[i].on = call[i].on
         /\ HomeOf(i)' = HomeOf(i)
  BY <1>0 DEF Onward, HomeOf, By
<1>3. CASE UNCHANGED visits
  <2>1. VisitsTypeOK'
    BY <1>0, <1>3 DEF VisitsTypeOK, visits
  <2>2. VisitRows'
    BY <1>1, <1>2, <1>3 DEF VisitRows, visits, VisitsInv
  <2> QED
    BY <2>1, <2>2 DEF VisitsInv
<1>4. ASSUME NEW q \in Calls, RecordEvent(q) PROVE VisitsInv'
  <2>1. PICK row : row = EventOf(q)
    OBVIOUS
  <2>2. q \in recording /\ recording' = recording \ {q} /\ (events' = events \/ events' = Put(events, q, row))
    BY <1>4, <2>1 DEF RecordEvent
  <2>3. row \in Event /\ row.of = call[q].on
    <3>1. call[q].by \in Users /\ call[q].on \in Users
      BY <1>1, <2>2 DEF CallInv, At
    <3> QED
      BY <2>1, <3>1 DEF EventOf, Event, By
  <2>4. /\ DOMAIN events' \subseteq DOMAIN events \cup {q}
        /\ \A i \in DOMAIN events' : (i \in DOMAIN events /\ events'[i] = events[i]) \/ (i = q /\ events'[i] = row)
    <3>1. CASE events' = events
      BY <3>1
    <3>2. CASE events' = Put(events, q, row)
      BY <3>2, Zenon DEF Put
    <3> QED
      BY <2>2, <3>1, <3>2
  <2>5. VisitsTypeOK'
    <3>1. recording' \subseteq Calls
      BY <1>0, <2>2 DEF VisitsTypeOK
    <3>2. DOMAIN events' \subseteq Calls
      BY <1>0, <2>4 DEF VisitsTypeOK
    <3>3. \A i \in DOMAIN events' : events'[i] \in Event
      BY <1>0, <2>3, <2>4 DEF VisitsTypeOK
    <3> QED
      BY <3>1, <3>2, <3>3 DEF VisitsTypeOK
  <2>6. \A i \in DOMAIN events' : events'[i].of = call'[i].on
    BY <1>1, <1>2, <2>2, <2>3, <2>4 DEF VisitsInv, VisitRows
  <2>7. VisitRows'
    BY <1>1, <1>2, <2>2, <2>4, <2>6 DEF VisitRows
  <2> QED
    BY <2>5, <2>7 DEF VisitsInv
<1>5. ASSUME NEW q \in Calls, GoRecord(q), InProgress(q),
             \/ ReadFacts(q) /\ call[q].kind = "visit"
             \/ FindConversation(q) /\ Here(q, call[q].on)
             \/ InsertConversation(q)
      PROVE  VisitsInv'
  <2>1. call[q].kind \in {"visit", "chat"} /\ call[q].on \in Users /\ Home[call[q].on] = HomeOf(q)
    <3>1. CASE ReadFacts(q) /\ call[q].kind = "visit"
      <4>1. SubjectHere(q) /\ call[q].pc = "facts"
        BY <3>1 DEF PagesInv, PageAsTold, ReadFacts, Paging, At
      <4> QED
        BY <3>1, <4>1, ProvidersAreUsers DEF SubjectHere, Subject
    <3>2. CASE FindConversation(q) /\ Here(q, call[q].on)
      BY <3>2 DEF FindConversation, Serving, Here
    <3>3. CASE InsertConversation(q)
      BY <3>3 DEF InsertConversation, ServingAt, TalkInv, TalkAsTold, ChatAsTold
    <3> QED
      BY <1>5, <3>1, <3>2, <3>3
  <2>2. recording' = recording \cup {q} /\ UNCHANGED events /\ ~At(q, "new")
    BY <1>5 DEF GoRecord, InProgress, At
  <2>3. VisitsTypeOK'
    BY <1>0, <2>2 DEF VisitsTypeOK
  <2>4. VisitRows'
    BY <1>1, <1>2, <2>1, <2>2 DEF VisitRows, VisitsInv
  <2> QED
    BY <2>3, <2>4 DEF VisitsInv
<1> QED
  BY <1>3, <1>4, <1>5, VisitsAlone

\* It is true at first.
LEMMA VisitsInvInit == Init => VisitsInv
  BY DEF Init, VisitsInit, VisitsInv, VisitsTypeOK, VisitRows

\* Favorites are providers of the community.
FavoritesInv ==
    /\ favorites \subseteq Users \X Providers
    /\ \A f \in favorites : Home[f[1]] = Home[f[2]]

\* It is kept by every step of the composition.
LEMMA FavoritesInvStep ==
    ASSUME CallInv, FavoritesInv, [Next]_vars PROVE FavoritesInv'
<1>1. CASE favorites' \subseteq favorites
  BY <1>1 DEF FavoritesInv
<1>2. ASSUME NEW q \in Calls, Favorite(q) PROVE FavoritesInv'
  <2>1. call[q].by \in Users
    BY <1>2 DEF CallInv, Favorite, Serving, At
  <2>2. PICK u, v : u = By(q) /\ v = call[q].on
    OBVIOUS
  <2>3. favorites' \subseteq favorites \/ (favorites' = favorites \cup {<<u, v>>} /\ v \in Providers /\ Here(q, v))
    BY <1>2, <2>2 DEF Favorite, WithFavorite
  <2> QED
    BY <1>1, <2>1, <2>2, <2>3 DEF FavoritesInv, Here, HomeOf, By
<1>3. ASSUME NEW q \in Calls, ProviderPageStep(q), ~Favorite(q) PROVE favorites' \subseteq favorites
  <2>1. CASE SaveStep(q)
    BY <2>1 DEF SaveStep, ValidateSlugs, LockProfile, CommitSave, FindSlots, DeleteSlots, InsertSlot,
       CommitAgenda, profiles
  <2>2. CASE ReadProfile(q) \/ GetCategories(q) \/ GetCategorySlugs(q) \/ GetAvailability(q) \/ ReadFacts(q)
    BY <2>2 DEF ReadProfile, GetCategories, GetCategorySlugs, GetAvailability, ReadSlice, ReadFacts, profiles
  <2>3. CASE FindProviders(q) \/ AttachCategories(q) \/ AttachSeals(q) \/ MyRatingSummary(q)
    BY <2>3 DEF FindProviders, AttachCategories, AttachSeals, MyRatingSummary, profiles
  <2>4. CASE ReadCounts(q) \/ ReadRank(q) \/ ListCategories(q) \/ ListProviderServices(q) \/ Stats(q)
    BY <2>4 DEF ReadCounts, ReadRank, ListCategories, ListProviderServices, Stats, profiles
  <2>5. CASE Unfavorite(q)
    BY <2>5 DEF Unfavorite
  <2> QED
    BY <1>3, <2>1, <2>2, <2>3, <2>4, <2>5 DEF ProviderPageStep, SaveStep
<1> QED
  BY <1>1, <1>2, <1>3, PageAlone DEF profiles

\* It is true at first.
LEMMA FavoritesInvInit == Init => FavoritesInv
  BY DEF Init, ProviderPageInit, FavoritesInv

-----------------------------------------------------------------------------
(* Calls that show nothing.                                                *)

\* A call that no module serves, or that is about a password, shows nothing.
BlankInv == \A q \in Calls : call[q].kind \notin AllKinds \ {"forgot", "enter"} => call[q].page = {}

\* It is kept by every step of the composition.
LEMMA BlankInvStep ==
    ASSUME CallInv, BlankInv, [Next]_vars PROVE BlankInv'
<1>0. CallTypeOK
  BY DEF CallInv
<1>1. ASSUME NEW q \in Calls, Advance(q), call[q].kind \in AllKinds \ {"forgot", "enter"} PROVE BlankInv'
  <2>1. call'[q].kind = call[q].kind
    BY <1>1 DEF Advance, Moved
  <2> QED
    BY <1>1, <2>1, ServesOne DEF BlankInv
<1>2. ASSUME NEW q \in Calls, PasswordResetStep(q), call[q].kind \in {"forgot", "enter"} PROVE BlankInv'
  <2>1. call'[q].page = call[q].page /\ call'[q].kind = call[q].kind
    BY <1>0, <1>2, FinishMoves
    DEF PasswordResetStep, RequestPasswordReset, CheckCode, WritePassword, MarkCodes, CommitReset, Enter,
        Serving, ServingAt, Moved
  <2> QED
    BY <1>0, <1>2, <2>1, PasswordResetAdvance, ServesOne DEF BlankInv
<1>3. ASSUME NEW q \in Calls, NEW c \in scene.calls, Arrive(q, c) PROVE BlankInv'
  BY <1>3, ArriveArrives DEF Arrived, BlankInv
<1>4. ASSUME NEW q \in Calls, Fault(q) PROVE BlankInv'
  BY <1>0, <1>4, FaultAdvances DEF Moved, BlankInv
<1>5. ASSUME NEW q \in Calls, Serve(q) PROVE BlankInv'
  <2>1. \/ NoticesStep(q) \/ RequestsStep(q) \/ QuestionsStep(q) \/ BulletinStep(q) \/ AccountsStep(q)
        \/ ProviderPageStep(q) \/ ConversationsStep(q) \/ PasswordResetStep(q)
    BY <1>5 DEF Serve, ServeBoards, ServeUsers
  <2>2. Advance(q) /\ call[q].kind \in AllKinds
    BY <1>0, <2>1, StepsAdvance DEF AllKinds
  <2>3. call[q].kind \in {"forgot", "enter"} => PasswordResetStep(q)
    BY <1>0, <2>1, StepsAdvance DEF NoticesKinds, RequestsKinds, QuestionsKinds, BulletinKinds,
       AccountsKinds, PageKinds, TalkKinds
  <2> QED
    BY <1>1, <1>2, <2>2, <2>3
<1>6. CASE call' = call
  BY <1>6 DEF BlankInv
<1>7. ASSUME NEW q \in Calls, Record(q) PROVE call' = call
  BY <1>7 DEF Record
<1>8. UNCHANGED vars => call' = call
  BY DEF vars
<1> QED
  BY <1>3, <1>4, <1>5, <1>6, <1>7, <1>8 DEF Next

\* It is true at first.
LEMMA BlankInvInit == Init => BlankInv
  BY NoCallsYet DEF BlankInv

-----------------------------------------------------------------------------
(* All of it together.                                                     *)

\* The invariant of the whole composition.
CommunityInv ==
    /\ CallInv /\ BulletinInv /\ ResetInv /\ TalkInv /\ BoardsInv
    /\ AccountsInv /\ SavesInv /\ PagesInv /\ VisitsInv /\ FavoritesInv /\ BlankInv

\* It is true at first.
LEMMA CommunityInvInit == Init => CommunityInv
  BY CallInvInit, BulletinInvInit, ResetInvInit, TalkInvInit, BoardsInvInit, AccountsInvInit, SavesInvInit,
     PagesInvInit, VisitsInvInit, FavoritesInvInit, BlankInvInit DEF CommunityInv

\* It is inductive: the parts that a part rests on are in it.
LEMMA CommunityInvStep == ASSUME CommunityInv, [Next]_vars PROVE CommunityInv'
  BY CallInvStep, BulletinInvStep, ResetInvStep, TalkInvStep, BoardsInvStep, AccountsInvStep, SavesInvStep,
     PagesInvStep, VisitsInvStep, FavoritesInvStep, BlankInvStep DEF CommunityInv

\* The invariant of the composition holds in every behaviour of the routes it composes.
THEOREM CommunityInvariant == Spec => []CommunityInv
  BY CommunityInvInit, CommunityInvStep, PTL DEF Spec

\* The tables and the calls have their types in every behaviour.
THEOREM TypeCorrect == Spec => []TypeOK
<1>1. ASSUME CommunityInv PROVE TypeOK
  <2>1. ProviderPageTypeOK
    BY <1>1 DEF CommunityInv, SavesInv, SavedRows, FavoritesInv, ProviderPageTypeOK
  <2> QED
    BY <1>1, <2>1 DEF CommunityInv, CallInv, AccountsInv, VisitsInv, BoardsInv, BoardRows, BulletinInv,
       ResetInv, TalkInv, TypeOK
<1> QED
  BY <1>1, CommunityInvariant, PTL

\* Whoever a page is from is of the community of whom it is shown to.
LEMMA PagesAreNear ==
    ASSUME CommunityInv, NEW q \in Calls, NEW x \in call[q].page
    PROVE  Home[From(q, x)] = Home[By(q)]
<1> DEFINE kind == call[q].kind
<1>1. CASE kind = "users"
  BY <1>1 DEF CommunityInv, AccountsInv, UsersAsTold, AccountsKinds, From, Here, HomeOf
<1>2. CASE kind = "history"
  <2>1. x \in MessagesIn(call[q].on) /\ call[q].on \in Mine(q)
    BY <1>2 DEF CommunityInv, TalkInv, TalkAsTold, HistoryAsTold
  <2>2. /\ messages[x].by \in conversations[call[q].on] /\ By(q) \in conversations[call[q].on]
        /\ call[q].on \in DOMAIN conversations
    BY <2>1 DEF CommunityInv, TalkInv, MessageRows, SentByOne, MessagesIn, Mine
  <2> QED
    BY <1>2, <2>2 DEF CommunityInv, TalkInv, ConversationRows, From
<1>3. CASE kind \in {"chat", "inbox", "reset"}
  BY <1>3 DEF From
<1>4. CASE kind \in BoardKinds
  <2>0. BoardRows /\ OnBoard(q, x)
    BY <1>4 DEF CommunityInv, BoardsInv, BoardAsTold
  <2>1. CASE kind \in {"notices", "unread"}
    <3>1. x \in Calls /\ Home[call[x].by] = Home[By(q)]
      BY <2>0, <2>1, RowIds DEF OnBoard, BoardRows, NoticeRows
    <3> QED
      BY <2>1, <3>1 DEF From, Author, By
  <2>2. CASE kind \in {"feed", "request"}
    <3>1. x \in DOMAIN requests /\ x \in Ids /\ Home[requests[x].by] = HomeOf(q)
      BY <2>0, <2>2, RowIds DEF OnBoard
    <3>2. requests[x].by = Author(x, OldRequester)
      BY <2>0, <3>1 DEF BoardRows, RequestRows, Author, By, Ids, Calls
    <3> QED
      BY <2>2, <3>1, <3>2 DEF From, HomeOf
  <2>3. CASE kind = "responses"
    <3>1. x \in Calls /\ responses[x].by = call[x].by /\ Home[responses[x].by] = HomeOf(q)
      BY <2>0, <2>3, RowIds DEF OnBoard, BoardRows, ResponseRows
    <3> QED
      BY <2>3, <3>1 DEF From, Author, HomeOf, By
  <2>4. CASE kind = "questions" /\ x \in DOMAIN questions
    <3>1. x \in Ids /\ Home[questions[x].by] = HomeOf(q)
      <4>1. x \in DOMAIN answers => x \notin DOMAIN questions
        BY <2>0, RowIds DEF BoardRows, AnswerRows, QuestionRows
      <4> QED
        BY <2>0, <2>4, <4>1, RowIds DEF OnBoard
    <3>2. questions[x].by = Author(x, OldAsker)
      BY <2>0, <2>4, <3>1 DEF BoardRows, QuestionRows, Author, By, Ids, Calls
    <3> QED
      BY <2>4, <3>1, <3>2 DEF From, HomeOf
  <2>5. CASE kind = "questions" /\ x \notin DOMAIN questions
    <3>1. x \in Calls /\ answers[x].by = call[x].by /\ Home[answers[x].by] = HomeOf(q)
      BY <2>0, <2>5, RowIds DEF OnBoard, BoardRows, AnswerRows
    <3> QED
      BY <2>5, <3>1 DEF From, Author, HomeOf, By
  <2> QED
    BY <2>0, <2>1, <2>2, <2>3, <2>4, <2>5 DEF OnBoard
<1>5. CASE kind \in BulletinKinds
  <2>0. BulletinTypeOK /\ PostRows /\ WallAsTold(q)
    BY DEF CommunityInv, BulletinInv
  <2>1. kind \in {"wall", "pending"} /\ x \in DOMAIN posts /\ x \in Ids /\ Home[posts[x].by] = HomeOf(q)
    BY <1>5, <2>0 DEF WallAsTold, BulletinTypeOK
  <2>2. posts[x].by = Author(x, OldPoster)
    BY <2>0, <2>1 DEF PostRows, Author, By, Ids, Calls
  <2> QED
    BY <2>1, <2>2 DEF From, HomeOf
<1>6. CASE kind \in PageKinds
  <2>1. From(q, x) = x.of
    BY <1>6 DEF From, PageKinds
  <2>2. CASE kind \in SaveKinds
    BY <2>1, <2>2 DEF CommunityInv, SavesInv, Held, SaveKinds
  <2>3. CASE kind \in ReadKinds
    BY <2>1, <2>3 DEF CommunityInv, PagesInv, PageAsTold, PageRow, HomeOf
  <2> QED
    BY <1>6, <2>2, <2>3 DEF ReadKinds
<1>7. CASE kind \in AccountsKinds \ {"users"}
  BY <1>7 DEF CommunityInv, AccountsInv, UsersAsTold
<1>8. CASE kind \in {"read", "say"}
  BY <1>8 DEF CommunityInv, TalkInv, TalkAsTold, NoPage
<1>9. CASE kind \notin AllKinds \ {"forgot", "enter"}
  BY <1>9 DEF CommunityInv, BlankInv
<1> QED
  BY <1>1, <1>2, <1>3, <1>4, <1>5, <1>6, <1>7, <1>8, <1>9 DEF AllKinds, BoardKinds, TalkKinds, ResetKinds

\* Whatever is stored, and whatever is shown, relates users of one community: no route
\* of those composed leaks a row of another (the community_id of the statements).
THEOREM CommunitiesStayApart == Spec => []CommunitiesApart
<1>1. ASSUME CommunityInv PROVE CommunitiesApart
  <2>1. BoardRows /\ DecidedHere /\ ConversationRows /\ VisitRows /\ VisitsTypeOK
    BY <1>1 DEF CommunityInv, BoardsInv, BulletinInv, TalkInv, VisitsInv
  <2>2. \A i \in DOMAIN responses : Home[responses[i].by] = Home[requests[responses[i].to].by]
    BY <2>1 DEF BoardRows, ResponseRows
  <2>3. \A i \in DOMAIN questions : Home[questions[i].by] = Home[questions[i].to]
    BY <2>1 DEF BoardRows, QuestionRows
  <2>4. \A i \in DOMAIN answers : Home[answers[i].by] = Home[questions[answers[i].to].by]
    BY <2>1 DEF BoardRows, AnswerRows
  <2>5. \A i \in Decided : Home[posts[i].by] = Home[posts[i].decidedBy]
    BY <2>1 DEF DecidedHere
  <2>6. \A i \in DOMAIN notices : Home[By(i)] = Home[notices[i].to]
    BY <2>1 DEF BoardRows, NoticeRows, By
  <2>7. \A f \in favorites : Home[f[1]] = Home[f[2]]
    BY <1>1 DEF CommunityInv, FavoritesInv
  <2>8. \A i \in DOMAIN events : Home[By(i)] = Home[events[i].of]
    BY <2>1 DEF VisitRows, HomeOf
  <2>9. \A i \in DOMAIN conversations : \A u, v \in conversations[i] : Home[u] = Home[v]
    BY <2>1 DEF ConversationRows
  <2>10. \A u \in Users : Deleted(u) => Home[u] = Home[accounts[u].deletedBy]
    BY <1>1 DEF CommunityInv, AccountsInv
  <2>11. \A q \in Calls : \A x \in call[q].page : Home[From(q, x)] = Home[By(q)]
    BY <1>1, PagesAreNear
  <2> QED
    BY <2>2, <2>3, <2>4, <2>5, <2>6, <2>7, <2>8, <2>9, <2>10, <2>11 DEF CommunitiesApart
<1> QED
  BY <1>1, CommunityInvariant, PTL

-----------------------------------------------------------------------------
(* Who waits.                                                              *)

\* The phases that a call of some kind goes through after its first statement.
Courses ==
    ({"respond", "ask"} \X {"telling"}) \cup ({"questions"} \X {"answers"})
      \cup ({"save"} \X {"valid", "locked"}) \cup ({"saveAgenda"} \X {"deleting", "inserting"})
      \cup ({"visit", "myPage"} \X {"names", "slugs", "slots", "facts"})
      \cup ({"search", "featured", "favorites"} \X {"names", "facts"})
      \cup ({"dashboard"} \X {"rank"}) \cup ({"chat"} \X {"absent"}) \cup ({"say"} \X {"inserting"})
      \cup ({"reset"} \X {"checked", "written", "marked"})

\* Some module has a statement for the call as it stands.
Handled(q) ==
    /\ call[q].kind \in AllKinds
    /\ At(q, "arrived") \/ <<call[q].kind, call[q].pc>> \in Courses

\* The statement of a call that waits for the row or the key of another.
Waits(q) ==
    \/ /\ ServingAt(q, "save", "valid") /\ By(q) \in Providers
       /\ \E p \in Calls : ServingAt(p, "save", "locked") /\ By(p) = By(q)
    \/ ServingAt(q, "saveAgenda", "deleting") /\ \E p \in Calls \ {q}, r \in call[q].page : Holds(p, r)
    \/ Inserting(q) /\ ~SlotTaken(q) /\ ~Circle(q) /\ \E p \in Calls : SlotWaits(q, p)
    \/ ServingAt(q, "reset", "checked") /\ RowLocked(By(q))

\* It can go on.
Ready(q) == Handled(q) /\ ~Waits(q)

\* A call that has arrived and has not been answered can be handled, and so it stays
\* if it goes on to one of these phases.
CourseInv == \A q \in Calls : InProgress(q) => Handled(q)
StaysOnCourse(q) == call'[q].pc = "done" \/ <<call[q].kind, call'[q].pc>> \in Courses

\* The ways to go on with a call, and where they lead.
LEMMA StaysBy ==
    ASSUME CallTypeOK, NEW q \in Calls,
           \/ \E phase : Goto(q, phase) /\ <<call[q].kind, phase>> \in Courses
           \/ \E phase, page : Keep(q, phase, page) /\ <<call[q].kind, phase>> \in Courses
           \/ \E outcome : Finish(q, outcome)
           \/ \E page : Show(q, page)
           \/ Committed(q)
    PROVE  StaysOnCourse(q)
<1>1. ASSUME NEW phase, NEW outcome, NEW page, Moved(q, phase, outcome, page),
             phase = "done" \/ <<call[q].kind, phase>> \in Courses
      PROVE  StaysOnCourse(q)
  BY <1>1 DEF StaysOnCourse, Moved
<1>2. ASSUME NEW phase, Goto(q, phase), <<call[q].kind, phase>> \in Courses
      PROVE  StaysOnCourse(q)
  BY <1>1, <1>2, GotoMoves
<1>3. ASSUME NEW phase, NEW page, Keep(q, phase, page), <<call[q].kind, phase>> \in Courses
      PROVE  StaysOnCourse(q)
  BY <1>1, <1>3, KeepMoves
<1>4. ASSUME NEW outcome, Finish(q, outcome) PROVE StaysOnCourse(q)
  BY <1>1, <1>4, FinishMoves
<1>5. ASSUME NEW page, Show(q, page) PROVE StaysOnCourse(q)
  BY <1>1, <1>5, ShowMoves
<1>6. ASSUME Committed(q) PROVE StaysOnCourse(q)
  BY <1>1, <1>6, CommitMoves
<1> QED
  BY <1>2, <1>3, <1>4, <1>5, <1>6

\* What people write to one another in public stays on course.
LEMMA BoardsStayOnCourse ==
    ASSUME CallTypeOK, NEW q \in Calls,
           NoticesStep(q) \/ RequestsStep(q) \/ QuestionsStep(q) \/ BulletinStep(q)
    PROVE  StaysOnCourse(q)
<1> USE DEF Serving, ServingAt
<1>1. CASE NoticesStep(q) \/ BulletinStep(q)
  BY <1>1, StaysBy
  DEF NoticesStep, ListNotices, UnreadCount, MarkAllRead,
      BulletinStep, CreatePost, ListApproved, ListPending, Review
<1>2. CASE RequestsStep(q)
  <2>1. CASE Respond(q) \/ TellRequester(q)
    BY <2>1, StaysBy DEF Respond, TellRequester, NotifyOrNot, Courses
  <2>2. CASE ~(Respond(q) \/ TellRequester(q))
    BY <1>2, <2>2, StaysBy
    DEF RequestsStep, Feed, Publish, GetRequest, UpdateStatus, RefuseResponse, ListResponses
  <2> QED
    BY <2>1, <2>2
<1>3. CASE QuestionsStep(q)
  <2>1. CASE Ask(q) \/ TellProvider(q)
    BY <2>1, StaysBy DEF Ask, TellProvider, NotifyOrNot, Courses
  <2>2. CASE ReadQuestions(q)
    BY <2>2, StaysBy DEF ReadQuestions, Courses
  <2>3. CASE ReadAnswers(q) \/ Answer(q)
    BY <2>3, StaysBy DEF ReadAnswers, Answer
  <2> QED
    BY <1>3, <2>1, <2>2, <2>3 DEF QuestionsStep, ListQuestions
<1> QED
  BY <1>1, <1>2, <1>3

\* So do saves and the pages that show them.
LEMMA PagesStayOnCourse ==
    ASSUME CallTypeOK, NEW q \in Calls, ProviderPageStep(q)
    PROVE  StaysOnCourse(q)
<1> USE DEF Serving, ServingAt
<1>1. CASE ValidateSlugs(q) \/ LockProfile(q) \/ CommitSave(q)
  BY <1>1, StaysBy DEF ValidateSlugs, LockProfile, CommitSave, Courses
<1>2. CASE FindSlots(q) \/ DeleteSlots(q) \/ InsertSlot(q) \/ CommitAgenda(q)
  BY <1>2, StaysBy DEF FindSlots, DeleteSlots, InsertSlot, CommitAgenda, Inserting, Courses
<1>3. CASE ReadProfile(q)
  BY <1>3, StaysBy DEF ReadProfile, Paging, Courses
<1>4. ASSUME NEW phase, NEW part, NEW next \in {"slugs", "slots", "facts"}, NEW table,
             ReadSlice(q, phase, part, next, table)
      PROVE  StaysOnCourse(q)
  BY <1>4, StaysBy DEF ReadSlice, Paging, Courses
<1>5. CASE GetCategories(q) \/ GetCategorySlugs(q) \/ GetAvailability(q)
  BY <1>4, <1>5 DEF GetCategories, GetCategorySlugs, GetAvailability
<1>6. CASE ReadFacts(q)
  <2>1. \E page : Show(q, page)
    BY <1>6 DEF ReadFacts
  <2> QED
    BY <2>1, StaysBy
<1>7. CASE FindProviders(q)
  <2>1. \E page : Show(q, page) \/ Keep(q, "names", page)
    BY <1>7 DEF FindProviders
  <2>2. <<call[q].kind, "names">> \in Courses
    BY <1>7 DEF FindProviders, Listing, Courses
  <2> QED
    BY <2>1, <2>2, StaysBy
<1>8. CASE AttachCategories(q)
  BY <1>8, StaysBy DEF AttachCategories, Listing, Courses
<1>9. CASE AttachSeals(q) \/ ReadRank(q) \/ ListCategories(q) \/ ListProviderServices(q) \/ Stats(q)
  <2>1. \E page : Show(q, page)
    BY <1>9 DEF AttachSeals, ReadRank, ListCategories, ListProviderServices, Stats
  <2> QED
    BY <2>1, StaysBy
<1>10. CASE MyRatingSummary(q) \/ Favorite(q) \/ Unfavorite(q)
  BY <1>10, StaysBy DEF MyRatingSummary, Favorite, Unfavorite
<1>11. CASE ReadCounts(q)
  BY <1>11, StaysBy DEF ReadCounts, Courses
<1> QED
  BY <1>1, <1>2, <1>3, <1>5, <1>6, <1>7, <1>8, <1>9, <1>10, <1>11 DEF ProviderPageStep

\* So do accounts, conversations and password resets.
LEMMA UsersStayOnCourse ==
    ASSUME CallTypeOK, NEW q \in Calls,
           AccountsStep(q) \/ ConversationsStep(q) \/ PasswordResetStep(q)
    PROVE  StaysOnCourse(q)
<1> USE DEF Serving, ServingAt
<1>1. CASE AccountsStep(q)
  BY <1>1, StaysBy DEF AccountsStep, Leave, Remove, ComeBack, UpdateUserStatus, ListUsers
<1>2. CASE ConversationsStep(q)
  <2>1. CASE FindConversation(q) \/ InsertConversation(q)
    BY <2>1, StaysBy DEF FindConversation, InsertConversation, Courses
  <2>2. CASE ListConversations(q) \/ ListMessages(q) \/ MarkRead(q)
    BY <2>2, StaysBy DEF ListConversations, ListMessages, MarkRead, Refuse
  <2>3. CASE PersistMessage(q) \/ MessageStored(q)
    BY <2>3, StaysBy DEF PersistMessage, MessageStored, Courses
  <2> QED
    BY <1>2, <2>1, <2>2, <2>3 DEF ConversationsStep
<1>3. CASE PasswordResetStep(q)
  <2>1. CASE CheckCode(q) \/ WritePassword(q) \/ MarkCodes(q)
    BY <2>1, StaysBy DEF CheckCode, WritePassword, MarkCodes, Courses
  <2>2. CASE RequestPasswordReset(q) \/ CommitReset(q) \/ Enter(q)
    BY <2>2, StaysBy DEF RequestPasswordReset, CommitReset, Enter
  <2> QED
    BY <1>3, <2>1, <2>2 DEF PasswordResetStep
<1> QED
  BY <1>1, <1>2, <1>3

\* Every step of the composition leaves every call where it can be handled, if clients
\* make no calls but those that the modules serve.
LEMMA CourseInvStep ==
    ASSUME \A c \in ClientCalls : c.kind \in AllKinds,
           CallInv, CourseInv, [Next]_vars
    PROVE  CourseInv'
<1>0. CallTypeOK /\ scene \in Scenes
  BY DEF CallInv, CallTypeOK
<1>1. ASSUME UNCHANGED call PROVE CourseInv'
  BY <1>1 DEF CourseInv, InProgress, Handled, At
<1>2. ASSUME NEW q \in Calls, NEW c \in scene.calls, Arrived(q, c) PROVE CourseInv'
  <2>1. c.kind \in AllKinds
    BY <1>0, <1>2 DEF ClientCalls
  <2> QED
    BY <1>2, <2>1 DEF Arrived, CourseInv, InProgress, Handled, At
<1>3. ASSUME NEW q \in Calls, Fails(q) PROVE CourseInv'
  BY <1>3 DEF Fails, Moved, CourseInv, InProgress, Handled, At
<1>4. ASSUME NEW q \in Calls, Advance(q), StaysOnCourse(q) PROVE CourseInv'
  <2>1. Handled(q) /\ call'[q].kind = call[q].kind
    BY <1>4 DEF CourseInv, Advance, Moved
  <2>2. \A p \in Calls \ {q} : call'[p] = call[p]
    BY <1>4, ServesOne
  <2>3. InProgress(q)' => Handled(q)'
    BY <1>4, <2>1 DEF StaysOnCourse, InProgress, Handled, At
  <2>4. \A p \in Calls \ {q} : InProgress(p)' => Handled(p)'
    BY <2>2 DEF CourseInv, InProgress, Handled, At
  <2> QED
    BY <2>3, <2>4 DEF CourseInv
<1>5. ASSUME NEW q \in Calls,
             \/ NoticesStep(q) \/ RequestsStep(q) \/ QuestionsStep(q) \/ BulletinStep(q)
             \/ AccountsStep(q) \/ ProviderPageStep(q) \/ ConversationsStep(q) \/ PasswordResetStep(q)
      PROVE  CourseInv'
  <2>1. Advance(q)
    BY <1>0, <1>5, StepsAdvance
  <2>2. StaysOnCourse(q)
    BY <1>0, <1>5, BoardsStayOnCourse, PagesStayOnCourse, UsersStayOnCourse
  <2> QED
    BY <1>4, <2>1, <2>2
<1>6. ASSUME Elsewhere(AllKinds) PROVE CourseInv'
  <2>1. ASSUME NEW q \in Calls, Advance(q), call[q].kind \notin AllKinds PROVE CourseInv'
    BY <2>1 DEF CourseInv, Advance, Handled
  <2> QED
    BY <1>1, <1>2, <1>3, <1>6, <2>1 DEF Elsewhere
<1> QED
  BY <1>1, <1>5, <1>6, StepIsOneOf DEF StepCases, Record

\* Saves of an agenda that all wait for one another have a circle among them: a smallest
\* set of them has nobody for whom nobody waits.
LEMMA WaitingSavesHaveACircle ==
    ASSUME NEW W \in SUBSET Calls, W # {}, \A p \in W : \E r \in W : SlotWaits(p, r)
    PROVE  \E q \in W : Circle(q)
<1> DEFINE B == {S \in SUBSET W : S # {} /\ \A p \in S : \E r \in S : SlotWaits(p, r)}
<1>1. IsFiniteSet(W)
  <2>1. W \subseteq Ids
    BY CallsAreIds
  <2> QED
    BY <2>1, FiniteIds
<1>2. PICK T \in B : \A U \in B : U \subseteq T => U = T
  <2>1. FiniteSubsetsOf(W) = SUBSET W
    BY <1>1, FS_FiniteSubsetsOfFinite
  <2>2. IsWellFoundedOn(StrictSubsetOrdering(W), SUBSET W)
    BY <1>1, <2>1, FS_StrictSubsetOrderingWellFounded
  <2>3. B \in SUBSET SUBSET W /\ W \in B
    OBVIOUS
  <2> HIDE DEF B
  <2>4. PICK T \in B : \A U \in B : ~(<<U, T>> \in StrictSubsetOrdering(W))
    BY <2>2, <2>3, WFMin
  <2> QED
    BY <2>3, <2>4 DEF StrictSubsetOrdering
<1>3. T \in SUBSET W /\ T # {} /\ \A p \in T : \E r \in T : SlotWaits(p, r)
  BY <1>2
<1>4. \A p \in T : \E r \in T : SlotWaits(r, p)
  <2> SUFFICES ASSUME NEW p \in T, \A r \in T : ~SlotWaits(r, p) PROVE FALSE
    OBVIOUS
  <2>1. PICK r \in T : SlotWaits(p, r)
    BY <1>3
  <2>2. r # p
    BY <2>1
  <2>3. T \ {p} \in B
    BY <1>3, <2>1, <2>2
  <2> QED
    BY <1>2, <2>3
<1>5. PICK q \in T : TRUE
  BY <1>3
<1> QED
  BY <1>3, <1>4, <1>5 DEF Circle

\* If nobody can go on, the saves of an agenda that insert wait for one another.
LEMMA SomebodyGoesOn ==
    ASSUME CourseInv, NEW q \in Calls, InProgress(q), \A p \in Calls : ~Ready(p)
    PROVE  FALSE
<1>1. \A p \in Calls : InProgress(p) => Waits(p)
  BY DEF CourseInv, Ready
<1>2. \A p \in Calls : ~ServingAt(p, "save", "locked")
  BY <1>1 DEF Waits, Inserting, ServingAt, At, InProgress
<1>3. \A p \in Calls : ~(call[p].kind = "reset" /\ call[p].pc \in {"written", "marked"})
  BY <1>1 DEF Waits, Inserting, ServingAt, At, InProgress
<1>4. ASSUME NEW p \in Calls, call[p].pc \in {"locked", "inserting"}
      PROVE  Inserting(p) /\ ~Circle(p) /\ \E r \in Calls : SlotWaits(p, r)
  <2>1. Waits(p)
    BY <1>1, <1>4 DEF InProgress
  <2> QED
    BY <1>4, <2>1 DEF Waits, ServingAt, At
<1> DEFINE W == {p \in Calls : call[p].pc \in {"locked", "inserting"}}
<1>5. \A p \in W : \E r \in W : SlotWaits(p, r)
  BY <1>4 DEF SlotWaits, Holds
<1>6. W = {}
  <2>1. W \in SUBSET Calls /\ \A p \in W : ~Circle(p)
    BY <1>4
  <2> HIDE DEF W
  <2> QED
    BY <1>5, <2>1, WaitingSavesHaveACircle
<1>7. \A p \in Calls : \A r : ~Holds(p, r)
  BY <1>6 DEF Holds
<1>8. Waits(q)
  BY <1>1
<1> QED
  BY <1>2, <1>3, <1>4, <1>6, <1>7, <1>8 DEF Waits, RowLocked, Inserting, ServingAt, At

\* While a call is in progress one can go on: no handler ends up where it has no
\* statement left, and of those who wait for the rows and keys of others (two saves of
\* a profile, of an agenda, two resets of a password) somebody is released, if only by
\* the deadlock detector (service/provider.go:368-392, :597-636, service/auth.go:501-523).
THEOREM NobodyWaitsForEver ==
    ASSUME \A c \in ClientCalls : c.kind \in AllKinds
    PROVE  Spec => []((\E q \in Calls : InProgress(q)) => \E q \in Calls : Ready(q))
<1>1. Init => CourseInv
  BY NoCallsYet DEF CourseInv, InProgress, Init
<1>2. CourseInv => ((\E q \in Calls : InProgress(q)) => \E q \in Calls : Ready(q))
  BY SomebodyGoesOn
<1>3. CallInv /\ CourseInv /\ [Next]_vars => CourseInv'
  BY CourseInvStep
<1> QED
  BY <1>1, <1>2, <1>3, CallInvInit, CallInvStep, PTL DEF Spec

-----------------------------------------------------------------------------
(* What is left to do after a call's own statement.                        *)

\* If nothing fails, who has written a response is about to tell the requester of it,
\* or has.
TellingInHand ==
    ~scene.faults =>
        \A i \in DOMAIN responses : i \in DOMAIN notices \/ ServingAt(i, "respond", "telling")

\* If nothing fails, a visit that was answered is counted, or is about to be: it is to
\* the page of a provider.
CountingInHand ==
    ~scene.faults => \A q \in Calls : Served(q, "visit") => q \in recording \cup DOMAIN events
ProvidersAreVisited == \A i \in recording : call[i].kind = "visit" => call[i].on \in Providers

AftermathInv == TellingInHand /\ CountingInHand /\ ProvidersAreVisited

\* Put adds a row.
LEMMA PutAdds == ASSUME NEW f, NEW x, NEW v PROVE DOMAIN Put(f, x, v) = DOMAIN f \cup {x}
  BY DEF Put

\* A response waits to be told of until it is.
LEMMA TellingStep ==
    ASSUME CallInv, BoardsInv, TellingInHand, [Next]_vars PROVE TellingInHand'
<1> SUFFICES ASSUME ~scene.faults PROVE TellingInHand'
  BY StepIsOneOf DEF TellingInHand
<1>0. CallTypeOK /\ UNCHANGED scene
  BY StepIsOneOf DEF CallInv
<1>1. DOMAIN responses \subseteq Calls
  BY RowIds DEF BoardsInv
<1>2. ASSUME NEW q \in Calls, Advance(q), ~ServingAt(q, "respond", "telling"), UNCHANGED responses,
             DOMAIN notices \subseteq DOMAIN notices'
      PROVE  TellingInHand'
  <2>1. \A p \in Calls \ {q} : call'[p] = call[p]
    BY <1>2, ServesOne
  <2> QED
    BY <1>0, <1>1, <1>2, <2>1 DEF TellingInHand, ServingAt, At
<1>3. ASSUME NEW q \in Calls, NoticesStep(q), UNCHANGED responses PROVE TellingInHand'
  <2>1. Advance(q) /\ call[q].kind \in NoticesKinds
    BY <1>0, <1>3, NoticesAdvance
  <2>2. DOMAIN notices' = DOMAIN notices
    BY <1>3 DEF NoticesStep, ListNotices, UnreadCount, MarkAllRead
  <2> QED
    BY <1>2, <1>3, <2>1, <2>2 DEF ServingAt, NoticesKinds
<1>4. ASSUME NEW q \in Calls, QuestionsStep(q), UNCHANGED responses PROVE TellingInHand'
  <2>1. Advance(q) /\ call[q].kind \in QuestionsKinds
    BY <1>0, <1>4, QuestionsAdvance
  <2>2. DOMAIN notices \subseteq DOMAIN notices'
    <3>1. CASE TellProvider(q)
      <4>1. UNCHANGED notices \/ \E v : notices' = Put(notices, q, v)
        BY <3>1 DEF TellProvider, NotifyOrNot, Notify
      <4>2. ASSUME NEW v, notices' = Put(notices, q, v) PROVE DOMAIN notices \subseteq DOMAIN notices'
        <5>1. DOMAIN notices' = DOMAIN notices \cup {q}
          BY <4>2, PutAdds
        <5> QED
          BY <5>1
      <4> QED
        BY <4>1, <4>2
    <3>2. CASE Ask(q) \/ ListQuestions(q) \/ Answer(q)
      <4>1. UNCHANGED notices
        BY <3>2 DEF Ask, ListQuestions, ReadQuestions, ReadAnswers, Answer
      <4> QED
        BY <4>1
    <3> QED
      BY <1>4, <3>1, <3>2 DEF QuestionsStep
  <2> QED
    BY <1>2, <1>4, <2>1, <2>2 DEF ServingAt, QuestionsKinds
<1>5. ASSUME NEW q \in Calls, RequestsStep(q) PROVE TellingInHand'
  <2>1. Advance(q) /\ \A p \in Calls \ {q} : call'[p] = call[p]
    BY <1>0, <1>5, RequestsAdvance, ServesOne
  <2>2. CASE Respond(q)
    <3>1. DOMAIN responses' = DOMAIN responses \cup {q} /\ UNCHANGED notices
      BY <2>2, PutAdds DEF Respond
    <3>2. Goto(q, "telling") /\ call[q].kind = "respond"
      BY <2>2 DEF Respond, Serving
    <3>3. ServingAt(q, "respond", "telling")'
      BY <1>0, <3>2, GotoMoves DEF Moved, ServingAt, At
    <3> QED
      BY <1>1, <2>1, <3>1, <3>3 DEF TellingInHand, ServingAt, At
  <2>3. CASE TellRequester(q)
    <3>1. UNCHANGED responses /\ \E v : notices' = Put(notices, q, v)
      BY <2>3 DEF TellRequester, NotifyOrNot, Notify
    <3>2. DOMAIN notices' = DOMAIN notices \cup {q}
      BY <3>1, PutAdds
    <3> QED
      BY <1>1, <2>1, <3>1, <3>2 DEF TellingInHand, ServingAt, At
  <2>4. CASE ~Respond(q) /\ ~TellRequester(q)
    <3>1. UNCHANGED <<responses, notices>> /\ At(q, "arrived")
      BY <1>5, <2>4 DEF RequestsStep, Feed, Publish, GetRequest, UpdateStatus, RefuseResponse,
                        ListResponses, Serving
    <3> QED
      BY <1>2, <2>1, <3>1 DEF ServingAt, At
  <2> QED
    BY <2>2, <2>3, <2>4
<1>6. ASSUME Elsewhere(BoardKinds), UNCHANGED <<responses, notices>> PROVE TellingInHand'
  <2>1. ASSUME NEW i \in Calls, ServingAt(i, "respond", "telling")
        PROVE  call'[i] = call[i]
    BY <1>0, <1>6, <2>1, OthersStay
    DEF Fails, Arrived, ServingAt, At, BoardKinds, RequestsKinds
  <2> QED
    BY <1>0, <1>1, <1>6, <2>1 DEF TellingInHand, ServingAt, At
<1> QED
  BY <1>3, <1>4, <1>5, <1>6, BoardsAlone

\* Only the last statement of a visit answers it well, and it starts the count.
LEMMA VisitsAreServed ==
    ASSUME CallInv, [Next]_vars, NEW q \in Calls, Served(q, "visit")'
    PROVE  Served(q, "visit") \/ (GoRecord(q) /\ InProgress(q))
<1>0. CallTypeOK
  BY DEF CallInv
<1>1. CASE call'[q] = call[q]
  BY <1>1 DEF Served, Done, At
<1>2. CASE Fails(q)
  BY <1>2, CheckFailures DEF Fails, Moved, Served
<1>3. ASSUME NEW c, Arrived(q, c) PROVE FALSE
  BY <1>3 DEF Arrived, Served, Done, At
<1>4. CASE ProviderPageStep(q) /\ call[q].kind = "visit"
  <2>1. CASE ReadFacts(q)
    BY <1>4, <2>1 DEF ReadFacts, Paging, InProgress, At
  <2>2. CASE ReadProfile(q)
    <3>1. (\E page : Keep(q, "names", page)) \/ Finish(q, "notFound")
      BY <2>2 DEF ReadProfile
    <3> QED
      BY <1>0, <3>1, KeepMoves, FinishMoves DEF Moved, Served, Done, At
  <2>3. CASE GetCategories(q) \/ GetCategorySlugs(q) \/ GetAvailability(q)
    <3>1. \E phase \in {"slugs", "slots", "facts"} : Goto(q, phase) \/ \E page : Keep(q, phase, page)
      BY <2>3 DEF GetCategories, GetCategorySlugs, GetAvailability, ReadSlice
    <3> QED
      BY <1>0, <3>1, KeepMoves, GotoMoves DEF Moved, Served, Done, At
  <2> QED
    BY <1>4, <2>1, <2>2, <2>3
    DEF ProviderPageStep, Serving, ServingAt, Listing, Inserting, ValidateSlugs, LockProfile, CommitSave,
        FindSlots, DeleteSlots, InsertSlot, CommitAgenda, FindProviders, AttachCategories, AttachSeals,
        MyRatingSummary, ReadCounts, ReadRank, ListCategories, ListProviderServices, Stats,
        Favorite, Unfavorite
<1>5. \/ Fails(q) \/ call'[q] = call[q] \/ (\E c : Arrived(q, c))
      \/ Advance(q) /\ call'[q].kind = call[q].kind /\ call[q].kind \notin {"visit"}
      \/ ProviderPageStep(q) /\ call[q].kind = "visit"
  <2>1. CASE Elsewhere({"visit"})
    BY <1>0, <2>1, OthersStay
  <2>2. CASE ~Elsewhere({"visit"})
    <3>1. PICK p \in Calls : ProviderPageStep(p) /\ call[p].kind = "visit"
      BY <1>0, <2>2, StepIsOneOf, StepsAdvance
      DEF StepCases, Elsewhere, AllKinds, NoticesKinds, RequestsKinds, QuestionsKinds, BulletinKinds,
          AccountsKinds, PageKinds, TalkKinds, ResetKinds
    <3> QED
      BY <1>0, <3>1, ProviderPageAdvance, ServesOne
  <2> QED
    BY <2>1, <2>2
<1>6. CASE Advance(q) /\ call'[q].kind = call[q].kind /\ call[q].kind \notin {"visit"}
  BY <1>6 DEF Served
<1> QED
  BY <1>1, <1>2, <1>3, <1>4, <1>5, <1>6

\* What is to be counted stays so until it is.
LEMMA CountingStep ==
    ASSUME CallInv, PagesInv, VisitsInv, CountingInHand, ProvidersAreVisited, [Next]_vars
    PROVE  CountingInHand' /\ ProvidersAreVisited'
<1>0. Onward /\ UNCHANGED scene /\ recording \subseteq Calls /\ \A i \in recording : ~At(i, "new")
  BY StepIsOnward, StepIsOneOf DEF VisitsInv, VisitsTypeOK, VisitRows
<1>1. \A i \in recording : call'[i].kind = call[i].kind /\ call'[i].on = call[i].on
  BY <1>0 DEF Onward
<1>2. CountingInHand'
  <2> SUFFICES ASSUME ~scene.faults, NEW q \in Calls, Served(q, "visit")'
               PROVE  q \in recording' \cup DOMAIN events'
    BY <1>0 DEF CountingInHand
  <2>1. CASE UNCHANGED visits
    <3>1. GoRecord(q) => q \in recording
      BY <2>1 DEF GoRecord, visits
    <3> QED
      BY <2>1, <3>1, VisitsAreServed DEF CountingInHand, visits
  <2>2. ASSUME NEW p \in Calls, RecordEvent(p) PROVE q \in recording' \cup DOMAIN events'
    <3>1. p \in recording /\ recording' = recording \ {p}
      BY <2>2 DEF RecordEvent
    <3>2. CASE Role[call[p].on] = "prestador"
      <4>1. \E v : events' = Put(events, p, v)
        BY <2>2, <3>2 DEF RecordEvent
      <4>2. DOMAIN events' = DOMAIN events \cup {p}
        BY <4>1, PutAdds
      <4>3. ~GoRecord(q)
        BY <3>1 DEF GoRecord
      <4> QED
        BY <3>1, <4>2, <4>3, VisitsAreServed DEF CountingInHand
    <3>3. CASE Role[call[p].on] # "prestador"
      <4>1. UNCHANGED events /\ ~GoRecord(q)
        BY <2>2, <3>1, <3>3 DEF RecordEvent, GoRecord
      <4>2. call[p].kind # "visit"
        BY <3>1, <3>3 DEF ProvidersAreVisited, Providers
      <4>3. Served(q, "visit") /\ q # p
        <5>1. Served(q, "visit")
          BY <4>1, VisitsAreServed
        <5> QED
          BY <4>2, <5>1 DEF Served
      <4> QED
        BY <3>1, <4>1, <4>3 DEF CountingInHand
    <3> QED
      BY <3>2, <3>3
  <2>3. ASSUME NEW p \in Calls, GoRecord(p) PROVE q \in recording' \cup DOMAIN events'
    <3>1. recording' = recording \cup {p} /\ UNCHANGED events
      BY <2>3 DEF GoRecord
    <3>2. GoRecord(q) => q \in recording'
      BY DEF GoRecord
    <3> QED
      BY <3>1, <3>2, VisitsAreServed DEF CountingInHand
  <2> QED
    BY <2>1, <2>2, <2>3, VisitsAlone
<1>3. ProvidersAreVisited'
  <2>1. CASE recording' \subseteq recording
    BY <1>1, <2>1 DEF ProvidersAreVisited
  <2>2. ASSUME NEW q \in Calls, GoRecord(q), InProgress(q),
               \/ ReadFacts(q) /\ call[q].kind = "visit"
               \/ FindConversation(q) \/ InsertConversation(q)
        PROVE  ProvidersAreVisited'
    <3>1. call'[q].kind = call[q].kind /\ call'[q].on = call[q].on
      BY <1>0, <2>2 DEF Onward, InProgress, At
    <3>2. call[q].kind = "visit" => call[q].on \in Providers
      <4>1. CASE ReadFacts(q) /\ call[q].kind = "visit"
        <5>1. SubjectHere(q) /\ call[q].pc = "facts"
          BY <4>1 DEF PagesInv, PageAsTold, ReadFacts, Paging, At
        <5> QED
          BY <4>1, <5>1 DEF SubjectHere, Subject
      <4>2. CASE FindConversation(q) \/ InsertConversation(q)
        BY <4>2 DEF FindConversation, InsertConversation, Serving, ServingAt
      <4> QED
        BY <2>2, <4>1, <4>2
    <3>3. recording' = recording \cup {q}
      BY <2>2 DEF GoRecord
    <3> QED
      BY <1>1, <3>1, <3>2, <3>3 DEF ProvidersAreVisited
  <2>3. (\E q \in Calls : RecordEvent(q)) \/ UNCHANGED visits => recording' \subseteq recording
    BY DEF RecordEvent, visits
  <2> QED
    BY <2>1, <2>2, <2>3, VisitsAlone
<1> QED
  BY <1>2, <1>3

\* If nothing fails, nothing that is to be done after a call's own statement is lost: the
\* requester of a response has been told of it, or its call is about to; a visit that
\* was answered has been counted, or a goroutine is about to, whatever else goes on
\* meanwhile (handler/request.go:253-263, service/analytics.go:25-30).
THEOREM AftermathIsInHand ==
    Spec => [](~scene.faults =>
                /\ \A i \in DOMAIN responses \ DOMAIN notices : ServingAt(i, "respond", "telling")
                /\ \A q \in Calls : Served(q, "visit") => q \in recording \cup DOMAIN events)
<1>1. Init => AftermathInv
  <2> SUFFICES ASSUME Init PROVE AftermathInv
    OBVIOUS
  <2>1. DOMAIN responses = {} /\ recording = {}
    BY DEF Init, RequestsInit, VisitsInit
  <2>2. \A q \in Calls : call[q].pc = "new"
    BY NoCallsYet
  <2> QED
    BY <2>1, <2>2 DEF AftermathInv, TellingInHand, CountingInHand, ProvidersAreVisited, Served, Done, At
<1>2. CommunityInv /\ AftermathInv /\ [Next]_vars => AftermathInv'
  BY TellingStep, CountingStep DEF CommunityInv, AftermathInv
<1>3. AftermathInv =>
        (~scene.faults =>
            /\ \A i \in DOMAIN responses \ DOMAIN notices : ServingAt(i, "respond", "telling")
            /\ \A q \in Calls : Served(q, "visit") => q \in recording \cup DOMAIN events)
  BY DEF AftermathInv, TellingInHand, CountingInHand
<1> QED
  BY <1>1, <1>2, <1>3, CommunityInvariant, CommunityInvInit, CommunityInvStep, PTL DEF Spec
=============================================================================
