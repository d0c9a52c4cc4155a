# Aldeia Indica: formal models

TLA+ models of the Aldeia Indica backend (Go, PostgreSQL) and of the parts of
its mobile client (Dart) that take part in its protocols, the TLC
configurations that check them on small instances, and theorems about them
whose proofs TLAPS checks. Paths below are relative to `src/`; service paths
without a prefix are under `src/backend/internal/`.

## 1. The system

Residents (*moradores*) of a closed neighbourhood find, rate and recommend
service providers (*prestadores*). An admin moderates. The backend is a set of
HTTP handlers over services that issue SQL statements; nothing but the chat hub
keeps state in memory. Requests run concurrently, one goroutine each, on
connections of one pgx pool, at PostgreSQL's default isolation (READ
COMMITTED). A few operations are transactions; most are sequences of statements
that commit one by one.

| component | state | operations | what is hard | what makes it correct |
|---|---|---|---|---|
| Reputation (`service/rating.go`, `service/recommendation.go`, `service/provider.go`) | rows of `ratings` and `recommendations`; counters, averages and score in `provider_profiles` | rate, recommend, withdraw, change the tenure, recompute | aggregates of a snapshot older than the row lock; recompute in two statements after the commit; failure between them | counters equal rows; no rolled-back rating counts; the score follows the row |
| Score (`domain/score.go`) | none | `CalculateScore` | saturation, rounding, the width of the column | 0..100, monotone, 100 attainable |
| Sessions and account life (`service/auth.go`, `service/user.go`, `auth/jwt.go`, `server/middleware/auth.go`) | `users.deleted_at/deleted_by/status`; `refresh_tokens` | login, refresh, logout, reactivate, delete, admin delete, status | every operation but deletion is read-then-write without a transaction; access tokens outlive everything | rotation, reuse ends the family, a deleted account has no session, an admin's removal is final |
| Registration and invites (`service/auth.go`, `service/user.go`) | `invites`, the e-mail key of `users`, the connection pool | register (resident, provider), create invite, approve | row locks in the order typed, waits on a unique key, a second connection taken while one is held | two sponsors, each invite spent once, one account per e-mail, every request answered |
| Password reset (`service/auth.go`) | `password_reset_tokens`, `password_hash` | request, reset | the check is outside the transaction | a reset is whole, and ends every code asked for before it |
| Chat hub (`ws/`) | connections, queues, two goroutines each; `messages` | connect, message, receipt, disconnect | a channel closed before its owner leaves the hub; two looks at the hub; full queues | order, no leak, nobody missed, nothing unsaved sent |
| Conversations (`service/chat.go`, `handler/chat.go`) | `conversations`, `messages` | get or create, inbox, history, receipts | insert race; pages by OFFSET in the order in which inserts start, while they commit in another | one conversation per pair; no message that could be seen is missed between two pages |
| Provider profile (`service/provider.go`) | profile row, `provider_services`, `provider_availability` | save each of the screens, show the page | delete-and-insert with and without a common lock; a page of several statements | a save replaces its slice and no other |
| Search, featured, seals (`service/provider.go`) | none | filters, ordering, seals | two definitions of one seal (SQL and Go), evaluated one after the other; accounts that are gone | the featured have a seal; the deleted are not shown |
| Service requests (`handler/request.go`) | `service_requests`, responses | publish, list, respond, change status | a retry of what was done; notification after commit | one response each, of which the author is told once |
| Questions, favourites, notifications (`handler/question.go`, `service/notification.go`) | one table each | ask, answer, list; mark; list, count, read | a page of two statements; lost notifications | a page leaves out nothing it builds upon |
| Bulletin (`service/bulletin.go`) | `bulletin_posts` | create, review, lists | two admins review at once | one decides, and it stands |
| Analytics (`service/analytics.go`) | `provider_events` | append, sum, rank | a goroutine that outlives its call | every visit is counted |
| Mobile session (`mobile/lib/core/services/api_client.dart` and others) | stored tokens, the failures each call is handling, router state | calls, refresh on 401, logout, restart | several calls refresh with one token; the refresh and the retry pass through the same interceptor; lost answers | a session that nothing has spoiled survives; no call takes effect twice |
| Mobile chat (`ws_service.dart`, `chat_provider.dart`) | socket, list of messages | connect, reconnect, merge | history fetched before listening; reconnects accumulate | every message once, in order |
| External services (`email/`, `fcm/`, `storage/`) | none | single calls out | | |

Components interact in three ways: through rows (an account deleted in
Sessions keeps its e-mail in Registration), through the pool (Registration),
and through the hub (the goroutine of one user writes on the queues of others).

`PROJECT.json` lists every component with its status, every hazard with the
line where it bites, and the correspondence of definitions to source lines.

## 2. Plan

In order of what matters most to the system:

1. **Score and reputation** (done): `ScoreAldeia`, `Reputation`, abstract
   `CountedSet`, proofs in `ScoreAldeiaProofs` and `ReputationProofs`.
2. **Sessions** (done): `Sessions`, abstract `AccountLife`, proofs in
   `SessionsProofs`.
3. **Registration** (done): `Registration`, abstract `Admission`, proofs in
   `RegistrationProofs`.
4. **Chat hub** (done): `ChatHub`, proofs in `ChatHubProofs`.
5. **MobileSession** (done): the interceptor against the server's rotation,
   proofs in `MobileSessionProofs`.
6. **Community** (done): the rest of the API. `Calls` and the tables many
   components write (`Notices`, `Accounts`, `Visits`) at the bottom, a module
   per component above (`ServiceRequests`, `Questions`, `Bulletin`,
   `ProviderPage`, `PasswordReset`, `Conversations`), composed by `Community`,
   proofs in `CommunityProofs` and `CommunityPagesProofs`.

Left: the client's list of messages (`chat_provider.dart`) against `ChatHub`
and `Conversations`.

## 3. Modules

### ScoreAldeia, MCScoreAldeia, ScoreAldeiaProofs

`CalculateScore` of `domain/score.go` in exact arithmetic: hundredths of a
point, an average in hundredths, each term cut off by `Saturate`. `AvgRating`
and `TotalClients` are the two subqueries of `rating.go:64-76`; `Storable` is
the column `NUMERIC(5,2)`.

| run | question | instance |
|---|---|---|
| `score_formula` | is the score within range and the whole range attained only at the ends, monotone; is the average the nearest hundredth | every input around each point of saturation, negative tenures included |

### Reputation, CountedSet, MCReputation, ReputationProofs

One provider. A request is a record with a phase; each statement of the
service is an action, and a transaction's writes become visible at its commit.
The row lock of `provider_profiles` is `rowLock`; waits on unique keys are
`RowBusy`. `SnapshotRatings` is separate from `WriteAggregates` because the
subqueries of the UPDATE are evaluated on the snapshot taken when the statement
starts, and only the row it updates is read again after a wait. A rating is its
rater, and the aggregates are kept as the set of ratings they counted, so that
"the average is stale" is a difference of sets.

| run | question | bounds |
|---|---|---|
| `reputation_concurrent` | what survives any interleaving and failure: exact recommendation count, no phantom rating, unique notices, refinement of `CountedSet`; and that somebody can always go on (`NobodyIsStuck`) | three requests in flight, three users |
| `reputation_serial` | are the aggregates exact, and does every success repair the score, if requests do not overlap | requests one at a time, with failures |
| `reputation_lost_rating` | violation: two ratings at once, one not counted | two requests |

Three requests are enough for the interleavings of interest: the defects need
two, and the third lets a conflict meet a row that is already taken.

### Sessions, AccountLife, MCSessions, SessionsProofs

One account (every statement names one user or one of its tokens). A pair of
tokens is named by the request that issued it, and `login` is the request its
chain of refreshes goes back to. `deletion` is the one open transaction of
`DeleteAccount`, with the token rows it has updated: others that update those
rows, or the users row, wait. An INSERT of a token does not: its foreign key
takes a lock that an update of other columns does not exclude, which is what
lets a login slip past a deletion. Expiry is a choice wherever an expiry date
is looked at, a superset of what clocks allow.

| run | question | bounds |
|---|---|---|
| `sessions_concurrent` | what survives overlap: a deletion is never overwritten by another, and every request is answered | three requests in flight, failures, fair handlers |
| `sessions_serial` | one request at a time, with failures in any statement: no live token on a deleted account, one live token per login, a reuse ends the login, refinement of `AccountLife` | four requests |
| `sessions_ban_lifted` | violation: a reactivation that was under way undoes an admin's removal | two requests in flight, no failure |

### Registration, Admission, MCRegistration, RegistrationProofs

A registration is a transaction: `Begin` (takes a connection), `LockInvite`
twice, `InsertUser`, `Commit`. Locks and connections are functions of the
phases, not variables. `WaitsFor` and `InCycle` are PostgreSQL's deadlock
detector; `AskReason` is the second connection that `emailTakenReason` asks
for. A statement that fails is answered as the code answers it (`FailureOf`): the
lookup of an invite with "invalid code", the question why an e-mail is taken
with "taken", whatever the account; and the confirmation of `Commit` may be lost
(`Break`). `failed`, which is history, tells these answers from those that
somebody looked up. `Admission` is the abstract club: admissions in single steps.

| run | question | bounds |
|---|---|---|
| `registration` | two sponsors, invites spent once, answers that are true as far as they go, refinement of `Admission`; and, a connection to spare, every registration is answered | two registrations, two invites of two residents, two e-mails, either of which may belong to an older account, failures, three connections |

Two overlapping registrations exhibit every conflict on an invite, a key or the
pool; a code typed twice stands for two codes of one resident. Three
connections are one more than the transactions can hold: with two, both may
wait for the second connection of `AskReason`, and `EveryRegistrationEnds` does
not hold (section 7).

`AnswerMatchesAccount` says of the answers what holds although any statement may
fail. "Taken" and "reactivate" are only said of an e-mail that is somebody
else's; "reactivate" only of a deleted account, and always of one unless the
question failed. "ok" means that the account is there, and an account without
an "ok" is one whose confirmation was lost; who retries is then told "taken".

### ChatHub, MCChatHub, ChatHubProofs

One conversation. `reader` is the read loop of a connection with the phase of
the frame it is handling, `writer` its write loop. `Send` holds the hub's lock
(`HubFree`), so membership does not change under it, but visits the queues one
by one, and a queue may be closed between two visits: `Panic`. The Recoverer
keeps the process alive, and the deferred calls of the read loop run: the phase
after a panic is `closing`.

| run | question | bounds |
|---|---|---|
| `chat_messages` | order of each sender's messages, read messages always a beginning; does anything leave the conversation or go out unsaved; do ended connections leave the hub and stop | a connection each for the two participants and for an outsider, two of the three opened, two messages, two receipts of one of them, queues of two, failures, fair goroutines |
| `chat_panic` | violation: `Send` stops at a connection that is ending | two devices of one user, one message |

Queues of two frames drop as soon as three meet, as 64 do in the code. Which
two of the three connections are opened is a choice, so the run holds the two
participants together and each of them with the outsider.

### MobileSession, MobileSessionProofs

One login of the app against the server. The interceptor posts the refresh, and
repeats the failed request, through itself; either may fail with 401 and be
handled in its turn, inside the `try` of the failure before. A call therefore
carries a stack of `blocks`, and every failure that leaves a block goes through
its `catch`, which clears the storage (`Clear`). `stored` is the pair in the
secure storage; `live` and `fresh` are the server's view of the refresh and the
access tokens. `job` is what the server does with the last request of a call,
and goes on when the app has given up on the answer (`GiveUp`) or was killed
(`Restart`). The statements of `AuthService.Refresh` are `Check`, then `Kill` or
`Revoke` and `Issue`.

Two variables are history. `executed` counts how often a call has taken effect.
`spoiled` says that something has happened that ends sessions: two renewals
under way at once, an answer to a renewal or a retry lost or refused, a failed
statement of Refresh, a logout, the end of all sessions from elsewhere.
`SessionSurvives` says that nothing else does.

| run | question | bounds |
|---|---|---|
| `mobile_session` | does a session that nothing has spoiled survive; does any call take effect twice | a call and a logout that overlap, three pairs of tokens (two renewals), failures two deep |

Two calls show every pair of overlapping renewals, and with two renewals the
successor of a successor is lost or used. Deeper nesting only happens when a
refresh is itself refused with 401, and repeats what the second level does; the
theorems hold at any depth.

### Calls, and what the rest of the API is made of

`Calls` is the frame: who may make which call (`Allowed`, the roles of
`server/router.go`), arrival, the answer, and failure before any statement or
with the confirmation lost. A call is a record with a phase; `after` is history
(the calls that had been answered when it arrived) and lets properties speak of
what must be visible to whom. A row has the number of the call that inserted
it; row 0 was there before.

| module | state | actions and code |
|---|---|---|
| `Notices` | `notices` | list, count, read-all of `service/notification.go`; `Notify` is used by others |
| `ServiceRequests` | `requests`, `responses` | `Feed`, `Publish`, `GetRequest`, `UpdateStatus`, `Respond`, `TellRequester`, `ListResponses` of `handler/request.go` |
| `Questions` | `questions`, `answers` | `Ask`, `TellProvider`, `Answer`, and the page in two statements, of `handler/question.go` |
| `Bulletin` | `posts` | `CreatePost`, `ListApproved`, `ListPending`, `Review` of `service/bulletin.go` |
| `Accounts` | `accounts` | deletion, reactivation, status, list of users, in the single steps of `AccountLife` |
| `Visits` | `visits`, `events` | the goroutine of `service/analytics.go` that outlives its call |
| `ProviderPage` | `bios`, `services`, `agenda`, `favorites` | the two saves of `service/provider.go` statement by statement (`LockProfile`, `CommitSave`; `FindSlots`, `DeleteSlots`, `InsertSlot`, `CommitAgenda` with the waits on rows and keys); the page slice by slice; search, featured, favourites, dashboard, counts |
| `PasswordReset` | `passwords`, `codes` | `forgot`, `reset` (check, write, mark, commit), login as far as the password |
| `Conversations` | `conversations`, `messages` | `FindConversation` and `InsertConversation`, inbox, pages of history, receipts; `PersistMessage`, where a row gets its `created_at`, and `MessageStored`, where it becomes visible |
| `Community` | all of these | `ServeBoards`, `ServeUsers`, `Record`; what each leaves alone |

### Community, MCCommunity, CommunityProofs, CommunityPagesProofs

| run | question | instance |
|---|---|---|
| `community` | the properties below, over every scene | three calls (four in the scene `Chatted`), two in progress, lists of two rows; two residents, two admins and two providers (one without a profile) of one community, a provider and an admin of another |

* `RespondedOnce`: who is told 201 or "already responded" has one response, of
  which the author is told at most once.
* `PageKeepsOrder`: a page of questions has every answer that came before what
  it shows. The order of its two statements is what it depends on.
* `ReviewStands`: of two admins one decides, and what was shown stays approved.
* `CommunitiesApart`: nothing on any row or page is of another community.
* `SavesReplace`: what was saved before a save that succeeded is gone, in the
  tables and on pages; overlapping saves of categories do not mix.
* `FeaturedHasSeal`: who is featured has a seal, although two statements with
  snapshots of their own say so.
* `DeletedIsNotShown`: no list shows an account whose deletion was answered.
* `ResetIsWhole`: password and codes change together; an answered reset ends
  every code asked for before it and the password.
* `OneConversationPerPair`: the insert race leaves one conversation, and who
  lost it finds it on trying again.
* `HistoryIsExact`: paging backwards while messages arrive misses none that could
  be seen when the earlier page was read, except one of the same instant as a
  message on that page; receipts mark what was there.
* `EveryCallEnds`, `AftermathFollows`: calls that wait for rows of others are
  answered; without failures notifications and visits follow, though the call
  may be over before.

Calls that touch disjoint rows commute, so `MCScenes` does not interleave all of
them: a scene is a set of calls that meet on the same rows (two agendas, a
review and the wall, a deletion and the lists, ...), of which any three are made
in any order, two overlapping and the third before, between or after; the set
`Odd` holds the calls that are refused (wrong role, wrong community, missing
rows, duplicate keys, unknown categories and statuses, a page before the
first), two of them at a time, or one with
failures. Scenes with `faults` let any call fail before any statement and
after its last. Two calls are what every defect of this part needs: one between
two statements of the other; the third shows what is left behind.

Messages are ordered by `created_at`, the instant at which the insert starts
(migration `000008_create_chat.up.sql:25`); others see the row once the insert
has committed. `messages` is therefore in the order in which inserts start, two
of them may start at one instant, and they commit in any order. `Front` is what
`ORDER BY created_at DESC` with a limit may return: among rows of one instant
the choice is open, and made anew by every statement. The scene `Chatted` is
two pages and two messages, the least that lets a message of one sender become
visible, between the pages, behind a later one; without either exception the
run violates `HistoryIsExact`. A `ReadSlice` that fails leaves any part of
its slice, and a failed check whose row it is has an answer of its own
(`CheckFailureOf`).

## 4. Fairness

Safety runs assume none. Sessions and Registration assume weak fairness of each
handler that has started (`Serve`): the Go scheduler runs every goroutine that
can run, and PostgreSQL grants a free lock. Waits end because the holder is
fair too, and in Registration because the deadlock detector aborts somebody.
ChatHub and Community assume less, that some goroutine that can go on does:
messages, connections and calls are bounded, so that nothing can keep a
handler waiting for ever except a circle nobody breaks, which is what their
liveness properties exclude (overlapping saves of an agenda do wait in a circle,
and the deadlock detector aborts one of them: `Circle` of `ProviderPage`). A connection that goes on receiving new messages without
end is outside the bounds; there `sync.RWMutex` keeps new readers out once a
writer waits. Arrivals, failures and disconnections are never assumed.
Reputation states the same as an invariant (`NobodyIsStuck`: while a request is
in progress a step of some request is enabled), which allows symmetry and three
requests at once. Calls are one-shot, so a run may end with all of them served:
the configurations do not check deadlock.

## 5. What is proved

For every value of the constants (any number of users, requests, marks, and
any bound on requests in flight), under the named assumptions of the modules:

* `ScoreAldeiaProofs`: `AverageAlwaysNearest`, `ScoreAlwaysInRange` and
  `ScoreNeverTurns`, the three properties of `score_formula`, for any number of
  ratings and any values. The average is a fold over the set of raters, in an
  order the definition leaves open; that the sum does not depend on it
  (`AnyFirst`) is proved by minimal counterexample: of the subsets of a
  finite set for which a fact fails one has no smaller among them
  (`SmallestSubset`). The formula itself is arithmetic: `ScoreFits` and
  `ScoreIsMonotone`, whose assumption on the average the first theorem
  discharges.
* `ReputationProofs`: `TypeCorrect`; `CountIsExact` (the recommendation count
  is the number of rows in every committed state); `LedgerImplemented` (the
  refinement of `CountedSet`); `PhantomsAreExcluded`; `NoticesAreUnique`. The
  count alone is not inductive: the strengthening says that a transaction that
  has written holds the row lock and carries the count its commit needs, and
  that requests on the same key exclude each other (`OutsideStep`,
  `EnterStep`, `InsideStep`, `CommitStep`).
* `ReputationProofs`, the other side of `reputation_lost_rating`:
  `AggregatesFollow` says exactly when `AggregatesExact` holds of any number of
  requests: in every run in which the transactions of no two ratings overlap
  (`RatingsApart`), however everything else does. The strengthening
  (`SnapInv`) is that a rating about to be committed saw all that is committed
  and itself. `FreshScores` says the same of `SuccessLeavesFreshScore`: it holds in
  every run in which no transaction that has written the row commits between
  the two statements of a recompute (`RecomputesApart`), whatever was left stale
  by requests that failed before. Only such a commit changes what the recompute
  has read (`StatsStay`, `FreshInv`).
* `ReputationProofs`: `SomebodyIsReady`, the part of `NobodyIsStuck` that needs
  no ENABLED: while a request is in progress, the guards of a step of some
  request hold (`Ready`), for any number of requests.
* `SessionsProofs`: `TypeCorrect`; `DeletionsDoNotOverlap` (the property
  `DeletedOnce`), whatever overlaps. It needs that the request between its
  first UPDATE and its commit is the one the open deletion belongs to
  (`Holder`), and that the account is not deleted while one is open
  (`StillThere`); the second holds because everything that writes `deleted_by`
  waits for that lock.
* `SessionsProofs`: `SomebodyIsReady`, the part of `EveryCallEnds` that needs no
  fairness: while a request is in progress the guards of a step of some request
  hold (`Ready`). Only a deletion locks rows for longer than a statement, there
  is one at a time, and once it has the users row it waits no more (`LockInv`).
* `SessionsProofs`, what the run `sessions_serial` checks, for any number of
  requests at once. Each theorem assumes that one particular overlap does not
  happen in the run, and allows all others and any failure:
  - `DeletionClosesSessions` (`DeletedHasNoLiveToken`), if nobody is about to issue
    a token while a deletion is open (`DeletionsApart`);
  - `DeletionsAndReturns` (the refinement of `AccountLife`), if no removal by an
    admin is open while a reactivation is between its two statements
    (`ReturnsApart`);
  - `RotationLeavesOne` (`OneLiveTokenPerLogin`), if no two requests are about to
    issue tokens of one login (`RenewalsApart`);
  - `ReuseEndsForGood` (`ReuseEndsLogin`), if no token of a login is about to be
    issued while a reused one is answered (`ReusesApart`).

  `Lineage` is what holds whatever overlaps: which login each token and each
  refresh goes back to, and that a token is issued once. To it each theorem
  adds its own invariant: a closed account has nothing live and nothing about
  to be (`Closed`); who is about to issue a token presents the only live one of
  its login, or there is none (`Rotation`); an ended login has neither (`Ended`).
  The code does not prevent these overlaps (section 7); the theorems say that
  nothing else has to be prevented, and so exactly what the missing
  transactions cost.

* `RegistrationProofs`: `TypeCorrect`; `SponsoredTwice`, `AnswersAreTrue`,
  `InvitesAreSpentOnce`; `AdmissionImplemented` (the refinement of
  `Admission`). The strengthening says that an invite a registration has locked
  is unspent, and that the codes read are of two residents once both are locked
  (`Course`); that no two registrations hold one invite or one e-mail
  (`Exclusive`); and that a request that succeeded, or failed without its
  confirmation, left the account and the stamps of its own commit (`Traces`). Commit then maps to the one step of
  `Admission`, and everything before it to a stutter.
* `RegistrationProofs`, the part of `EveryRegistrationEnds` that needs no
  fairness: `OnlyThePoolBlocks`. While a registration is in progress one is
  served, or the pool is exhausted while one that holds a connection asks for a
  second. Invites are locked in the order typed and keys wait for commits, so
  waits do run in circles; but whoever waits for itself is seen by the
  deadlock detector, and of the sets of requests closed under waiting a
  smallest one is such a circle (`WaitersHaveACircle`). Nothing in the code
  bounds the requests in flight by the size of the pool, so no theorem does.
* `ChatHubProofs`: `TypeCorrect`, for which a frame in hand has to be stored
  (`TypeInv`), since it decides what may be pushed; `ReadInOrder`, which is
  inductive because messages are appended and a receipt marks all there are;
  `Confidential`, from `ConversationInv`: who handles a frame, and who is left to
  be sent it, is a participant. `FifoAlways` (the property `FifoPerSender`): what
  a connection has received and what is on its queue are one sequence, which a
  step only lengthens at its end (`AppendIsInOrder`) or thins out
  (`ThinnerIsInOrder`). The strengthening (`FifoInv`) says that the message a
  read loop has in hand is later than all of its own that have gone where it is
  still to go (`Latest`): everywhere while it is echoed, to the connections of
  the other user afterwards, and to those left to visit while `Send` runs.
* `ChatHubProofs`: `NobodyBlocksTheHub`, the part of
  `EndedConnectionsAreReleased` that needs no fairness: while a connection that
  has ended holds anything, some goroutine can go on. `EndInv` says who is in
  the hub, whose queue is closed and whose write loop has started; the only
  wait is for the lock of the hub, and who holds it has a connection to visit.
* `MobileSessionProofs`: `TypeCorrect`; `CallsTakeEffectOnce`, from `Effect`: how
  the failures of a call nest, and where a call that has been executed may be,
  which is nowhere it is sent again from; `SessionsSurvive`, from `Alive`:
  until something spoils the session one renewal is under way at most, only
  calls and never refreshes are answered 401, and who renews has in hand the
  live token or its successor. Neither depends on the number of calls or the
  depth of nesting.

* `CommunityProofs` and `CommunityPagesProofs`, for any number of users and
  calls and any scenes: `TypeCorrect` and all ten safety properties of the run
  `community`. A table is written by the steps of its own module alone
  (`BulletinAlone`, `ConversationsAlone`, ...), so a module's invariant is kept by the steps of
  the others because of two facts only: calls go on and are not forgotten
  (`CallInv`, `Onward`), and what a call has told stands as long as the rows it
  told of do (`PostsStay`, `SecretsStay`, `TalksStay`, `BoardsStay`,
  `SavesStay`). What is added for the induction is what a call knows between two
  of its statements:
  - `BulletinInv` (`ReviewsStand`): who was told 204 is the one whose decision
    the row has. The guard of the UPDATE is what keeps it.
  - `ResetInv` (`ResetsAreWhole`): from its check to its commit a reset has a
    code that no earlier reset has done away with (`Entitled`), and before the
    commit it holds the codes it will (`Doomed`).
  - `TalkInv` (`NoPairHasTwo`, `HistoriesAreExact`): the key on the pair; and,
    of a page of the history, that what was visible when it was read, and is
    missing before something on it, has enough newer messages to be on a later
    page. A message that becomes visible only makes more of them, which is why
    paging by OFFSET repeats what could be seen and does not skip it. Messages
    of one instant as one on the page are left out: the next statement may
    order them otherwise.
  - `BoardsInv` (`RespondedOnceAlways`, `PagesKeepOrder`): rows are about rows
    that are there, and a page in the making shows rows that stay.
  - `AccountsInv`, `SavesInv`, `PagesInv` (`SavesReplaceAlways`,
    `FeaturedHaveSeals`, `DeletedAreNotShown`): what an answered save replaced
    is of no call before it; a save between its statements knows all older rows
    of its agenda, or holds the profile; who is being featured is eligible, or
    has been saving meanwhile.
  - `CommunityInv` puts all of them together (`CommunityInvariant`), and
    `CommunitiesStayApart` follows from the rows and pages of all of them.
* `CommunityPagesProofs`, what the liveness properties of the run need before
  any fairness: `NobodyWaitsForEver` (of `EveryCallEnds`). A call in progress has a
  statement to go on with (`CourseInv`: no step leads where there is none), and
  of those who wait somebody is released: who holds the row of a profile or the
  codes of a reset waits for nobody, and agenda saves that wait for one another
  are a circle the detector breaks (`WaitingSavesHaveACircle`).
  `AftermathIsInHand` (of `AftermathFollows`): if nothing fails, a response has
  been told of or its call is about to tell, and an answered visit has been
  counted or its goroutine is under way; no step of any other call takes that
  away.

`Ready`, `Served` and `Handled` spell out the guards of the steps of a handler,
because ENABLED is out of reach; that they hold exactly where the step is
ENABLED was checked by TLC on the instances of the runs (for Registration also
with two connections, where `Exhausted` is reached).

Every invariant above was checked by TLC on the instance of its run before it
was proved. For the proofs the model of Community says what becomes of a status
that does not exist and of a page number below the first (both are refused by
`handler/request.go:204`, the enum type of `users.status`, and PostgreSQL for a
negative OFFSET), and names what it assumes of its constants: the rows that
were there before are of users (and, if they relate two, of two of one
community), and what clients ask has the form the handlers' parsers let
through: a decision on a post is one of two, the body of a save says whether
there is a bio, an agenda is a sequence of slots.

Only model-checked: the properties under fairness (`EveryCallEnds` of Sessions
and of Community, `AftermathFollows`, `EveryRegistrationEnds`,
`EndedConnectionsAreReleased`) and `NobodyIsStuck` as it is stated, with
ENABLED. Both are out of the prover's reach. Of each the part that is a safety
property is proved, as said above: no state is reached in which nobody can go
on (and of the aftermath, that it is not lost). What is left to TLC is that
steps which go on come to an end.

## 6. Not modelled

* The app's list of messages (`chat_provider.dart`, `ws_service.dart`): its two
  sources are `ChatHub` and `Conversations`; what it makes of them is in
  section 7.
* The screens of the app, its router state and the role kept beside the tokens.
* E-mail, push and presigned uploads, beyond the fact that a call may fail.
* Plain reads nothing depends on: an admin's lists of ratings and
  recommendations, `ValidateInvite`. Communities: an admin inserts them and
  nothing changes them, so they are constants.
* Start-up, shutdown, configuration, migrations, rate limits.
* Wording, layout, validation of formats, logging, bcrypt, the bytes of tokens.
  Clocks appear as choices; the window of 30 days of the analytics is left out,
  and so are the order of the lists of providers and the three seals earned by
  ratings, recommendations and age (`Renowned` is a constant).

`components` in `PROJECT.json` has the reason for each.

## 7. Where the code and its documents differ

Shown by a run (see `findings` of `PROJECT.json`): `reputation_lost_rating`,
`sessions_ban_lifted`, `chat_panic`. Read in the code, and without a run of
their own:

* A registration that holds a connection asks for another to say why an e-mail
  is taken (`service/auth.go:141`): with as many such registrations as the pool
  has connections, all of them wait for ever. With `Conns = 2` the run
  `registration` violates `EveryRegistrationEnds`. `OnlyThePoolBlocks` says that
  nothing else can stop registrations.
* A recompute that is overtaken writes an older score over a newer one
  (`service/provider.go:656`); `docs/database.md:58` says that the score is
  recalculated in the same transaction as the change.
* `RegisterPrestador` stores a tenure and no score (`service/auth.go:214`):
  what `service/provider.go:642-645` warns of for `UpdateMe`.
* A login, or a refresh, that overlaps a deletion leaves a live token on the
  deleted account (`service/auth.go:421`); overlapping refreshes of one token
  can outlive the end of its family (`service/auth.go:392`). The run
  `sessions_serial` is the other side of this, and the theorems of
  `SessionsProofs` say that these overlaps are the only ones that do it.
* If the question why an e-mail is taken fails, a newcomer whose account is
  deleted is told that the e-mail is taken, and not to reactivate it
  (`service/auth.go:240-248`); `docs/ciclo-de-vida-da-conta.md:46-49` says that
  the second is what they are told. In the run, such an answer is one with
  `failed`.
* A registration whose commit is not confirmed is answered with an error although
  the account exists (`service/auth.go:165`, `:223`); a retry is told that the
  e-mail is taken.
* A conversation is paged by OFFSET (`service/chat.go:121-126`) in the order
  of `created_at`, which is when the insert starts, and has no second key. A
  message whose insert was under way when a page was read, or which is of the
  same instant as one at its end, may be neither on it nor on the next one.
* An access token is honoured until it expires, whatever has happened to the
  account (`server/middleware/auth.go:27`); `docs/ciclo-de-vida-da-conta.md:135`
  says that the session dies at once.
* A registration that is aborted in a deadlock while it waits for an invite is
  told that the code is invalid (`service/auth.go:179`); while it waits for an
  e-mail, that the registration failed.
* A recipient that connects between `Send` and `IsOnline` gets neither a frame
  nor a push (`ws/client.go:150`).
* A reset code lives 30 minutes (`service/auth.go:462`);
  `docs/ciclo-de-vida-da-conta.md:115` and `docs/database.md:21` say 15.
* The rank, the counts by category and of providers, and the list of services
  go on counting accounts that are gone (`service/analytics.go:95`,
  `handler/category.go:26`, `handler/admin.go:50`, `:155`);
  `docs/ciclo-de-vida-da-conta.md:163-165` says that they are seen nowhere.
* Two overlapping saves of an agenda may leave both agendas
  (`service/provider.go:375`); two overlapping resets may use one code
  (`service/auth.go:488`); who loses the race to open a conversation is answered
  500 (`service/chat.go:63`).
* A slice of a provider's page that fails to load is shown as empty, or as far as
  it was read (`service/provider.go:328-342`), so a failure looks like "no agenda".
* A review that was decided is answered 404 if its confirmation is lost
  (`handler/bulletin.go:75`).
* Two calls of the app that are answered 401 renew with one token: the server
  takes the second for a theft and ends the session
  (`mobile/lib/core/services/api_client.dart:32`).
* A refresh that is refused is refreshed again, without end while a token is
  stored, because it passes through its own interceptor (`api_client.dart:38`;
  `handler/auth.go:255-259` answers every error with 401).
  `docs/ciclo-de-vida-da-conta.md:135` has the session die at once.
* A call that was renewed and then refused for its own reasons (a duplicate, say)
  ends the session: the `catch` around the retry clears the storage
  (`api_client.dart:49-52`).
* A renewal under way at a logout stores a pair after the storage was cleared;
  a logout that is itself renewed revokes the old token and leaves the new one
  live (`auth_repository.dart:135-141`). The interceptor clears the storage and
  leaves the router where it was.
* The app fetches the history before it listens to the socket
  (`chat_provider.dart:24`), so a message in between is shown by neither; each
  conversation opened connects another channel to one stream, so that a live
  message is shown once per channel; a reconnection does not renew the access
  token, and is repeated every 3 seconds with one that has expired
  (`ws_service.dart:18-45`).
