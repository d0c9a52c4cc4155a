---------------------------- MODULE ProviderPage ----------------------------
(***************************************************************************)
(* What providers say of themselves (service/provider.go), in slices saved *)
(* by screens of their own, and how it is shown.                           *)
(*                                                                         *)
(*   save        PUT  /providers/me                UpdateMe                *)
(*   saveAgenda  PUT  /providers/me/availability   UpdateAvailability      *)
(*   visit       GET  /providers/{id}              Get, and a visit        *)
(*   myPage      GET  /providers/me                GetMe                   *)
(*   search      GET  /providers                   Search                  *)
(*   featured    GET  /providers/featured          Featured                *)
(*   favorites   GET  /providers/favorites         ListFavorites           *)
(*   favorite    POST, unfavorite DELETE /providers/{id}/favorite          *)
(*   summary     GET  /providers/me/ratings/summary  MyRatingSummary       *)
(*   dashboard   GET  /dashboard/summary           DashboardSummary        *)
(*   categories  GET  /categories                  CategoryHandler.List    *)
(*   services    GET  /admin/provider-services     ListProviderServices    *)
(*   stats       GET  /admin/stats                 Stats                   *)
(*                                                                         *)
(* A page is put together of several statements, each with a snapshot of   *)
(* its own; the slices of Get that fail to load are left out without an    *)
(* error.  UpdateMe locks the row of the profile first, so saves come one  *)
(* after another.  UpdateAvailability locks only the rows that it deletes. *)
(* Averages, counts, tenure and score are those of Reputation.             *)
(***************************************************************************)
EXTENDS Visits, Sequences, Functions

CONSTANTS
    Categories,   \* the slugs there are
    Slots,        \* a day of the week and a time of day
    Renowned,     \* the providers who have earned a seal other than "completo"
    Newcomers     \* the providers who have said nothing of themselves yet

Providers == {u \in Users : Role[u] = "prestador"}

ASSUME ProviderPageAssumption ==
    /\ Categories # {} /\ Slots # {} /\ None \notin 0 .. MaxCalls
    /\ Renowned \subseteq Providers /\ Newcomers \subseteq Providers
    /\ \A c \in ClientCalls :
          /\ c.kind = "save" => c.arg.bio \in BOOLEAN
          /\ c.kind = "saveAgenda" => c.arg \in Seq(Slots)

VARIABLES
    bios,       \* the call that wrote the professional_bio, None if it is NULL
    services,   \* the rows of provider_services
    agenda,     \* the rows of provider_availability
    favorites   \* the rows of provider_favorites

profiles == <<bios, services, agenda, favorites>>

\* A row of a table or a part of a page: of whom, what, and which call wrote it.
Row(p, part, item, from) == [of |-> p, part |-> part, item |-> item, from |-> from]
Shown(rows, part) == {[r EXCEPT !.part = part] : r \in rows}
OfP(rows, p) == {r \in rows : r.of = p}

ProviderPageTypeOK ==
    /\ bios \in [Providers -> Ids \cup {None}]
    /\ services \subseteq [of : Providers, part : {"slug"}, item : Categories, from : Ids]
    /\ agenda \subseteq [of : Providers, part : {"slot"}, item : Slots, from : Ids]
    /\ favorites \subseteq Users \X Providers

OldCategory == CHOOSE c \in Categories : TRUE
OldSlot == CHOOSE s \in Slots : TRUE

ProviderPageInit ==
    /\ bios = [p \in Providers |-> IF p \in Newcomers THEN None ELSE 0]
    /\ services = {Row(p, "slug", OldCategory, 0) : p \in Providers \ Newcomers}
    /\ agenda = {Row(p, "slot", OldSlot, 0) : p \in Providers \ Newcomers}
    /\ favorites = {}

\* The facts of the seal "completo".
Complete(p) == bios[p] # None /\ OfP(services, p) # {} /\ OfP(agenda, p) # {}
Seal(p) == IF p \in Renowned \/ Complete(p) THEN {Row(p, "seal", "seal", 0)} ELSE {}

\* The rows of services or of the agenda that an open transaction deletes or inserts.
Holds(p, r) == call[p].pc \in {"locked", "inserting"} /\ r \in call[p].page

-----------------------------------------------------------------------------
(* Variants with a defect, for the sensitivity of the properties.          *)

\* No look at deleted_at.
ListedAnyway(q, p) == Here(q, p) /\ accounts[p].status = "active"

\* The old slots stay.
DeleteNoSlots(q) ==
    /\ ServingAt(q, "saveAgenda", "deleting")
    /\ Keep(q, "inserting", {})
    /\ UNCHANGED <<profiles, visits>>

\* The row of the profile is not locked before the categories are replaced.
LockNothing(q) ==
    /\ ServingAt(q, "save", "valid")
    /\ Keep(q, "locked", IF call[q].arg.slugs = None THEN {} ELSE OfP(services, By(q)))
    /\ UNCHANGED <<profiles, visits>>

\* A bio is enough to be featured.
EligibleForBio(p) == p \in Renowned \/ bios[p] # None

\* Saves of an agenda wait for one another for ever.
NoCircle(q) == FALSE

-----------------------------------------------------------------------------
(* The screens of the provider.                                            *)

\* arg: whether there is a bio; the slugs, None if the client sends none.
ValidateSlugs(q) ==
    /\ Serving(q, "save")
    /\ IF call[q].arg.slugs = None \/ Range(call[q].arg.slugs) \subseteq Categories
       THEN Goto(q, "valid") ELSE Finish(q, "unknownSlug")
    /\ UNCHANGED <<profiles, visits>>

\* Begins the transaction, patches the row and deletes the old slugs.
LockProfile(q) ==
    /\ ServingAt(q, "save", "valid")
    /\ By(q) \in Providers => \A p \in Calls : ~(ServingAt(p, "save", "locked") /\ By(p) = By(q))
    /\ Keep(q, "locked", IF call[q].arg.slugs = None THEN {} ELSE OfP(services, By(q)))
    /\ UNCHANGED <<profiles, visits>>

\* Inserts the new slugs, a key each, and commits.
CommitSave(q) ==
    /\ ServingAt(q, "save", "locked")
    /\ LET slugs == IF call[q].arg.slugs = None THEN <<>> ELSE call[q].arg.slugs
       IN  \/ /\ IsInjective(slugs) /\ (By(q) \in Providers \/ slugs = <<>>)
              /\ services' = (services \ call[q].page)
                               \cup {Row(By(q), "slug", c, q) : c \in Range(slugs)}
              /\ bios' = [p \in Providers |-> IF p = By(q) /\ call[q].arg.bio THEN q ELSE bios[p]]
              /\ Committed(q)
           \/ /\ ~(IsInjective(slugs) /\ (By(q) \in Providers \/ slugs = <<>>))
              /\ Finish(q, "error") /\ UNCHANGED <<bios, services>>
    /\ UNCHANGED <<agenda, favorites, visits>>

\* DELETE: the rows are those of the snapshot taken as it starts ...
FindSlots(q) ==
    /\ Serving(q, "saveAgenda")
    /\ Keep(q, "deleting", OfP(agenda, By(q)))
    /\ UNCHANGED <<profiles, visits>>

\* ... and it waits for who is deleting them.  Those gone by then are skipped,
\* and those that took their place are not seen.
DeleteSlots(q) ==
    /\ ServingAt(q, "saveAgenda", "deleting")
    /\ \A p \in Calls \ {q}, r \in call[q].page : ~Holds(p, r)
    /\ Keep(q, "inserting", call[q].page \cap agenda)
    /\ UNCHANGED <<profiles, visits>>

\* arg: a sequence of slots.  UNIQUE (provider_id, day_of_week, start_time).
Inserted(q) == {r \in call[q].page : r.from = q}
NextSlot(q) == call[q].arg[1 + Cardinality(Inserted(q))]
Left(q) == Cardinality(Inserted(q)) < Len(call[q].arg)

Inserting(q) == ServingAt(q, "saveAgenda", "inserting") /\ Left(q)

\* A row, committed or not, with the key that q inserts.
SameKey(q, r) == r.of = By(q) /\ r.item = NextSlot(q)
SlotTaken(q) ==
    \/ \E r \in agenda \ call[q].page : SameKey(q, r) /\ \A p \in Calls : ~Holds(p, r)
    \/ \E r \in Inserted(q) : SameKey(q, r)
    \/ By(q) \notin Providers
SlotWaits(q, p) == Inserting(q) /\ p # q /\ \E r \in call[p].page : Holds(p, r) /\ SameKey(q, r)

\* q is one of a set of saves that wait for one another in a circle: the deadlock
\* detector aborts one of them.
Circle(q) ==
    \E S \in SUBSET Calls :
        /\ q \in S
        /\ \A p \in S : \E r \in S : SlotWaits(p, r)
        /\ \A p \in S : \E r \in S : SlotWaits(r, p)

InsertSlot(q) ==
    /\ Inserting(q)
    /\ \/ SlotTaken(q) /\ Finish(q, "error")
       \/ /\ ~SlotTaken(q) /\ \A p \in Calls : ~SlotWaits(q, p)
          /\ Keep(q, "inserting", call[q].page \cup {Row(By(q), "slot", NextSlot(q), q)})
       \/ Circle(q) /\ Finish(q, "error")
    /\ UNCHANGED <<profiles, visits>>

CommitAgenda(q) ==
    /\ ServingAt(q, "saveAgenda", "inserting") /\ ~Left(q)
    /\ agenda' = (agenda \ call[q].page) \cup Inserted(q)
    /\ Committed(q)
    /\ UNCHANGED <<bios, services, favorites, visits>>

-----------------------------------------------------------------------------
(* Pages.                                                                  *)

\* WHERE is_visible, active, not deleted.  Nothing makes a profile invisible.
Listed(q, p) == Here(q, p) /\ accounts[p].status = "active" /\ ~Deleted(p)

\* The provider of the page: on, or the caller.
Subject(q) == IF call[q].kind = "visit" THEN call[q].on ELSE By(q)
Paging(q, phase) == call[q].kind \in {"visit", "myPage"} /\ At(q, phase)

ReadProfile(q) ==
    /\ Paging(q, "arrived")
    /\ LET p == Subject(q)
       IN  IF p \in Providers /\ Here(q, p) /\ ~Deleted(p)
           THEN Keep(q, "names", IF bios[p] = None THEN {} ELSE {Row(p, "bio", "bio", bios[p])})
           ELSE Finish(q, "notFound")
    /\ UNCHANGED <<profiles, visits>>

\* A slice that fails to load has what was read by then.
ReadSlice(q, phase, part, next, rows) ==
    /\ Paging(q, phase)
    /\ LET slice == Shown(OfP(rows, Subject(q)), part)
       IN  \E some \in SUBSET slice :
              /\ some = slice \/ scene.faults
              /\ Keep(q, next, call[q].page \cup some)
    /\ UNCHANGED <<profiles, visits>>

GetCategories(q) == ReadSlice(q, "names", "name", "slugs", services)
GetCategorySlugs(q) == ReadSlice(q, "slugs", "slug", "slots", services)
GetAvailability(q) == ReadSlice(q, "slots", "slot", "facts", agenda)

\* computeSeals, is_favorited, and the answer, which leaves out what fails.
ReadFacts(q) ==
    /\ Paging(q, "facts")
    /\ LET p == Subject(q)
           found == Seal(p) \cup (IF <<By(q), p>> \in favorites
                                  THEN {Row(p, "heart", "heart", 0)} ELSE {})
       IN  \E shown \in SUBSET found :
              /\ shown = found \/ scene.faults
              /\ Show(q, call[q].page \cup shown)
    /\ IF call[q].kind = "visit" THEN GoRecord(q) ELSE UNCHANGED visits
    /\ UNCHANGED profiles

\* Those who have some seal, by criteria written once more in the statement.
Eligible(p) == p \in Renowned \/ Complete(p)

\* arg: a category, or None; the other filters narrow the list alike.
SearchResult(q) ==
    {p \in Providers : Listed(q, p) /\ (call[q].arg = None
                          \/ \E r \in OfP(services, p) : r.item = call[q].arg)}

FavoritesOf(q) == {p \in Providers : <<By(q), p>> \in favorites /\ Here(q, p) /\ ~Deleted(p)}

Found(q) ==
    CASE call[q].kind = "search" -> SearchResult(q)
      [] call[q].kind = "featured" -> {p \in Providers : Listed(q, p) /\ Eligible(p)}
      [] OTHER -> FavoritesOf(q)

Listing(q, phase) == call[q].kind \in {"search", "featured", "favorites"} /\ At(q, phase)
OnPage(q) == {r.of : r \in call[q].page}

\* At most PageSize of them, but for favourites; with none there is nothing else
\* to read.
FindProviders(q) ==
    /\ Listing(q, "arrived")
    /\ \E S \in SUBSET Found(q) :
          /\ \/ S = Found(q) /\ (Cardinality(S) <= PageSize \/ call[q].kind = "favorites")
             \/ Cardinality(S) = PageSize /\ call[q].kind # "favorites"
          /\ LET rows == {Row(p, "listed", "listed", 0) : p \in S}
             IN  IF S = {} THEN Show(q, rows) ELSE Keep(q, "names", rows)
    /\ UNCHANGED <<profiles, visits>>

\* batchCategories.
AttachCategories(q) ==
    /\ Listing(q, "names")
    /\ Keep(q, "facts", call[q].page \cup
              Shown(UNION {OfP(services, p) : p \in OnPage(q)}, "name"))
    /\ UNCHANGED <<profiles, visits>>

\* batchSealExtras.
AttachSeals(q) ==
    /\ Listing(q, "facts")
    /\ Show(q, call[q].page \cup UNION {Seal(p) : p \in OnPage(q)})
    /\ UNCHANGED <<profiles, visits>>

MyRatingSummary(q) ==
    /\ Serving(q, "summary")
    /\ Finish(q, IF By(q) \in Providers THEN "ok" ELSE "notFound")
    /\ UNCHANGED <<profiles, visits>>

\* Score, then visits and contacts, then the rank among the providers of one of
\* the caller's categories; a rank that fails is left out.
ReadCounts(q) ==
    /\ Serving(q, "dashboard")
    /\ IF By(q) \in Providers
       THEN Keep(q, "rank", {Row(By(q), "count", events[i].type, i) :
                               i \in {j \in DOMAIN events : events[j].of = By(q)}})
       ELSE Finish(q, "error")
    /\ UNCHANGED <<profiles, visits>>

Offered(q, c) ==
    {p \in Providers : Here(q, p) /\ accounts[p].status = "active"
                         /\ \E r \in OfP(services, p) : r.item = c}

ReadRank(q) ==
    /\ ServingAt(q, "dashboard", "rank")
    /\ \/ \E r \in OfP(services, By(q)) :
             /\ By(q) \in Offered(q, r.item)
             /\ Show(q, call[q].page \cup {Row(p, "rival", r.item, 0) : p \in Offered(q, r.item)})
       \/ /\ (\A r \in OfP(services, By(q)) : By(q) \notin Offered(q, r.item)) \/ scene.faults
          /\ Show(q, call[q].page)
    /\ UNCHANGED <<profiles, visits>>

\* Of each category, how many there are of these.
ListCategories(q) ==
    /\ Serving(q, "categories")
    /\ Show(q, UNION {{Row(p, "counted", c, 0) : p \in Offered(q, c)} : c \in Categories})
    /\ UNCHANGED <<profiles, visits>>

ListProviderServices(q) ==
    /\ Serving(q, "services")
    /\ Show(q, {r \in services : Here(q, r.of)})
    /\ UNCHANGED <<profiles, visits>>

\* Counted are, among other things, these.
Stats(q) ==
    /\ Serving(q, "stats")
    /\ Show(q, {Row(u, "user", Role[u], 0) : u \in {v \in Users : Here(q, v) /\ ~Deleted(v)}}
                 \cup {r \in services : Here(q, r.of)})
    /\ UNCHANGED <<profiles, visits>>

\* INSERT ... SELECT of the profile, ON CONFLICT DO NOTHING.
WithFavorite(u, q) ==
    favorites \cup (IF u \in Providers /\ Here(q, u) THEN {<<By(q), u>>} ELSE {})

\* 204 even if there is no such provider.
Favorite(q) ==
    /\ Serving(q, "favorite")
    /\ \/ call[q].on = By(q) /\ Finish(q, "forbidden") /\ UNCHANGED favorites
       \/ /\ call[q].on # By(q)
          /\ favorites' = WithFavorite(call[q].on, q)
          /\ Committed(q)
    /\ UNCHANGED <<bios, services, agenda, visits>>

Unfavorite(q) ==
    /\ Serving(q, "unfavorite")
    /\ favorites' = favorites \ {<<By(q), call[q].on>>}
    /\ Committed(q)
    /\ UNCHANGED <<bios, services, agenda, visits>>

ProviderPageStep(q) ==
    /\ \/ ValidateSlugs(q) \/ LockProfile(q) \/ CommitSave(q)
       \/ FindSlots(q) \/ DeleteSlots(q) \/ InsertSlot(q) \/ CommitAgenda(q)
       \/ ReadProfile(q) \/ GetCategories(q) \/ GetCategorySlugs(q) \/ GetAvailability(q)
       \/ ReadFacts(q)
       \/ FindProviders(q) \/ AttachCategories(q) \/ AttachSeals(q)
       \/ MyRatingSummary(q) \/ ReadCounts(q) \/ ReadRank(q)
       \/ ListCategories(q) \/ ListProviderServices(q) \/ Stats(q)
       \/ Favorite(q) \/ Unfavorite(q)
    /\ UNCHANGED <<accounts, scene>>

-----------------------------------------------------------------------------
(* Properties.                                                             *)

\* s replaced the slice of its provider that row r is in, after r was there.
Replaced(r, s) ==
    /\ By(s) = r.of /\ r.from \in call[s].after \cup {0}
    /\ \/ Served(s, "saveAgenda") /\ r.part = "slot"
       \/ Served(s, "save") /\ r.part = "bio" /\ call[s].arg.bio
       \/ Served(s, "save") /\ r.part \in {"slug", "name"} /\ call[s].arg.slugs # None

\* A save that succeeds replaces its slice: nothing is left of what had been
\* saved before it began, neither in the tables nor on a page asked for
\* afterwards (service/provider.go:368-392, :597-636).  Saves of the categories
\* that overlap do not mix, as the row of the profile is locked throughout; two
\* saves that overlap may leave both their agendas: the second one waits for rows
\* the first deleted, and does not see those it inserted.
SavesReplace ==
    /\ \A r \in services \cup agenda, s \in Calls : ~Replaced(r, s)
    /\ \A r, t \in services : r.of = t.of => r.from = t.from
    /\ \A q \in Calls : call[q].kind \in {"visit", "myPage"} =>
          \A r \in call[q].page, s \in call[q].after : ~Replaced(r, s)

\* A provider is featured with a seal, unless a save was under way while the page
\* was put together (service/provider.go:118-119 "Elegível: is_visible=true + pelo
\* menos 1 critério de selo atingido"; three statements).
FeaturedHasSeal ==
    \A q \in Calls : Served(q, "featured") =>
        \A p \in OnPage(q) :
            \/ \E r \in call[q].page : r.of = p /\ r.part = "seal"
            \/ \E s \in Calls : /\ call[s].kind \in {"save", "saveAgenda"} /\ By(s) = p
                                /\ s \notin call[q].after /\ q \notin call[s].after

\* Once the deletion of an account has been answered no list, page, favourite or
\* count of users shows it, until it comes back (docs/ciclo-de-vida-da-conta.md:
\* 163-165; every statement has to look at deleted_at itself).  The counts of
\* services, the rank and the services listed do not look at it.
DeletedIsNotShown ==
    \A q \in Calls : Done(q) =>
        /\ call[q].kind \in {"search", "featured", "favorites", "visit", "myPage", "stats"} =>
              \A r \in call[q].page : r.part \in {"listed", "user", "bio"} => ~GoneBefore(r.of, q)
        /\ call[q].kind = "users" /\ call[q].arg # "deleted" =>
              \A u \in call[q].page : ~GoneBefore(u, q)
=============================================================================
