------------------------------- MODULE Calls --------------------------------
(***************************************************************************)
(* The calls that the apps make to the API, whatever they ask for: who may *)
(* make which (server/router.go, the handlers' own checks stay with the    *)
(* handlers), and the course of a call from its arrival to its answer.     *)
(*                                                                         *)
(* Calls overlap freely.  A statement is one step and commits by itself    *)
(* unless the module says otherwise.  Where faults are allowed a call may  *)
(* fail before any of its statements, or after it, the confirmation lost:  *)
(* the client left (the context of the request is that of its connection), *)
(* or the database did.                                                    *)
(***************************************************************************)
EXTENDS Naturals, FiniteSets

CONSTANTS
    Users,        \* the accounts that make calls
    Role,         \* Role[u]: as the access token of u says
    Home,         \* Home[u]: the community, as the access token says
    MaxCalls,     \* how many calls are made
    MaxInFlight,  \* bound on calls in progress at the same time
    PageSize,     \* how many rows a list holds (3, 20 or 50 in the code)
    Scenes,       \* what may be going on in a behaviour, see scene: calls that
                  \* share no row with others are not interleaved with them
    None          \* no value

Roles == {"morador", "prestador", "admin"}

ClientCalls == UNION {s.calls : s \in Scenes}

ASSUME CallsAssumption ==
    /\ Role \in [Users -> Roles]
    /\ DOMAIN Home = Users
    /\ MaxCalls \in Nat /\ MaxInFlight \in Nat /\ PageSize \in Nat \ {0}
    /\ \A s \in Scenes : s.faults \in BOOLEAN /\ s.upTo \in 0 .. MaxCalls
    /\ \A c \in ClientCalls : c.by \in Users
    /\ None \notin Users

VARIABLES
    call,   \* what each call is, and how far it has got
    scene   \* calls: those that clients make; upTo: how many of them; faults:
            \* whether calls may fail

\* Calls arrive in the order of their numbers.  A row has the number of the
\* call that inserted it; row 0 was there before.
Calls == 1 .. MaxCalls
Ids == 0 .. MaxCalls

NewCall == [kind |-> "none", by |-> None, on |-> None, arg |-> None,
            pc |-> "new", outcome |-> "none", page |-> {}, after |-> {}]

\* The parts of a call that every kind uses alike.  after is history: the calls
\* that had been answered when this one arrived.
CallTypeOK ==
    /\ DOMAIN call = Calls
    /\ \A q \in Calls :
        /\ DOMAIN call[q] = DOMAIN NewCall
        /\ call[q].by \in Users \cup {None}
        /\ call[q].after \subseteq 1 .. (q - 1)
        /\ (call[q].outcome = "none") <=> (call[q].pc # "done")
    /\ scene \in Scenes

CallInit ==
    /\ call = [q \in Calls |-> NewCall]
    /\ scene \in Scenes

At(q, phase) == call[q].pc = phase
Done(q) == At(q, "done")
Served(q, kind) == call[q].kind = kind /\ Done(q) /\ call[q].outcome = "ok"
InProgress(q) == call[q].pc \notin {"new", "done"}

\* A call of this kind whose next statement is the first, or the one of this phase.
Serving(q, kind) == call[q].kind = kind /\ At(q, "arrived")
ServingAt(q, kind, phase) == call[q].kind = kind /\ At(q, phase)

By(q) == call[q].by
HomeOf(q) == Home[By(q)]

Goto(q, phase) == call' = [call EXCEPT ![q].pc = phase]
Keep(q, phase, page) == call' = [call EXCEPT ![q].pc = phase, ![q].page = page]
\* A variant with a defect, for the sensitivity of the types: a handler that
\* returns without an answer.
FinishSilently(q, outcome) == Goto(q, "done")

Finish(q, outcome) == call' = [call EXCEPT ![q].pc = "done", ![q].outcome = outcome]
Show(q, page) ==
    call' = [call EXCEPT ![q].pc = "done", ![q].outcome = "ok", ![q].page = page]

\* How a handler answers when a statement of its fails ...
FailureOf(kind) ==
    CASE kind \in {"ask", "review", "visit", "myPage"} -> "notFound"
      [] kind = "setStatus" -> "invalid"
      [] kind = "reset" -> "invalidCode"
      [] OTHER -> "error"

\* ... and when it is the one that looks whose row it is.
CheckFailureOf(q) ==
    CASE call[q].kind = "setStatus" -> "error"
      [] call[q].kind = "responses" /\ Role[By(q)] # "admin" -> "notFound"
      [] OTHER -> FailureOf(call[q].kind)

\* The statement has committed; whether the handler learns that is another matter.
Committed(q) ==
    \/ Finish(q, "ok")
    \/ scene.faults /\ Finish(q, FailureOf(call[q].kind))

Fault(q) ==
    /\ scene.faults /\ InProgress(q)
    /\ Finish(q, FailureOf(call[q].kind)) \/ Finish(q, CheckFailureOf(q))

Put(f, x, v) == [y \in DOMAIN f \cup {x} |-> IF y = x THEN v ELSE f[y]]

\* The PageSize newest of these rows.
Newest(rows, S) ==
    {i \in S : Cardinality({j \in S : rows[j].at > rows[i].at}) < PageSize}

-----------------------------------------------------------------------------
(* Arrival.                                                                *)

\* The roles the route of a call lets in; the others are refused before the
\* handler runs.
Allowed(kind) ==
    CASE kind \in {"search", "featured", "wall", "post"} -> {"morador"}
      [] kind \in {"pending", "review", "stats", "users", "status", "remove", "services",
                   "found"} -> {"admin"}
      [] OTHER -> Roles

Arrive(q, c) ==
    /\ At(q, "new") /\ \A p \in 1 .. (q - 1) : ~At(p, "new")
    /\ q <= scene.upTo
    /\ Cardinality({p \in Calls : InProgress(p)}) < MaxInFlight
    /\ LET mayPass == Role[c.by] \in Allowed(c.kind)
       IN  call' = [call EXCEPT ![q] =
                      [@ EXCEPT !.kind = c.kind, !.by = c.by, !.on = c.on, !.arg = c.arg,
                                !.pc = IF mayPass THEN "arrived" ELSE "done",
                                !.outcome = IF mayPass THEN "none" ELSE "forbidden",
                                !.after = {p \in Calls : Done(p)}]]
    /\ UNCHANGED scene
=============================================================================
