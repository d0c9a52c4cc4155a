------------------------------- MODULE Visits -------------------------------
(***************************************************************************)
(* What is counted of the visits to a provider's page and of the contacts  *)
(* (service/analytics.go).  The handlers start a goroutine for it and      *)
(* answer without waiting for it; it outlives the call, for up to 5        *)
(* seconds, and ignores a failure.                                         *)
(***************************************************************************)
EXTENDS Accounts

VARIABLES
    recording,  \* calls whose goroutine has yet to insert its row
    events      \* the rows of provider_events

visits == <<recording, events>>

Event == [of : Users, actor : Users \cup {None},
          type : {"profile_view", "contact_initiated"}]

VisitsTypeOK ==
    /\ recording \subseteq Calls
    /\ DOMAIN events \subseteq Calls
    /\ \A i \in DOMAIN events : events[i] \in Event

VisitsInit == recording = {} /\ events = [i \in {} |-> None]

\* Nobody is told who visits; who starts a conversation is no secret.
EventOf(q) ==
    IF call[q].kind = "visit"
    THEN [of |-> call[q].on, actor |-> None, type |-> "profile_view"]
    ELSE [of |-> call[q].on, actor |-> By(q), type |-> "contact_initiated"]

-----------------------------------------------------------------------------
(* Variants with a defect, for the sensitivity of the properties.          *)

\* The context of the request, cancelled once the handler has returned.
RecordWhileServing(q) ==
    /\ q \in recording
    /\ recording' = recording \ {q}
    /\ events' = IF Done(q) THEN events ELSE Put(events, q, EventOf(q))

-----------------------------------------------------------------------------
(* Steps.                                                                  *)

GoRecord(q) == recording' = recording \cup {q} /\ UNCHANGED events

\* Events are of providers: a foreign key refuses the others.
RecordEvent(q) ==
    /\ q \in recording
    /\ recording' = recording \ {q}
    /\ \/ events' = IF Role[call[q].on] = "prestador" THEN Put(events, q, EventOf(q)) ELSE events
       \/ scene.faults /\ UNCHANGED events
=============================================================================
