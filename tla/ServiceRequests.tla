-------------------------- MODULE ServiceRequests ---------------------------
(***************************************************************************)
(* The requests for a service that residents publish and providers answer  *)
(* (handler/request.go).                                                   *)
(*                                                                         *)
(*   feed       GET  /requests                  List                       *)
(*   publish    POST /requests                  Create                     *)
(*   request    GET  /requests/{id}             Get                        *)
(*   setStatus  PUT  /requests/{id}             UpdateStatus               *)
(*   respond    POST /requests/{id}/responses   Respond                    *)
(*   responses  GET  /requests/{id}/responses   ListResponses              *)
(*                                                                         *)
(* Nobody deletes a request nor changes its author, so the reads of the    *)
(* author that come before a statement are one step with it.  respond      *)
(* inserts the response in one statement and tells the author in another.  *)
(***************************************************************************)
EXTENDS Notices

CONSTANT OldRequester   \* the author of the request that was there before

VARIABLES requests, responses   \* the rows of the two tables

Statuses == {"open", "in_progress", "closed"}

ASSUME RequestsAssumption == OldRequester \in Users

RequestsTypeOK ==
    /\ DOMAIN requests \subseteq Ids /\ DOMAIN responses \subseteq Calls
    /\ \A i \in DOMAIN requests :
          requests[i] \in [by : Users, status : Statuses, at : Nat]
    /\ \A i \in DOMAIN responses : responses[i] \in [to : DOMAIN requests, by : Users]

RequestsInit ==
    /\ requests = [i \in {0} |-> [by |-> OldRequester, status |-> "open", at |-> 0]]
    /\ responses = [i \in {} |-> None]

\* WHERE id = $1 AND community_id = $2.
RequestHere(q) ==
    /\ call[q].on \in DOMAIN requests
    /\ Home[requests[call[q].on].by] = HomeOf(q)

Requester(q) == requests[call[q].on].by
ResponsesTo(r) == {i \in DOMAIN responses : responses[i].to = r}
HasResponded(u, r) == \E i \in ResponsesTo(r) : responses[i].by = u

-----------------------------------------------------------------------------
(* Variants with a defect, for the sensitivity of the properties.          *)

\* The author is told although there was a response already.
RespondTellingTwice(q) ==
    /\ Serving(q, "respond") /\ Role[By(q)] = "prestador"
    /\ RequestHere(q) /\ Requester(q) # By(q)
    /\ responses' = IF HasResponded(By(q), call[q].on) THEN responses
                    ELSE Put(responses, q, [to |-> call[q].on, by |-> By(q)])
    /\ Goto(q, "telling")
    /\ UNCHANGED <<requests, notices>>

\* The response is not inserted before the author is told.
RespondWithoutRow(q) ==
    /\ Serving(q, "respond") /\ Role[By(q)] = "prestador"
    /\ RequestHere(q) /\ Requester(q) # By(q) /\ ~HasResponded(By(q), call[q].on)
    /\ Finish(q, "ok")
    /\ UNCHANGED <<requests, responses, notices>>

\* The author is told by a goroutine with the context of the request, which is
\* cancelled once the handler has returned.
TellInBackground(q) ==
    /\ ServingAt(q, "respond", "telling")
    /\ Finish(q, "ok")
    /\ \/ Notify(q, Requester(q), "request_response", call[q].on)
       \/ UNCHANGED notices
    /\ UNCHANGED <<requests, responses>>

-----------------------------------------------------------------------------
(* Steps.                                                                  *)

\* arg: a status, open unless the client asks for another, or all.
Feed(q) ==
    /\ Serving(q, "feed")
    /\ Show(q, Newest(requests, {i \in DOMAIN requests :
                  /\ Home[requests[i].by] = HomeOf(q)
                  /\ call[q].arg \in {"all", requests[i].status}}))
    /\ UNCHANGED <<requests, responses, notices>>

Publish(q) ==
    /\ Serving(q, "publish")
    /\ \/ /\ Role[By(q)] = "prestador" /\ Finish(q, "forbidden")
          /\ UNCHANGED requests
       \/ /\ Role[By(q)] # "prestador"
          /\ requests' = Put(requests, q, [by |-> By(q), status |-> "open",
                                           at |-> Cardinality(DOMAIN requests)])
          /\ Committed(q)
    /\ UNCHANGED <<responses, notices>>

GetRequest(q) ==
    /\ Serving(q, "request")
    /\ IF RequestHere(q) THEN Show(q, {call[q].on}) ELSE Finish(q, "notFound")
    /\ UNCHANGED <<requests, responses, notices>>

\* From any status to any other.
UpdateStatus(q) ==
    /\ Serving(q, "setStatus")
    /\ \/ /\ ~RequestHere(q) /\ Finish(q, "notFound")
          /\ UNCHANGED requests
       \/ /\ RequestHere(q) /\ Requester(q) # By(q) /\ Finish(q, "forbidden")
          /\ UNCHANGED requests
       \/ /\ RequestHere(q) /\ Requester(q) = By(q) /\ call[q].arg \notin Statuses
          /\ Finish(q, "invalid") /\ UNCHANGED requests
       \/ /\ RequestHere(q) /\ Requester(q) = By(q) /\ call[q].arg \in Statuses
          /\ requests' = [requests EXCEPT ![call[q].on].status = call[q].arg]
          /\ Committed(q)
    /\ UNCHANGED <<responses, notices>>

\* INSERT ... SELECT of the request, whatever its status.
Respond(q) ==
    /\ Serving(q, "respond") /\ Role[By(q)] = "prestador"
    /\ RequestHere(q) /\ Requester(q) # By(q) /\ ~HasResponded(By(q), call[q].on)
    /\ responses' = Put(responses, q, [to |-> call[q].on, by |-> By(q)])
    /\ \/ Goto(q, "telling")
       \/ scene.faults /\ Finish(q, "error")
    /\ UNCHANGED <<requests, notices>>

RefuseResponse(q) ==
    /\ Serving(q, "respond")
    /\ \/ Role[By(q)] # "prestador" /\ Finish(q, "forbidden")
       \/ /\ Role[By(q)] = "prestador"
          /\ RequestHere(q) => Requester(q) = By(q)
          /\ Finish(q, "notFound")
       \/ /\ Role[By(q)] = "prestador" /\ RequestHere(q)
          /\ HasResponded(By(q), call[q].on)
          /\ Finish(q, "conflict")
    /\ UNCHANGED <<requests, responses, notices>>

TellRequester(q) ==
    /\ ServingAt(q, "respond", "telling")
    /\ NotifyOrNot(q, Requester(q), "request_response", call[q].on)
    /\ UNCHANGED <<requests, responses>>

\* The author and admins see who responded; the others do not.
ListResponses(q) ==
    /\ Serving(q, "responses")
    /\ \/ Role[By(q)] # "admin" /\ ~RequestHere(q) /\ Finish(q, "notFound")
       \/ /\ Role[By(q)] # "admin" /\ RequestHere(q) /\ Requester(q) # By(q)
          /\ Finish(q, "forbidden")
       \/ /\ Role[By(q)] = "admin" \/ (RequestHere(q) /\ Requester(q) = By(q))
          /\ Show(q, {i \in ResponsesTo(call[q].on) : Home[responses[i].by] = HomeOf(q)})
    /\ UNCHANGED <<requests, responses, notices>>

RequestsStep(q) ==
    /\ \/ Feed(q) \/ Publish(q) \/ GetRequest(q) \/ UpdateStatus(q)
       \/ Respond(q) \/ RefuseResponse(q) \/ TellRequester(q) \/ ListResponses(q)
    /\ UNCHANGED scene

-----------------------------------------------------------------------------
(* Properties.                                                             *)

\* A provider who is told 201 or "already responded" has one response there: a
\* retry after a lost answer neither loses nor doubles it.  The author of the
\* request, and nobody else, is told of it, at most once
\* (handler/request.go:239-263).
RespondedOnce ==
    /\ \A q \in Calls :
          (call[q].kind = "respond" /\ Done(q) /\ call[q].outcome \in {"ok", "conflict"}) =>
             \E i \in ResponsesTo(call[q].on) : responses[i].by = By(q)
    /\ \A i, j \in DOMAIN responses : responses[i] = responses[j] => i = j
    /\ LET told == {i \in DOMAIN notices : notices[i].type = "request_response"}
       IN  /\ \A i \in told : notices[i].to = requests[notices[i].about].by
           /\ \A r \in DOMAIN requests :
                 Cardinality({i \in told : notices[i].about = r}) <= Cardinality(ResponsesTo(r))
=============================================================================
