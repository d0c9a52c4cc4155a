------------------------------ MODULE Notices -------------------------------
(***************************************************************************)
(* The notifications that a user finds in the app.                         *)
(*                                                                         *)
(*   notices   GET  /notifications               NotificationService.List  *)
(*   unread    GET  /notifications/unread-count  .UnreadCount              *)
(*   readAll   POST /notifications/read-all      .MarkAllRead              *)
(*                                                                         *)
(* Other handlers insert them (Notify) once what they are about has been   *)
(* committed, and ignore a failure.                                        *)
(***************************************************************************)
EXTENDS Calls

VARIABLE notices   \* the rows of notifications

Notice == [to : Users, type : {"request_response", "question_received"},
           about : Ids, at : Nat, read : BOOLEAN]

NoticesTypeOK ==
    /\ DOMAIN notices \subseteq Calls
    /\ \A i \in DOMAIN notices : notices[i] \in Notice

NoticesInit == notices = [i \in {} |-> None]

MyNotices(u) == {i \in DOMAIN notices : notices[i].to = u}
Unread(u) == {i \in MyNotices(u) : ~notices[i].read}

-----------------------------------------------------------------------------
(* Steps.                                                                  *)

Notify(q, to, type, about) ==
    notices' = Put(notices, q, [to |-> to, type |-> type, about |-> about,
                                at |-> Cardinality(DOMAIN notices), read |-> FALSE])

\* For the owner of what a call inserted.  A failure is not an error.
NotifyOrNot(q, to, type, about) ==
    /\ Finish(q, "ok")
    /\ \/ Notify(q, to, type, about)
       \/ scene.faults /\ UNCHANGED notices

ListNotices(q) ==
    /\ Serving(q, "notices")
    /\ Show(q, Newest(notices, MyNotices(By(q))))
    /\ UNCHANGED notices

\* The answer is how many there are of these.
UnreadCount(q) ==
    /\ Serving(q, "unread")
    /\ Show(q, Unread(By(q)))
    /\ UNCHANGED notices

\* All of them, on the page of the list or not.
MarkAllRead(q) ==
    /\ Serving(q, "readAll")
    /\ notices' = [i \in DOMAIN notices |->
                     [notices[i] EXCEPT !.read = @ \/ i \in MyNotices(By(q))]]
    /\ Committed(q)

NoticesStep(q) == (ListNotices(q) \/ UnreadCount(q) \/ MarkAllRead(q)) /\ UNCHANGED scene
=============================================================================
