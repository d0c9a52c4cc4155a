------------------------------ MODULE Bulletin ------------------------------
(***************************************************************************)
(* The wall of notices that residents post and an admin reviews            *)
(* (service/bulletin.go, handler/bulletin.go).                             *)
(*                                                                         *)
(*   wall     GET  /bulletin                     ListApproved              *)
(*   post     POST /bulletin                     Create                    *)
(*   pending  GET  /admin/bulletin/pending       ListPending               *)
(*   review   POST /admin/bulletin/{id}/review   Review                    *)
(***************************************************************************)
EXTENDS Calls

CONSTANT OldPoster   \* the author of the post that was there before, unreviewed

Decisions == {"approved", "rejected"}

\* The body of a review says yes or no.
ASSUME BulletinAssumption ==
    /\ OldPoster \in Users
    /\ \A c \in ClientCalls : c.kind = "review" => c.arg \in Decisions

VARIABLE posts   \* the rows of bulletin_posts

\* at: the order of approved_at; posts not yet decided have none.
Post == [by : Users, status : {"pending"} \cup Decisions,
         decidedBy : Users \cup {None}, at : Nat]

BulletinTypeOK ==
    /\ DOMAIN posts \subseteq Ids
    /\ \A i \in DOMAIN posts : posts[i] \in Post

NewPost(u) == [by |-> u, status |-> "pending", decidedBy |-> None, at |-> 0]

BulletinInit == posts = [i \in {0} |-> NewPost(OldPoster)]

PostsHere(q, status) ==
    {i \in DOMAIN posts : Home[posts[i].by] = HomeOf(q) /\ posts[i].status = status}

Decided == {i \in DOMAIN posts : posts[i].status # "pending"}

-----------------------------------------------------------------------------
(* Variants with a defect, for the sensitivity of the properties.          *)

\* WHERE id = $3 AND community_id = $4.
ReviewAgain(q) ==
    /\ Serving(q, "review")
    /\ IF call[q].on \in PostsHere(q, "pending") \cup PostsHere(q, "approved")
                            \cup PostsHere(q, "rejected")
       THEN /\ posts' = [posts EXCEPT ![call[q].on] =
                           [@ EXCEPT !.status = call[q].arg, !.decidedBy = By(q),
                                     !.at = 1 + Cardinality(Decided)]]
            /\ Committed(q)
       ELSE Finish(q, "notFound") /\ UNCHANGED posts

\* No look at the status.
WallOfEverything(q) ==
    /\ Serving(q, "wall")
    /\ Show(q, Newest(posts, PostsHere(q, "pending") \cup PostsHere(q, "approved")))
    /\ UNCHANGED posts

-----------------------------------------------------------------------------
(* Steps.                                                                  *)

CreatePost(q) ==
    /\ Serving(q, "post")
    /\ posts' = Put(posts, q, NewPost(By(q)))
    /\ Committed(q)

ListApproved(q) ==
    /\ Serving(q, "wall")
    /\ Show(q, Newest(posts, PostsHere(q, "approved")))
    /\ UNCHANGED posts

ListPending(q) ==
    /\ Serving(q, "pending")
    /\ Show(q, PostsHere(q, "pending"))
    /\ UNCHANGED posts

\* arg: approved or rejected.  Any error is answered "not found", that of a
\* decision that was written included.
Review(q) ==
    /\ Serving(q, "review")
    /\ IF call[q].on \in PostsHere(q, "pending")
       THEN /\ posts' = [posts EXCEPT ![call[q].on] =
                           [@ EXCEPT !.status = call[q].arg, !.decidedBy = By(q),
                                     !.at = 1 + Cardinality(Decided)]]
            /\ Committed(q)
       ELSE Finish(q, "notFound") /\ UNCHANGED posts

BulletinStep(q) ==
    /\ CreatePost(q) \/ ListApproved(q) \/ ListPending(q) \/ Review(q)
    /\ UNCHANGED scene

-----------------------------------------------------------------------------
(* Properties.                                                             *)

\* Of the admins who review a post at the same time one decides, and the one
\* who is told 204 is the one whose decision stands; so what any resident has
\* been shown on the wall is approved, and stays so
\* (service/bulletin.go:44, :95-106).
ReviewStands ==
    /\ \A q \in Calls : Served(q, "review") =>
          LET p == posts[call[q].on] IN p.status = call[q].arg /\ p.decidedBy = By(q)
    /\ \A q \in Calls : Served(q, "wall") =>
          \A i \in call[q].page : posts[i].status = "approved"
=============================================================================
