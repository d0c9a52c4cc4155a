----------------------------- MODULE Admission ------------------------------
(***************************************************************************)
(* What registration promises a closed community: an e-mail belongs to one *)
(* account for ever, and a newcomer is let in by the invitations of two    *)
(* different residents, spent on that newcomer at that moment and on       *)
(* nobody else, or waits for an admin, or registers as a provider.         *)
(***************************************************************************)
CONSTANTS People, Emails, Invites, Sponsor, None

VARIABLES
    owner,     \* owner[e]: who registered the e-mail
    standing,  \* standing[e]: how the account of the e-mail came to be
    spentOn    \* spentOn[i]: whom the invitation let in

vars == <<owner, standing, spentOn>>

Standings == {"none", "older", "provider", "waiting", "approved", "sponsored"}

Init ==
    /\ owner = [e \in Emails |-> None]
    /\ standing \in [Emails -> {"none", "older"}]
    /\ spentOn = [i \in Invites |-> None]

Free(e) == standing[e] = "none"

Register(p, e, how) ==
    /\ Free(e)
    /\ owner' = [owner EXCEPT ![e] = p]
    /\ standing' = [standing EXCEPT ![e] = how]

Sponsored(p, e, i, j) ==
    /\ Sponsor[i] # Sponsor[j]
    /\ spentOn[i] = None /\ spentOn[j] = None
    /\ spentOn' = [spentOn EXCEPT ![i] = p, ![j] = p]
    /\ Register(p, e, "sponsored")

Unsponsored(p, e, how) ==
    /\ how \in {"waiting", "provider"}
    /\ Register(p, e, how)
    /\ UNCHANGED spentOn

Approve(e) ==
    /\ standing[e] = "waiting"
    /\ standing' = [standing EXCEPT ![e] = "approved"]
    /\ UNCHANGED <<owner, spentOn>>

Next ==
    \E e \in Emails :
        \/ \E p \in People :
               \/ \E i, j \in Invites : Sponsored(p, e, i, j)
               \/ \E how \in Standings : Unsponsored(p, e, how)
        \/ Approve(e)

Spec == Init /\ [][Next]_vars
=============================================================================
