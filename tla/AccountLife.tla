---------------------------- MODULE AccountLife ----------------------------
(***************************************************************************)
(* What the deletion of an account promises: its owner can delete it and   *)
(* have it back; an admin can delete it, and then it does not come back.   *)
(***************************************************************************)
CONSTANT None

VARIABLES deletedBy    \* None while the account is there

Init == deletedBy \in {None, "owner", "admin"}

Leave == deletedBy = None /\ deletedBy' = "owner"
Ban == deletedBy = None /\ deletedBy' = "admin"
Return == deletedBy = "owner" /\ deletedBy' = None

Next == Leave \/ Ban \/ Return

Spec == Init /\ [][Next]_deletedBy
=============================================================================
