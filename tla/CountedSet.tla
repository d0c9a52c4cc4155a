----------------------------- MODULE CountedSet -----------------------------
(***************************************************************************)
(* What a table with a denormalised counter promises: a set, and a number  *)
(* that is its size at every moment an observer can look.                  *)
(***************************************************************************)
EXTENDS Integers

CONSTANT Elements

VARIABLES members, count

Init == members = {} /\ count = 0

Add(e) ==
    /\ e \notin members
    /\ members' = members \cup {e}
    /\ count' = count + 1

Remove(e) ==
    /\ e \in members
    /\ members' = members \ {e}
    /\ count' = count - 1

Next == \E e \in Elements : Add(e) \/ Remove(e)

Spec == Init /\ [][Next]_<<members, count>>
=============================================================================
