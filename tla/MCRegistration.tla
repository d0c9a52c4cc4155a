--------------------------- MODULE MCRegistration ---------------------------
(* Small instances of Registration for TLC. *)
EXTENDS Registration, TLC

CONSTANTS i1, i2, i3, s1, s2

\* One resident has created two of the invites.
MCSponsor == [i \in Invites |-> IF i = i3 THEN s2 ELSE s1]

Symmetry == Permutations(Requests) \cup Permutations(Emails) \cup Permutations(Invites \ {i3})
=============================================================================
