---------------------------- MODULE MCReputation ----------------------------
(* Small instances of Reputation for TLC. *)
EXTENDS Reputation, TLC

CONSTANTS p1, u1, u2

\* One resident gives full marks, the others the lowest: with at most two
\* raters no two different sets of ratings need the same average.
MCMark == [u \in Users |-> IF u = u1 THEN 20 ELSE 4]

RequestSymmetry == Permutations(Requests)
=============================================================================
