----------------------------- MODULE MCSessions -----------------------------
(* Small instances of Sessions for TLC. *)
EXTENDS Sessions, TLC

RequestSymmetry == Permutations(Requests)
=============================================================================
