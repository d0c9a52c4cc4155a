----------------------------- MODULE MCChatHub ------------------------------
(* Small instances of ChatHub for TLC. *)
EXTENDS ChatHub, TLC

CONSTANTS ana, bia, caio, a1, b1, b2, c1

\* One connection each for Ana and Caio, who is not of the conversation, and
\* two for Bia.
MCOwner == [c \in Clients |-> CASE c = a1 -> ana [] c = c1 -> caio [] OTHER -> bia]

DeviceSymmetry == Permutations(Clients \cap {b1, b2})
=============================================================================
