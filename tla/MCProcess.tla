----------------------------- MODULE MCProcess -----------------------------
(* An instance of Process for TLC: a count of 2 bits, an int of 4, thirds  *)
(* of a microsecond, and a slot re-armed within a chunk or beyond it.      *)
EXTENDS Process

CONSTANTS ev_cia

\* A few delays only, so that a wrong one cannot pass for another.
FewArm   == [s \in Slots |-> {1, 4}]
FewRearm == [s \in Slots |-> {1, 4}]
=============================================================================
