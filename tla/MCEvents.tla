------------------------------ MODULE MCEvents ------------------------------
(* An instance of Events for TLC: both slots, and chunks longer than some  *)
(* of the delays, as a late process asks for.                              *)
EXTENDS Events

CONSTANTS ev_cia, ev_blitter

TwoSlots == {ev_cia, ev_blitter}

\* Delays within a chunk, across its end and far beyond it; a few only, so that a
\* wrong one cannot pass for another.
FewArm   == [s \in Slots |-> {1, 4, 7}]
FewRearm == [s \in Slots |-> IF s = ev_cia THEN {1, 6} ELSE {2, 5}]
=============================================================================
