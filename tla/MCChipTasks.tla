---------------------------- MODULE MCChipTasks ----------------------------
(* Instances of ChipTasks for TLC.                                         *)
EXTENDS ChipTasks, TLC
Interchangeable == Permutations(Clients)
=============================================================================
