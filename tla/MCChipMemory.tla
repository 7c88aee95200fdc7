---------------------------- MODULE MCChipMemory ----------------------------
(* Two programs, four blocks of chip memory, and registers of every bank.  *)
EXTENDS ChipMemory, TLC

Symmetric == Permutations(Programs)

MCJunk == {[start |-> NoBlock, blocks |-> 0], [start |-> 0, blocks |-> 1]}

MCMemoryUses == {
  [op |-> "Chg", offset |-> 0, width |-> "long", bit |-> 31],
  [op |-> "Set", offset |-> 0, width |-> "byte", bit |-> 7],
  [op |-> "Write", offset |-> 2, width |-> "word", bit |-> 0]}

MCDeviceUses == {
  [op |-> "Chg", addr |-> \hBFE101, width |-> "byte", bit |-> 0, moves |-> {<<<<"ciaa", 1>>, 0>>}],
  [op |-> "Set", addr |-> \hBFE000, width |-> "word", bit |-> 1, moves |-> {<<<<"ciaa", 0>>, 1>>}],
  [op |-> "Clr", addr |-> \hBFE001, width |-> "byte", bit |-> 7, moves |-> {}],
  [op |-> "Set", addr |-> \hBFD100, width |-> "byte", bit |-> 3, moves |-> {<<<<"ciab", 1>>, 3>>}],
  [op |-> "Set", addr |-> \hDC0037, width |-> "byte", bit |-> 0, moves |-> {<<<<"clock", 55>>, 0>>}],
  [op |-> "Set", addr |-> \hDC003A, width |-> "word", bit |-> 0, moves |-> {}],
  [op |-> "Chg", addr |-> \hDFF040, width |-> "word", bit |-> 5, moves |-> {<<<<"custom", 64>>, 5>>}],
  [op |-> "Set", addr |-> \hDFF040, width |-> "long", bit |-> 5, moves |-> {<<<<"custom", 66>>, 5>>}],
  [op |-> "Read", addr |-> \hDFF042, width |-> "word", bit |-> 0, moves |-> {}],
  [op |-> "Clr", addr |-> \hDFF01C, width |-> "word", bit |-> 9, moves |-> {}],
  [op |-> "Chg", addr |-> \hDFF042, width |-> "byte", bit |-> 0, moves |-> {}]}
=============================================================================
