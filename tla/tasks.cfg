SPECIFICATION Spec
CONSTANTS
  Clients = {c1, c2}
  CiaProcess = cia
  Calls = {"restart", "read", "print", "blit"}
  Chunk = 2
  Reload = 2
  BlitTime = 3
  MaxSince = 4
INVARIANTS FlagsKept NextEventCurrent MutexesInOrder
SYMMETRY Interchangeable
CHECK_DEADLOCK FALSE
