CONSTANTS
  Programs = {p1, p2}
  Procs = {c1, c2}
SPECIFICATION Spec
INVARIANTS
  ProcessesAreCounted
  QuietWhenClosed
  OpenMeansUsable
  UnloadIsClean
PROPERTIES
  CloseReturns
CHECK_DEADLOCK FALSE
