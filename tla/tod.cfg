CONSTANTS
  Byte = 2
SPECIFICATION Spec
INVARIANTS
  ReadIsWhole
  AlarmRings
PROPERTIES
  SetIsWhole
