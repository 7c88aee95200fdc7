SPECIFICATION FairSpec
CONSTANTS
  Channels = {0}
  Halves = {0, 1}
  Lengths = {0, 2}
  Periods = {0, 124}
  Volumes = {64}
INVARIANTS PlaysTheRegisters RequestsAreCaused EndsAreKept
PROPERTIES EndsAreServed
