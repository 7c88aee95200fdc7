CONSTANTS
  MaxLeaves = 3
  ByteBits = 2
  Cells <- CellsMC
  Memories <- MemoriesMC
  Blits <- BlitsMC
SPECIFICATION DrawSpec
INVARIANTS
  SpecialIsGeneral
  BlocksAreMeant
  LinesAreMeant
  ExpressionsAreSound
CHECK_DEADLOCK FALSE
