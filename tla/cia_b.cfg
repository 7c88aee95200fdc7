SPECIFICATION Spec
CONSTANTS
  Chips = {"B"}
  Byte = 2
  DIV10 = 3
  CCountMod = 16
  LongMod = 32
  Chunks = {12}
  LoBytes <- LoTa
  HiBytes <- HiTa
  Modes <- BCascade
  Masks = {}
INVARIANTS UnderflowsArePredicted IntervalsAreRight
CHECK_DEADLOCK FALSE
