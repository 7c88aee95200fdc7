SPECIFICATION FairSpec
CONSTANTS
  Chips = {"A"}
  Byte = 2
  DIV10 = 3
  CCountMod = 12
  LongMod = 24
  Chunks = {6, 15}
  LoBytes <- LoTa
  HiBytes <- HiTa
  Modes <- ABoth
  Masks = {{"TA"}, {"FLG"}}
INVARIANTS NothingTooSoon
PROPERTIES UnderflowRequests OneShotFiresOnce PollingSeesUnderflow
