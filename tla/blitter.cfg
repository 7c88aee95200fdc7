SPECIFICATION FairSpec
CONSTANTS
  MaxSize = 2
  MaxChunk = 3
  LineTime = 3
  Wait = 2
INVARIANTS ArmedIffUnfinished DoneIsDrawnOnce RegistersWaitForTheBlit
PROPERTIES BlitsFinish
