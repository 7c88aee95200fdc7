SPECIFICATION FairSpec
CONSTANTS
  Clients = {c1}
  CiaProcess = cia
  Calls = {"restart"}
  Chunk = 2
  Reload = 3
  BlitTime = 3
  MaxSince = 6
PROPERTIES CallsReturn
CHECK_DEADLOCK FALSE
