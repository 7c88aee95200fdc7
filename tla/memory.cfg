CONSTANTS
  Programs = {p1, p2}
  Blocks = 4
  BlockSize = 1024
  GrowBy = 2
  Sizes = {0, 1000, 1025}
  Junk <- MCJunk
  MaxEntries = 6
  MemoryUses <- MCMemoryUses
  DeviceUses <- MCDeviceUses
  MaxOps = 4
SPECIFICATION Spec
SYMMETRY Symmetric
CHECK_DEADLOCK FALSE
INVARIANTS
  HeldApart
  BooksAgree
  BitsAreKept
  KeepsToItself
