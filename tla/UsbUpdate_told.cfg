SPECIFICATION UpdateSpec
CONSTANTS
  a = a
  b = b
  z = z
  Blank = Blank
  Junk = Junk
  Images <- MCImages
  Factory = z
  BlocksOf <- MCBlocksOf
  SlotBlocks = 3
  Mishaps = {}
INVARIANT ToldWrittenIsWritten
CHECK_DEADLOCK FALSE
