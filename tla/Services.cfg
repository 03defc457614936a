SPECIFICATION Spec
CONSTANTS
  a = a
  b = b
  z = z
  Blank = Blank
  Junk = Junk
  Images <- MCImages
  Factory = z
  BlocksOf <- MCBlocksOf
  SlotBlocks = 3
  Mishaps = {"reset", "unplug", "crash", "chip"}
  NSec = 3
  Quarter = 2
  SecSize = 3
  RingSize = 5
  MaxFlush = 2
  MaxLines = 3
  MaxBoots = 2
  Kinds = {"sd1", "sd2", "sdhc"}
  MaxBusy = 1
  Retries = 2
  SilentMax = 2
  Lossy = {"CMD0", "CMD8", "CMD55", "CMD2", "CMD3", "CMD9", "CMD7", "CMD13", "ACMD6", "CMD16", "read", "write"}
  MaxLosses = 2
  MaxSwaps = 2
  Wire = {204, 0, 1, 2, 3, 4, 96, 231, 152, 7}
INVARIANTS
  ServicesTypeOK
  BurntIsOneImage
  RefusedOnlyIfReset
  NothingVanishes
  DetectedAgrees
  FramesAsSent
PROPERTIES
  FlashWaitsForImage
  AcceptedIsBurnt
  HostSpaceUntouched
  RedetectRecovers
CHECK_DEADLOCK FALSE
