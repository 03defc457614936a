SPECIFICATION RecordingSpec
CONSTANTS
  DirMin = 1
  DirMax = 2
  IdxMax = 2
  ShortListings = FALSE
  MaxSectors = 9
  Prealloc = 2600
  NoHeader = NoHeader
  IdxCap = 2
  Sizes = {136, 1300}
  SegFrames = 3
  RefreshEvery = 2
  MaxAccess = 10
  MayRunFull = TRUE
  Rows = 3
  Margin = 1
  Wedge = 7
  Escalate = 2
  Hysteresis = 14
  MaxEncode = 1
  MaxFaults = 1
INVARIANTS CardTypeOK HeadersTrue IndexLeadsToChunks CleanStopIsWhole CutCostsAnInterval NothingOverwritten
  CaptureTypeOK  PicturesReturn
PROPERTIES ClipsKept
CHECK_DEADLOCK FALSE
