SPECIFICATION Spec
CONSTANTS
  DirMin = 1
  DirMax = 2
  IdxMax = 2
  ShortListings = TRUE
  MaxSectors = 9
  Prealloc = 209715200
  NoHeader = NoHeader
  IdxCap = 2
  Sizes = {280, 1300}
  SegFrames = 3
  RefreshEvery = 2
  MaxAccess = 5
  MayRunFull = TRUE
INVARIANT NothingOverwritten
