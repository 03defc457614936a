SPECIFICATION SdSpec
CONSTANTS
  Kinds = {"sd1", "sd2", "sdhc"}
  MaxBusy = 1
  Retries = 2
  SilentMax = 2
  Lossy = {"ACMD41"}
  MaxLosses = 1
  MaxSwaps = 1
INVARIANTS
  SectorsAsAsked
