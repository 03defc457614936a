SPECIFICATION FairSpec
CONSTANTS
  Slots = 2
  Late = 1
  MaxFrames = 3
  Heights = {480, 576}
  Inputs = {"toggle", "dump", "orphan", "recorder"}
  AdvPal = FALSE
  ThinEvery = 6
  StallTicks = 1
  Strikes = 2
  KeepAlive = 1
  MaxAge = 1
  FlushOutcomes = {TRUE, FALSE}
  MaxPass = 1
INVARIANTS
  RingTypeOK
  DumpIntact
  SlotHeld
PROPERTIES
  QueueKept
  AllConsumed
  FreezeReturns
  PumpGoesOn
