SPECIFICATION FairSpec
CONSTANTS
  Slots = 3
  Late = 1
  MaxFrames = 3
  Heights = {480, 576}
  Inputs = {"orphan", "recorder", "toggle"}
  AdvPal = FALSE
  ThinEvery = 6
  StallTicks = 1
  Strikes = 3
  KeepAlive = 1
  MaxAge = 1
  FlushOutcomes = {TRUE}
  MaxPass = 1
PROPERTY HostGoneNoticed
