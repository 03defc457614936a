SPECIFICATION Spec
CONSTANTS
  Slots = 3
  Late = 1
  MaxFrames = 2
  Heights = {480, 576}
  Inputs = {"signal", "dump", "standard", "recorder", "reset"}
  AdvPal = TRUE
  ThinEvery = 2
  StallTicks = 1
  Strikes = 2
  KeepAlive = 1
  MaxAge = 1
  FlushOutcomes = {TRUE, FALSE}
  MaxPass = 1
INVARIANTS
  FlightAccounted
  HeightAsOffered
PROPERTIES
  StaleOnlyBeforeFlush
