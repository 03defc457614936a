SPECIFICATION Spec
CONSTANTS
  Slots = 8
  Late = 1
  MaxFrames = 12
  Heights = {480, 576}
  Inputs = {}
  AdvPal = FALSE
  ThinEvery = 6
  StallTicks = 6
  Strikes = 3
  KeepAlive = 1
  MaxAge = 4
  FlushOutcomes = {FALSE}
  MaxPass = 1
INVARIANT RepeatIntact
