SPECIFICATION Spec
CONSTANTS
  Slots = 5
  Late = 1
  MaxFrames = 8
  Heights = {480, 576}
  Inputs = {}
  AdvPal = FALSE
  ThinEvery = 6
  StallTicks = 1
  Strikes = 2
  KeepAlive = 1
  MaxAge = 1
  FlushOutcomes = {FALSE}
  MaxPass = 1
PROPERTY OpenSticks
