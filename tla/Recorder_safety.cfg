SPECIFICATION Spec
CONSTANTS
  SegFrames = 3
  RefreshEvery = 2
  StartStable = 1
  LossClose = 2
  MountRetry = 1
  ErrorPause = 1
  TimerWrap = 5
  MaxStall = 1
  BootAge = 2
  Slots = 2
  Commands = {"R", "A", "c"}
  Events = {"TOGGLE", "signal", "card", "flaky", "host"}
INVARIANTS
  TypeOK
  CardInv
  ExposureBound
PROPERTIES
  OwnershipKept
  UserStopSticks
