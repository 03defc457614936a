SPECIFICATION FairSpec
CONSTANTS
  SegFrames = 1
  RefreshEvery = 1
  StartStable = 1
  LossClose = 1
  MountRetry = 1
  ErrorPause = 1
  TimerWrap = 4
  MaxStall = 1
  BootAge = 2
  Slots = 1
  Commands = {"M", "W"}
  Events = {"TOGGLE", "signal", "card", "flaky", "host"}
PROPERTIES
  RecordsInTheEnd
  HostIsServed
  LossClosesClip
  DeadPathReleased
