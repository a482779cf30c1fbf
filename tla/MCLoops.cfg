SPECIFICATION MCSpec
CONSTANTS
  Window = 2
  Warmup = 1
  Windows = 1
  MinSamples = 1
  WinMinSamples = 1
  MinRuntime = 0
  ErrDelta = 10
  ErrRatio = 2
  Traffic <- MCTraffic
  MaxNow = 7
  MaxEvents = 2
  MaxChanges = 2
  MaxFaults = 2
CHECK_DEADLOCK FALSE
INVARIANTS
  LatchSound
PROPERTIES
  JudgedWhole
  ConvergedIsTrue
  Converges
  
