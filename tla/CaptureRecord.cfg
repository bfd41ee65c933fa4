SPECIFICATION FairSpec
CONSTANTS
  Amps = {0, 1, 3}
  NonFinite = 99
  OpenThresh = 2
  CloseThresh = 1
  HoldSamples = 1
  StreakMax = 4
  TargetLen = 12
  MaxSplices = 2
  FinishAfter = 3
  MaxShift = 3
INVARIANTS
  GapsTracked
  GuardsCoverSeams
  ClosesInSilence
PROPERTIES
  CaptureEnds
