SPECIFICATION FairSpec
CONSTANTS
  NoTap = NoTap
  CenterTap <- MCCenterTap
  Sub = 2
  Rates = {4}
  FirCenter = 1
  MaxShifts = {1}
  MaxShiftMax = 2
  Polarities = {"Auto"}
  Trims <- MCTrim
  TrimMax = 2
  NonFinite = NaN
  FadeLen <- MCFadeLen
  Results <- MCResults
  Rejected = Rejected
  NoResult = NoResult
  NoConfig = NoConfig
PROPERTIES
  SettlesOnTarget
