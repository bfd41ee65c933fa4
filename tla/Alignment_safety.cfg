SPECIFICATION Spec
CONSTANTS
  NoTap = NoTap
  CenterTap <- MCCenterTap
  Sub = 2
  Rates = {3, 4}
  FirCenter = 1
  MaxShifts = {1, 2}
  MaxShiftMax = 2
  Polarities = {"Inverted"}
  Trims <- MCTrims
  TrimMax = 2
  NonFinite = NaN
  FadeLen <- MCFadeLen
  Results <- MCResults
  Rejected = Rejected
  NoResult = NoResult
  NoConfig = NoConfig
INVARIANTS
  TapsInRange
  NeverFadesIntoItself
  SettlesInTwoFades
  EditorMirrorsTarget
PROPERTIES
  FadesRunWhole
