SPECIFICATION Spec
CONSTANTS
  Addresses = {a1, a2, a3}
  Sizes = {1, 2}
  TRIM_RANGE = 2
  MaxSnapshots = 3
  MaxQueue = 2
SYMMETRY Symmetry
INVARIANTS
  FramesShowCurrent
  NudgesBuild
