SPECIFICATION PrefSpec
CONSTANTS
  Processes = {p1, p2}
  MaxVersion = 1
  NoFile = NoFile
  Half = Half
INVARIANT LastAnswerHolds
CHECK_DEADLOCK FALSE
