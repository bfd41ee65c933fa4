SPECIFICATION Spec
CONSTANTS
  Instances = {i1, i2}
  MaxLives = 1
  MaxReports = 1
  NoFile = NoFile
CHECK_DEADLOCK FALSE
SYMMETRY Symmetry
ACTION_CONSTRAINT OneAnswer
CONSTRAINT Calm
INVARIANTS
  DeathsAccountedFor
  ReportsAreTrue
  ArmedIsWhole
  WindowIsReported
