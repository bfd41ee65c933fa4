SPECIFICATION Spec
CONSTANTS
  Configs = {"low", "high"}
  BufLen <- MCBufLen
  NoConfig = "none"
  MaxGen = 2
  PromptTask = TRUE
  CanLose = TRUE
  CanPanic = TRUE
INVARIANTS
  BorrowNeverPanics
  IndexInBounds
  CancelLands
PROPERTIES
  ReleasesOwnPhase
  IntentSurvivesHostCalls
  LoadArmsNothing
  RefinesCycle
