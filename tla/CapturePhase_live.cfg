SPECIFICATION FairSpec
CONSTANTS
  Configs = {"low", "mid"}
  BufLen <- MCBufLen
  NoConfig = "none"
  MaxGen = 1
  PromptTask = TRUE
  CanLose = FALSE
  CanPanic = FALSE
PROPERTIES
  AnalysisEnds
  PendingArms
