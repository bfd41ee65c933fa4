SPECIFICATION FairSpec
CONSTANTS
  Processes = {host}
  Here = host
  Instances = {i1}
  MaxVersion = 2
  QUEUE_CAPACITY = 1
  MaxAnswers = 1
  MaxLives = 1
  NoJob = NoJob
  NoFile = NoFile
  Half = Half
INVARIANTS
  UndecidedShowsChecking
  NoThreadOutlivesInstances
  NoIdWithoutConsent
PROPERTIES
  UpgradeNotConsumed
  CheckEnds
  UnloadEnds
CHECK_DEADLOCK FALSE
