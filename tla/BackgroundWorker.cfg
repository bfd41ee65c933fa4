SPECIFICATION FairSpec
CONSTANTS
  Instances = {a, b, c}
  Workers = {w1, w2}
  TASK_QUEUE_CAPACITY = 2
  Shutdown = Shutdown
  Dead = Dead
  None = None
INVARIANTS
  Served
PROPERTIES
  TeardownEnds
  AcceptedTaskRuns
