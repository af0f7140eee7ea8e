SPECIFICATION Spec
CONSTANTS
  Jobs = {1, 2, 3, 4}
  LastStage = 3
  Configs <- MCConfigs
INVARIANTS
  TypeOK
  ParallelismIsBounded
  BeginsAfterPrerequisites
  NoShellOutlivesRun
  ResultIsEarned
PROPERTY
  Returns
CHECK_DEADLOCK FALSE
