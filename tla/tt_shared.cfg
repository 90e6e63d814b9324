CONSTANTS
  NSEC_PER_SEC = 2
  MAX_THREADS = 2
  ThreadCount = 3
  LISTSIZE = 3
  Independent = FALSE
  Runtime = 1
  MaxSec = 1
SPECIFICATION FairSpec
INVARIANTS
  TypeOK
  NoFalseAlarm
  FailureIsGenuine
  StepBackIsFound
PROPERTIES
  ScannedListIsStable
  FlagWhileSleepingFails
  Termination
  RefinesSampler
