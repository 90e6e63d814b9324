CONSTANTS
  NSEC_PER_SEC = 2
  MAX_THREADS = 2
  ThreadCount = 2
  LISTSIZE = 2
  Independent = FALSE
  Runtime = 1
  MaxSec = 1
SPECIFICATION Spec
INVARIANTS
  FailedIsReported
