CONSTANTS
  Count = 2
  Faults = FALSE
  Terminated = TRUE
SPECIFICATION Spec
INVARIANTS
  AsyncFailureFails
