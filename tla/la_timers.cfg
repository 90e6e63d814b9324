CONSTANTS
  NSEC_PER_SEC = 2
  DAY = 16
  NTP_PHASE_LIMIT = 20
  OldKernel = FALSE
  settime = TRUE
  Iterations <- NoIterations
  Starts = {3}
  MaxTimers = 2
  HrtimerBug = FALSE
  Interference = FALSE
  CtrlC = FALSE
  MaxLate = 0
SPECIFICATION Spec
INVARIANTS
  RunsContinuously
