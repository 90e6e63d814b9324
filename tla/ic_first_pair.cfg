CONSTANTS
  NSEC_PER_SEC = 2
  WORD = 8
  CALLS_PER_LOOP = 3
  runtime = 1
  userclock = 0
  maxclocks = 1
  Absent = {1}
  Start = 2
  StepsBack = 1
  MaxTicks = 5
SPECIFICATION Spec
INVARIANTS
  EveryStepBackFails
