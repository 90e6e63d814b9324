CONSTANTS
  NrClocks = 1
  Unsupported = {}
  AlarmClocks = {}
  PERIOD = 3
  UNREASONABLE_LATENCY = 2
  FiresEarly = TRUE
  MaxLate = 1
SPECIFICATION Spec
INVARIANTS
  EarlyAlarmFails
