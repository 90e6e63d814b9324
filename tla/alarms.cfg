\* The four programs that measure latencies in the set-ups of Alarms.
CONSTANTS
  PERIOD = 3
  MaxLate = 3
  NrClocks = 3
  Unsupported = {1, 2}
  AlarmClockIds = {2}
  UNREASONABLE_LATENCY = 2
  UNREASONABLE_LAT = 1
  SLEEP = 1
  MaxClock = 101
  UNRESONABLE_LATENCY = 4
  Lengths = 2
  Sleeps = 3
  SleepLatencies <- MCSleepLatencies
  Gaps = {0, 1}
  TARGET_TIMEOUT = 10
  Receives = 5
  ReceiveLatencies = {0, 3, 5, 25}
  Settings <- MCSettings
  Disturbed = TRUE
  FiresEarly = {"eager"}
  SettimeFails = {"unarmed"}
SPECIFICATION FairSpec
INVARIANTS
  TypeOK
  LateAlarmFails
  OnlyLatenessFails
  PassMeansAllTried
  NoStaleAlarm
  AlarmIsSet
PROPERTIES
  Ends
