\* The programs of Clocks that judge a clock.
CONSTANTS
  NSEC_PER_SEC = 3
  WORD = 8
  CALLS_PER_LOOP = 3
  runtime = 1
  userclock = 0
  maxclocks = 3
  Absent = {1}
  FirstSecond = 2
  StepsBack = 1
  MaxTicks = 8
  ThreadCount = 3
  MAX_THREADS = 2
  LISTSIZE = 2
  Independent = TRUE
  MaxSec = 0
  NrClocks = 3
  NoClock = {2}
  NoSleep = {1}
  FIRST = 1
  FACTOR = 3
  LAST = 9
  Early = 1
  MaxLate = 3
  KPPM = 10
  SHIFT = 2
  SLEEP = 4
  Freqs <- MCFreqs
  Faults <- MCFaults
  Gaps = {1, 20}
  Ntpd = TRUE
  NAP = 2
  Delays = {0, 5}
  Jumps <- MCJumps
  SleepsStepBack = TRUE
  SECOND = 1000
  OffsetClocks = 2
  MarginFactor = 3
  OffsetTime = 6
SPECIFICATION FairSpec
INVARIANTS
  TypeOK
  NoFalseAlarm
  HealthyRunIsLongEnough
  FaultIsFound
  FailureIsReal
  EarlyWakeFails
  PassMeansAllSlept
PROPERTIES
  RefinesSampler
  Ends
