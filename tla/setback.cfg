\* The nine programs that change the machine in the set-ups of SetBack.
CONSTANTS
  Freqs <- MCFreqs
  Count = 4
  MaxSecs = 3
  NSEC_PER_USEC = 3
  USEC_PER_SEC = 2
  Offsets <- MCOffsets
  Errors = {0, 7}
  MILLION = 1000
  SYSTICK = 40
  TOLERANCE = 10
  SLEEP = 4000
  Faults = {0, 19}
  NtpdFreqs = {0, 9}
  Slews = {0, 12}
  Gaps = {1, 20}
  valid_freq <- MCvalid_freq
  outofrange_freq <- MCoutofrange_freq
  invalid_freq <- MCinvalid_freq
  MAXFREQ = 500
  SECOND = 10000
  LAST = 4
  \* "turning": fork may fail.  "switching": only tests can fail; "faulty": fork
  \* and switching too.  "edges": 64 bits, a kernel that takes every time; "32bits":
  \* one that may refuse some.  "failing": the forks or the logger of ntp-converge.
  ForkFails = {"turning", "failing"}
  CallsFail = {"faulty"}
  is32bits = {"32bits"}
  Refuses = {"32bits"}
  BadKernel = {"edges", "32bits"}
  DriftlogMayFail = {"failing"}
  Terminated = {"faulty"}
  dangerous = {}
SPECIFICATION FairSpec
INVARIANTS
  TypeOK
  MachineIsRestored
  NothingIsLeft
  PassMeansWhatMainSaw
  TickIsJudged
  ExperimentIsSound
PROPERTIES
  Ends
