\* The two leap second programs in the set-ups of MCLeap.
CONSTANTS
  Days <- MCDays
  Crash <- MCCrash
SPECIFICATION FairSpec
INVARIANTS
  TypeOK
  LeapComplete
  NoFalseError
  NoAlarmInHrtimerTest
  HrtimerBugIsFound
PROPERTIES
  NoLeapAfterExit
  Ends
