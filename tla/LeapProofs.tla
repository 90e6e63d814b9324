------------------------------ MODULE LeapProofs ------------------------------
(***************************************************************************)
(* What leap-a-day and leapcrash promise, as properties of the suite Leap:   *)
(* for all set-ups that are what LeapAssumption says they are for.  The       *)
(* proofs are in LeapADayProofs and LeapCrashProofs, which are instantiated   *)
(* here for each set-up; what remains to be shown is that a run of the suite  *)
(* in a set-up is a run of the program with its constants.                   *)
(***************************************************************************)
EXTENDS Leap, TLAPS

-------------------------------------------------------------------------------
(* leap-a-day, ctrl-c at any point.                                        *)

CtrlcP == INSTANCE LeapADayProofs WITH
  NSEC_PER_SEC <- 2, DAY <- Days["ctrlc"].DAY, NTP_PHASE_LIMIT <- Days["ctrlc"].NTP_PHASE_LIMIT,
  OldKernel <- Days["ctrlc"].OldKernel, settime <- Days["ctrlc"].settime,
  Iterations <- Days["ctrlc"].Iterations, Starts <- Days["ctrlc"].Starts,
  MaxTimers <- Days["ctrlc"].MaxTimers, HrtimerBug <- Days["ctrlc"].HrtimerBug,
  Interference <- Days["ctrlc"].Interference, CtrlC <- Days["ctrlc"].CtrlC,
  MaxLate <- Days["ctrlc"].MaxLate

\* The constants are what the theorems ask for.
LEMMA CtrlcConstants ==
  /\ CtrlcP!NsecAssumption /\ CtrlcP!LongDay
  /\ CtrlcP!LeapADayAssumption /\ CtrlcP!NtpAssumption /\ CtrlcP!Timely
<1>1. CtrlcP!NsecAssumption
  BY DEF CtrlcP!NsecAssumption
<1>2. CtrlcP!LeapADayAssumption /\ CtrlcP!NtpAssumption /\ CtrlcP!Timely
  BY LeapAssumption
  DEF Leaping!LeapADayAssumption, CtrlcP!LeapADayAssumption, Leaping!NtpAssumption,
      CtrlcP!NtpAssumption, Leaping!Timely, CtrlcP!Timely, Leaping!Spare, CtrlcP!Spare, DaySetups
<1>3. CtrlcP!LongDay
  BY <1>2
  DEF CtrlcP!LongDay, CtrlcP!Timely, CtrlcP!Spare, CtrlcP!LeapADayAssumption,
      CtrlcP!NtpAssumption
<1> QED
  BY <1>1, <1>2, <1>3

\* Both instances are of one specification.
LEMMA CtrlcInit == Leaping("ctrlc")!Init => CtrlcP!Init
BY Zenon
DEF Leaping!Init, CtrlcP!Init, Leaping!InitialNtp, CtrlcP!InitialNtp

LEMMA CtrlcNext == [Leaping("ctrlc")!Next]_(Leaping("ctrlc")!vars) => [CtrlcP!Next]_(CtrlcP!vars)
BY Zenon
DEF Leaping!Next, CtrlcP!Next, Leaping!Tick, CtrlcP!Tick, Leaping!AfterExit, CtrlcP!AfterExit,
    Leaping!Expire, CtrlcP!Expire, Leaping!Interfere, CtrlcP!Interfere, Leaping!sigalarm,
    CtrlcP!sigalarm, Leaping!handler, CtrlcP!handler, Leaping!Main, CtrlcP!Main,
    Leaping!GetTime, CtrlcP!GetTime, Leaping!SetTime, CtrlcP!SetTime, Leaping!clear_time_state,
    CtrlcP!clear_time_state, Leaping!SetLeap, CtrlcP!SetLeap, Leaping!Validate, CtrlcP!Validate,
    Leaping!CreateTimer, CtrlcP!CreateTimer, Leaping!ArmTimer, CtrlcP!ArmTimer, Leaping!Wake,
    CtrlcP!Wake, Leaping!Recheck, CtrlcP!Recheck, Leaping!Watch, CtrlcP!Watch, Leaping!Nap,
    CtrlcP!Nap, Leaping!HrStart, CtrlcP!HrStart, Leaping!HrEnd, CtrlcP!HrEnd, Leaping!Verdict,
    CtrlcP!Verdict, Leaping!At, CtrlcP!At, Leaping!LeapFlag, CtrlcP!LeapFlag,
    Leaping!StatusIsLeap, CtrlcP!StatusIsLeap, Leaping!TimerClock, CtrlcP!TimerClock,
    Leaping!Expired, CtrlcP!Expired, Leaping!Due, CtrlcP!Due, Leaping!Asleep, CtrlcP!Asleep,
    Leaping!kernelVars, CtrlcP!kernelVars, Leaping!sigVars, CtrlcP!sigVars, Leaping!localVars,
    CtrlcP!localVars, Leaping!vars, CtrlcP!vars, Leaping!in_order, CtrlcP!in_order,
    Leaping!timespec_add, CtrlcP!timespec_add, Leaping!adj_status, CtrlcP!adj_status,
    Leaping!adj_maxerror, CtrlcP!adj_maxerror, Leaping!adj_ret, CtrlcP!adj_ret, Leaping!set_ntp,
    CtrlcP!set_ntp, Leaping!Withdrawn, CtrlcP!Withdrawn, Leaping!next_state, CtrlcP!next_state,
    Leaping!second_overflow, CtrlcP!second_overflow, Leaping!leap, CtrlcP!leap

LEMMA CtrlcProperties ==
  /\ CtrlcP!TypeOK => Leaping("ctrlc")!TypeOK
  /\ CtrlcP!LeapComplete => Leaping("ctrlc")!LeapComplete
  /\ CtrlcP!NoAlarmInHrtimerTest => Leaping("ctrlc")!NoAlarmInHrtimerTest
  /\ [CtrlcP!NoLeapStep]_clock => [Leaping("ctrlc")!NoLeapStep]_clock
BY Zenon
DEF Leaping!TypeOK, CtrlcP!TypeOK, Leaping!Timespec, CtrlcP!Timespec, Leaping!Ntp, CtrlcP!Ntp,
    Leaping!States, CtrlcP!States, Leaping!Flags, CtrlcP!Flags, Leaping!LeapComplete,
    CtrlcP!LeapComplete, Leaping!NoAlarmInHrtimerTest, CtrlcP!NoAlarmInHrtimerTest,
    Leaping!NoLeapStep, CtrlcP!NoLeapStep, Leaping!timespec_add, CtrlcP!timespec_add

IsCtrlc == setup = "ctrlc"

LEMMA CtrlcStays == [Next]_vars => (IsCtrlc <=> IsCtrlc')
BY DEF Next, vars, IsCtrlc, LeapADay, LeapCrash

\* A run in this set-up is one of leap-a-day.
LEMMA CtrlcRuns == Spec => (IsCtrlc => CtrlcP!Spec)
<1>1. Init /\ IsCtrlc => CtrlcP!Init
  BY CtrlcInit DEF Init, IsCtrlc, DaySetups
<1>2. IsCtrlc /\ [Next]_vars => [CtrlcP!Next]_(CtrlcP!vars)
  <2> SUFFICES ASSUME IsCtrlc, [Next]_vars PROVE [Leaping("ctrlc")!Next]_(Leaping("ctrlc")!vars)
    BY CtrlcNext
  <2>1. CASE UNCHANGED vars
    BY <2>1 DEF vars, commonVars, dayVars, Leaping!vars, Leaping!kernelVars,
                Leaping!localVars
  <2>2. CASE Next
    BY <2>2 DEF Next, IsCtrlc, LeapADay, LeapCrash
  <2> QED
    BY <2>1, <2>2
<1> QED
  BY <1>1, <1>2, CtrlcStays, PTL DEF Spec, CtrlcP!Spec

CtrlcOK == IsCtrlc => Leaping("ctrlc")!TypeOK /\ Leaping("ctrlc")!LeapComplete /\
  Leaping("ctrlc")!NoAlarmInHrtimerTest

\* Such a run has the properties that are proved of leap-a-day.
THEOREM CtrlcInvariant == Spec => []CtrlcOK
<1>1. CtrlcP!Spec => []CtrlcP!TypeOK
  BY CtrlcConstants, CtrlcP!TypeCorrect
<1>2. CtrlcP!Spec => []CtrlcP!LeapComplete
  BY CtrlcConstants, CtrlcP!LeapsComplete
<1>3. CtrlcP!Spec => []CtrlcP!NoAlarmInHrtimerTest
  BY CtrlcConstants, CtrlcP!AlarmsAreOver
<1>4. CtrlcP!TypeOK /\ CtrlcP!LeapComplete /\ CtrlcP!NoAlarmInHrtimerTest => CtrlcOK
  BY CtrlcProperties DEF CtrlcOK
<1>5. ~IsCtrlc => CtrlcOK
  BY DEF CtrlcOK
<1> QED
  BY <1>1, <1>2, <1>3, <1>4, <1>5, CtrlcRuns, CtrlcStays, PTL DEF Spec

-------------------------------------------------------------------------------
(* leap-a-day, long delays.                                                *)

LateP == INSTANCE LeapADayProofs WITH
  NSEC_PER_SEC <- 2, DAY <- Days["late"].DAY, NTP_PHASE_LIMIT <- Days["late"].NTP_PHASE_LIMIT,
  OldKernel <- Days["late"].OldKernel, settime <- Days["late"].settime,
  Iterations <- Days["late"].Iterations, Starts <- Days["late"].Starts,
  MaxTimers <- Days["late"].MaxTimers, HrtimerBug <- Days["late"].HrtimerBug,
  Interference <- Days["late"].Interference, CtrlC <- Days["late"].CtrlC,
  MaxLate <- Days["late"].MaxLate

\* The constants are what the theorems ask for.
LEMMA LateConstants ==
  /\ LateP!NsecAssumption /\ LateP!LongDay
  /\ LateP!LeapADayAssumption /\ LateP!NtpAssumption /\ LateP!Timely /\ LateP!Sound
<1>1. LateP!NsecAssumption
  BY DEF LateP!NsecAssumption
<1>2. LateP!LeapADayAssumption /\ LateP!NtpAssumption /\ LateP!Timely /\ LateP!Sound
  BY LeapAssumption
  DEF Leaping!LeapADayAssumption, LateP!LeapADayAssumption, Leaping!NtpAssumption,
      LateP!NtpAssumption, Leaping!Timely, LateP!Timely, Leaping!Spare, LateP!Spare,
      Leaping!Sound, LateP!Sound, Leaping!Ahead, LateP!Ahead, DaySetups
<1>3. LateP!LongDay
  BY <1>2
  DEF LateP!LongDay, LateP!Timely, LateP!Spare, LateP!LeapADayAssumption,
      LateP!NtpAssumption
<1> QED
  BY <1>1, <1>2, <1>3

\* Both instances are of one specification.
LEMMA LateInit == Leaping("late")!Init => LateP!Init
BY Zenon
DEF Leaping!Init, LateP!Init, Leaping!InitialNtp, LateP!InitialNtp

LEMMA LateNext == [Leaping("late")!Next]_(Leaping("late")!vars) => [LateP!Next]_(LateP!vars)
BY Zenon
DEF Leaping!Next, LateP!Next, Leaping!Tick, LateP!Tick, Leaping!AfterExit, LateP!AfterExit,
    Leaping!Expire, LateP!Expire, Leaping!Interfere, LateP!Interfere, Leaping!sigalarm,
    LateP!sigalarm, Leaping!handler, LateP!handler, Leaping!Main, LateP!Main, Leaping!GetTime,
    LateP!GetTime, Leaping!SetTime, LateP!SetTime, Leaping!clear_time_state,
    LateP!clear_time_state, Leaping!SetLeap, LateP!SetLeap, Leaping!Validate, LateP!Validate,
    Leaping!CreateTimer, LateP!CreateTimer, Leaping!ArmTimer, LateP!ArmTimer, Leaping!Wake,
    LateP!Wake, Leaping!Recheck, LateP!Recheck, Leaping!Watch, LateP!Watch, Leaping!Nap,
    LateP!Nap, Leaping!HrStart, LateP!HrStart, Leaping!HrEnd, LateP!HrEnd, Leaping!Verdict,
    LateP!Verdict, Leaping!At, LateP!At, Leaping!LeapFlag, LateP!LeapFlag, Leaping!StatusIsLeap,
    LateP!StatusIsLeap, Leaping!TimerClock, LateP!TimerClock, Leaping!Expired, LateP!Expired,
    Leaping!Due, LateP!Due, Leaping!Asleep, LateP!Asleep, Leaping!kernelVars, LateP!kernelVars,
    Leaping!sigVars, LateP!sigVars, Leaping!localVars, LateP!localVars, Leaping!vars,
    LateP!vars, Leaping!in_order, LateP!in_order, Leaping!timespec_add, LateP!timespec_add,
    Leaping!adj_status, LateP!adj_status, Leaping!adj_maxerror, LateP!adj_maxerror,
    Leaping!adj_ret, LateP!adj_ret, Leaping!set_ntp, LateP!set_ntp, Leaping!Withdrawn,
    LateP!Withdrawn, Leaping!next_state, LateP!next_state, Leaping!second_overflow,
    LateP!second_overflow, Leaping!leap, LateP!leap

LEMMA LateProperties ==
  /\ LateP!NoFalseError => Leaping("late")!NoFalseError
BY Zenon
DEF Leaping!NoFalseError, LateP!NoFalseError

IsLate == setup = "late"

LEMMA LateStays == [Next]_vars => (IsLate <=> IsLate')
BY DEF Next, vars, IsLate, LeapADay, LeapCrash

\* A run in this set-up is one of leap-a-day.
LEMMA LateRuns == Spec => (IsLate => LateP!Spec)
<1>1. Init /\ IsLate => LateP!Init
  BY LateInit DEF Init, IsLate, DaySetups
<1>2. IsLate /\ [Next]_vars => [LateP!Next]_(LateP!vars)
  <2> SUFFICES ASSUME IsLate, [Next]_vars PROVE [Leaping("late")!Next]_(Leaping("late")!vars)
    BY LateNext
  <2>1. CASE UNCHANGED vars
    BY <2>1 DEF vars, commonVars, dayVars, Leaping!vars, Leaping!kernelVars,
                Leaping!localVars
  <2>2. CASE Next
    BY <2>2 DEF Next, IsLate, LeapADay, LeapCrash
  <2> QED
    BY <2>1, <2>2
<1> QED
  BY <1>1, <1>2, LateStays, PTL DEF Spec, LateP!Spec

LateOK == IsLate => Leaping("late")!NoFalseError

\* Such a run has the properties that are proved of leap-a-day.
THEOREM LateInvariant == Spec => []LateOK
<1>1. LateP!Spec => []LateP!NoFalseError
  BY LateConstants, LateP!SoundKernelsPass
<1>2. LateP!NoFalseError => LateOK
  BY LateProperties DEF LateOK
<1>3. ~IsLate => LateOK
  BY DEF LateOK
<1> QED
  BY <1>1, <1>2, <1>3, LateRuns, LateStays, PTL DEF Spec

-------------------------------------------------------------------------------
(* leap-a-day, a kernel whose timers miss the leap.                        *)

BuggyP == INSTANCE LeapADayProofs WITH
  NSEC_PER_SEC <- 2, DAY <- Days["buggy"].DAY, NTP_PHASE_LIMIT <- Days["buggy"].NTP_PHASE_LIMIT,
  OldKernel <- Days["buggy"].OldKernel, settime <- Days["buggy"].settime,
  Iterations <- Days["buggy"].Iterations, Starts <- Days["buggy"].Starts,
  MaxTimers <- Days["buggy"].MaxTimers, HrtimerBug <- Days["buggy"].HrtimerBug,
  Interference <- Days["buggy"].Interference, CtrlC <- Days["buggy"].CtrlC,
  MaxLate <- Days["buggy"].MaxLate

\* The constants are what the theorems ask for.
LEMMA BuggyConstants ==
  /\ BuggyP!NsecAssumption /\ BuggyP!LongDay
  /\ BuggyP!LeapADayAssumption /\ BuggyP!NtpAssumption /\ BuggyP!Timely
<1>1. BuggyP!NsecAssumption
  BY DEF BuggyP!NsecAssumption
<1>2. BuggyP!LeapADayAssumption /\ BuggyP!NtpAssumption /\ BuggyP!Timely
  BY LeapAssumption
  DEF Leaping!LeapADayAssumption, BuggyP!LeapADayAssumption, Leaping!NtpAssumption,
      BuggyP!NtpAssumption, Leaping!Timely, BuggyP!Timely, Leaping!Spare, BuggyP!Spare, DaySetups
<1>3. BuggyP!LongDay
  BY <1>2
  DEF BuggyP!LongDay, BuggyP!Timely, BuggyP!Spare, BuggyP!LeapADayAssumption,
      BuggyP!NtpAssumption
<1> QED
  BY <1>1, <1>2, <1>3

\* Both instances are of one specification.
LEMMA BuggyInit == Leaping("buggy")!Init => BuggyP!Init
BY Zenon
DEF Leaping!Init, BuggyP!Init, Leaping!InitialNtp, BuggyP!InitialNtp

LEMMA BuggyNext == [Leaping("buggy")!Next]_(Leaping("buggy")!vars) => [BuggyP!Next]_(BuggyP!vars)
BY Zenon
DEF Leaping!Next, BuggyP!Next, Leaping!Tick, BuggyP!Tick, Leaping!AfterExit, BuggyP!AfterExit,
    Leaping!Expire, BuggyP!Expire, Leaping!Interfere, BuggyP!Interfere, Leaping!sigalarm,
    BuggyP!sigalarm, Leaping!handler, BuggyP!handler, Leaping!Main, BuggyP!Main,
    Leaping!GetTime, BuggyP!GetTime, Leaping!SetTime, BuggyP!SetTime, Leaping!clear_time_state,
    BuggyP!clear_time_state, Leaping!SetLeap, BuggyP!SetLeap, Leaping!Validate, BuggyP!Validate,
    Leaping!CreateTimer, BuggyP!CreateTimer, Leaping!ArmTimer, BuggyP!ArmTimer, Leaping!Wake,
    BuggyP!Wake, Leaping!Recheck, BuggyP!Recheck, Leaping!Watch, BuggyP!Watch, Leaping!Nap,
    BuggyP!Nap, Leaping!HrStart, BuggyP!HrStart, Leaping!HrEnd, BuggyP!HrEnd, Leaping!Verdict,
    BuggyP!Verdict, Leaping!At, BuggyP!At, Leaping!LeapFlag, BuggyP!LeapFlag,
    Leaping!StatusIsLeap, BuggyP!StatusIsLeap, Leaping!TimerClock, BuggyP!TimerClock,
    Leaping!Expired, BuggyP!Expired, Leaping!Due, BuggyP!Due, Leaping!Asleep, BuggyP!Asleep,
    Leaping!kernelVars, BuggyP!kernelVars, Leaping!sigVars, BuggyP!sigVars, Leaping!localVars,
    BuggyP!localVars, Leaping!vars, BuggyP!vars, Leaping!in_order, BuggyP!in_order,
    Leaping!timespec_add, BuggyP!timespec_add, Leaping!adj_status, BuggyP!adj_status,
    Leaping!adj_maxerror, BuggyP!adj_maxerror, Leaping!adj_ret, BuggyP!adj_ret, Leaping!set_ntp,
    BuggyP!set_ntp, Leaping!Withdrawn, BuggyP!Withdrawn, Leaping!next_state, BuggyP!next_state,
    Leaping!second_overflow, BuggyP!second_overflow, Leaping!leap, BuggyP!leap

LEMMA BuggyProperties ==
  /\ BuggyP!HrtimerBugIsFound => Leaping("buggy")!HrtimerBugIsFound
BY Zenon
DEF Leaping!HrtimerBugIsFound, BuggyP!HrtimerBugIsFound

IsBuggy == setup = "buggy"

LEMMA BuggyStays == [Next]_vars => (IsBuggy <=> IsBuggy')
BY DEF Next, vars, IsBuggy, LeapADay, LeapCrash

\* A run in this set-up is one of leap-a-day.
LEMMA BuggyRuns == Spec => (IsBuggy => BuggyP!Spec)
<1>1. Init /\ IsBuggy => BuggyP!Init
  BY BuggyInit DEF Init, IsBuggy, DaySetups
<1>2. IsBuggy /\ [Next]_vars => [BuggyP!Next]_(BuggyP!vars)
  <2> SUFFICES ASSUME IsBuggy, [Next]_vars PROVE [Leaping("buggy")!Next]_(Leaping("buggy")!vars)
    BY BuggyNext
  <2>1. CASE UNCHANGED vars
    BY <2>1 DEF vars, commonVars, dayVars, Leaping!vars, Leaping!kernelVars,
                Leaping!localVars
  <2>2. CASE Next
    BY <2>2 DEF Next, IsBuggy, LeapADay, LeapCrash
  <2> QED
    BY <2>1, <2>2
<1> QED
  BY <1>1, <1>2, BuggyStays, PTL DEF Spec, BuggyP!Spec

BuggyOK == IsBuggy => Leaping("buggy")!HrtimerBugIsFound

\* Such a run has the properties that are proved of leap-a-day.
THEOREM BuggyInvariant == Spec => []BuggyOK
<1>1. BuggyP!Spec => []BuggyP!HrtimerBugIsFound
  BY BuggyConstants, BuggyP!TimerBugFails, LeapAssumption
<1>2. BuggyP!HrtimerBugIsFound => BuggyOK
  BY BuggyProperties DEF BuggyOK
<1>3. ~IsBuggy => BuggyOK
  BY DEF BuggyOK
<1> QED
  BY <1>1, <1>2, <1>3, BuggyRuns, BuggyStays, PTL DEF Spec

-------------------------------------------------------------------------------
(* leap-a-day, without -s.                                                 *)

WaitingP == INSTANCE LeapADayProofs WITH
  NSEC_PER_SEC <- 2, DAY <- Days["waiting"].DAY,
  NTP_PHASE_LIMIT <- Days["waiting"].NTP_PHASE_LIMIT, OldKernel <- Days["waiting"].OldKernel,
  settime <- Days["waiting"].settime, Iterations <- Days["waiting"].Iterations,
  Starts <- Days["waiting"].Starts, MaxTimers <- Days["waiting"].MaxTimers,
  HrtimerBug <- Days["waiting"].HrtimerBug, Interference <- Days["waiting"].Interference,
  CtrlC <- Days["waiting"].CtrlC, MaxLate <- Days["waiting"].MaxLate

\* The constants are what the theorems ask for.
LEMMA WaitingConstants ==
  /\ WaitingP!NsecAssumption /\ WaitingP!LongDay
  /\ WaitingP!LeapADayAssumption /\ WaitingP!NtpAssumption /\ WaitingP!Timely /\ WaitingP!Sound
<1>1. WaitingP!NsecAssumption
  BY DEF WaitingP!NsecAssumption
<1>2. WaitingP!LeapADayAssumption /\ WaitingP!NtpAssumption /\ WaitingP!Timely /\ WaitingP!Sound
  BY LeapAssumption
  DEF Leaping!LeapADayAssumption, WaitingP!LeapADayAssumption, Leaping!NtpAssumption,
      WaitingP!NtpAssumption, Leaping!Timely, WaitingP!Timely, Leaping!Spare, WaitingP!Spare,
      Leaping!Sound, WaitingP!Sound, Leaping!Ahead, WaitingP!Ahead, DaySetups
<1>3. WaitingP!LongDay
  BY <1>2
  DEF WaitingP!LongDay, WaitingP!Timely, WaitingP!Spare, WaitingP!LeapADayAssumption,
      WaitingP!NtpAssumption
<1> QED
  BY <1>1, <1>2, <1>3

\* Both instances are of one specification.
LEMMA WaitingInit == Leaping("waiting")!Init => WaitingP!Init
BY Zenon
DEF Leaping!Init, WaitingP!Init, Leaping!InitialNtp, WaitingP!InitialNtp

LEMMA WaitingNext == [Leaping("waiting")!Next]_(Leaping("waiting")!vars) =>
  [WaitingP!Next]_(WaitingP!vars)
BY Zenon
DEF Leaping!Next, WaitingP!Next, Leaping!Tick, WaitingP!Tick, Leaping!AfterExit,
    WaitingP!AfterExit, Leaping!Expire, WaitingP!Expire, Leaping!Interfere, WaitingP!Interfere,
    Leaping!sigalarm, WaitingP!sigalarm, Leaping!handler, WaitingP!handler, Leaping!Main,
    WaitingP!Main, Leaping!GetTime, WaitingP!GetTime, Leaping!SetTime, WaitingP!SetTime,
    Leaping!clear_time_state, WaitingP!clear_time_state, Leaping!SetLeap, WaitingP!SetLeap,
    Leaping!Validate, WaitingP!Validate, Leaping!CreateTimer, WaitingP!CreateTimer,
    Leaping!ArmTimer, WaitingP!ArmTimer, Leaping!Wake, WaitingP!Wake, Leaping!Recheck,
    WaitingP!Recheck, Leaping!Watch, WaitingP!Watch, Leaping!Nap, WaitingP!Nap, Leaping!HrStart,
    WaitingP!HrStart, Leaping!HrEnd, WaitingP!HrEnd, Leaping!Verdict, WaitingP!Verdict,
    Leaping!At, WaitingP!At, Leaping!LeapFlag, WaitingP!LeapFlag, Leaping!StatusIsLeap,
    WaitingP!StatusIsLeap, Leaping!TimerClock, WaitingP!TimerClock, Leaping!Expired,
    WaitingP!Expired, Leaping!Due, WaitingP!Due, Leaping!Asleep, WaitingP!Asleep,
    Leaping!kernelVars, WaitingP!kernelVars, Leaping!sigVars, WaitingP!sigVars,
    Leaping!localVars, WaitingP!localVars, Leaping!vars, WaitingP!vars, Leaping!in_order,
    WaitingP!in_order, Leaping!timespec_add, WaitingP!timespec_add, Leaping!adj_status,
    WaitingP!adj_status, Leaping!adj_maxerror, WaitingP!adj_maxerror, Leaping!adj_ret,
    WaitingP!adj_ret, Leaping!set_ntp, WaitingP!set_ntp, Leaping!Withdrawn, WaitingP!Withdrawn,
    Leaping!next_state, WaitingP!next_state, Leaping!second_overflow, WaitingP!second_overflow,
    Leaping!leap, WaitingP!leap

LEMMA WaitingProperties ==
  /\ WaitingP!LeapComplete => Leaping("waiting")!LeapComplete
  /\ WaitingP!NoFalseError => Leaping("waiting")!NoFalseError
BY Zenon
DEF Leaping!LeapComplete, WaitingP!LeapComplete, Leaping!NoFalseError, WaitingP!NoFalseError

IsWaiting == setup = "waiting"

LEMMA WaitingStays == [Next]_vars => (IsWaiting <=> IsWaiting')
BY DEF Next, vars, IsWaiting, LeapADay, LeapCrash

\* A run in this set-up is one of leap-a-day.
LEMMA WaitingRuns == Spec => (IsWaiting => WaitingP!Spec)
<1>1. Init /\ IsWaiting => WaitingP!Init
  BY WaitingInit DEF Init, IsWaiting, DaySetups
<1>2. IsWaiting /\ [Next]_vars => [WaitingP!Next]_(WaitingP!vars)
  <2> SUFFICES ASSUME IsWaiting, [Next]_vars
               PROVE  [Leaping("waiting")!Next]_(Leaping("waiting")!vars)
    BY WaitingNext
  <2>1. CASE UNCHANGED vars
    BY <2>1 DEF vars, commonVars, dayVars, Leaping!vars, Leaping!kernelVars,
                Leaping!localVars
  <2>2. CASE Next
    BY <2>2 DEF Next, IsWaiting, LeapADay, LeapCrash
  <2> QED
    BY <2>1, <2>2
<1> QED
  BY <1>1, <1>2, WaitingStays, PTL DEF Spec, WaitingP!Spec

WaitingOK == IsWaiting => Leaping("waiting")!LeapComplete /\ Leaping("waiting")!NoFalseError

\* Such a run has the properties that are proved of leap-a-day.
THEOREM WaitingInvariant == Spec => []WaitingOK
<1>1. WaitingP!Spec => []WaitingP!LeapComplete
  BY WaitingConstants, WaitingP!LeapsComplete
<1>2. WaitingP!Spec => []WaitingP!NoFalseError
  BY WaitingConstants, WaitingP!SoundKernelsPass
<1>3. WaitingP!LeapComplete /\ WaitingP!NoFalseError => WaitingOK
  BY WaitingProperties DEF WaitingOK
<1>4. ~IsWaiting => WaitingOK
  BY DEF WaitingOK
<1> QED
  BY <1>1, <1>2, <1>3, <1>4, WaitingRuns, WaitingStays, PTL DEF Spec

-------------------------------------------------------------------------------
(* leapcrash.                                                              *)

CrashP == INSTANCE LeapCrashProofs WITH
  NSEC_PER_SEC <- 2, DAY <- Crash.DAY, NTP_PHASE_LIMIT <- Crash.NTP_PHASE_LIMIT,
  OldKernel <- Crash.OldKernel, COUNT <- Crash.COUNT, Start <- Crash.Start

LEMMA CrashConstants ==
  CrashP!NsecAssumption /\ CrashP!NtpAssumption /\ CrashP!LeapCrashAssumption /\ CrashP!LongDay
BY LeapAssumption
DEF Crashing!NtpAssumption, CrashP!NtpAssumption, Crashing!LeapCrashAssumption,
    CrashP!LeapCrashAssumption, Crashing!LongDay, CrashP!LongDay, CrashP!NsecAssumption

LEMMA CrashInit == Crashing!Init => CrashP!Init
BY Zenon DEF Crashing!Init, CrashP!Init

LEMMA CrashNext == [Crashing!Next]_(Crashing!vars) => [CrashP!Next]_(CrashP!vars)
BY Zenon
DEF Crashing!Next, CrashP!Next, Crashing!Tick, CrashP!Tick, Crashing!handler, CrashP!handler,
    Crashing!Main, CrashP!Main, Crashing!clear_time_state, CrashP!clear_time_state,
    Crashing!GetTime, CrashP!GetTime, Crashing!SetTime, CrashP!SetTime, Crashing!ReadTime,
    CrashP!ReadTime, Crashing!Hammer, CrashP!Hammer, Crashing!Goto, CrashP!Goto, Crashing!vars,
    CrashP!vars, Crashing!adj_status, CrashP!adj_status, Crashing!set_ntp, CrashP!set_ntp,
    Crashing!Withdrawn, CrashP!Withdrawn, Crashing!next_state, CrashP!next_state,
    Crashing!second_overflow, CrashP!second_overflow, Crashing!leap, CrashP!leap

LEMMA CrashProperties ==
  /\ CrashP!TypeOK => Crashing!TypeOK
  /\ CrashP!EveryRoundLeaps => Crashing!EveryRoundLeaps
  /\ [CrashP!NoLeapStep]_clock => [Crashing!NoLeapStep]_clock
BY Zenon
DEF Crashing!TypeOK, CrashP!TypeOK, Crashing!Ntp, CrashP!Ntp, Crashing!States, CrashP!States,
    Crashing!Flags, CrashP!Flags, Crashing!EveryRoundLeaps, CrashP!EveryRoundLeaps,
    Crashing!NoLeapStep, CrashP!NoLeapStep

IsCrash == setup = "crash"

LEMMA CrashStays == [Next]_vars => (IsCrash <=> IsCrash')
BY DEF Next, vars, IsCrash, LeapADay, LeapCrash, DaySetups

\* A run in this set-up is one of leapcrash.
LEMMA CrashRuns == Spec => (IsCrash => CrashP!Spec)
<1>1. Init /\ IsCrash => CrashP!Init
  BY CrashInit DEF Init, IsCrash, DaySetups
<1>2. IsCrash /\ [Next]_vars => [CrashP!Next]_(CrashP!vars)
  <2> SUFFICES ASSUME IsCrash, [Next]_vars PROVE [Crashing!Next]_(Crashing!vars)
    BY CrashNext
  <2>1. CASE UNCHANGED vars
    BY <2>1 DEF vars, commonVars, crashVars, Crashing!vars
  <2>2. CASE Next
    BY <2>2 DEF Next, IsCrash, LeapADay, LeapCrash, DaySetups
  <2> QED
    BY <2>1, <2>2
<1> QED
  BY <1>1, <1>2, CrashStays, PTL DEF Spec, CrashP!Spec

CrashOK == IsCrash => Crashing!TypeOK /\ Crashing!EveryRoundLeaps

\* Such a run has the properties that are proved of leapcrash.
THEOREM CrashInvariant == Spec => []CrashOK
<1>1. CrashP!Spec => []CrashP!TypeOK
  BY CrashConstants, CrashP!TypeCorrect
<1>2. CrashP!Spec => []CrashP!EveryRoundLeaps
  BY CrashConstants, CrashP!RoundsLeap
<1>3. CrashP!TypeOK /\ CrashP!EveryRoundLeaps => CrashOK
  BY CrashProperties DEF CrashOK
<1>4. ~IsCrash => CrashOK
  BY DEF CrashOK
<1> QED
  BY <1>1, <1>2, <1>3, <1>4, CrashRuns, CrashStays, PTL DEF Spec

-------------------------------------------------------------------------------
(* The suite.                                                              *)

\* Types of both programs.
THEOREM SuiteTypes == Spec => []TypeOK
<1>1. CtrlcOK /\ CrashOK => TypeOK
  BY DEF CtrlcOK, CrashOK, IsCtrlc, IsCrash, TypeOK
<1> QED
  BY <1>1, CtrlcInvariant, CrashInvariant, PTL

\* Once either program is over, by ctrl-c in the middle of its own clean-up too, the
\* clock does not leap.
THEOREM SuiteStaysClear == Spec => NoLeapAfterExit
<1>1. CtrlcP!Spec => [][CtrlcP!NoLeapStep]_clock
  BY CtrlcConstants, CtrlcP!ClockStaysClear DEF CtrlcP!NoLeapAfterExit
<1>2. CrashP!Spec => [][CrashP!NoLeapStep]_clock
  BY CrashConstants, CrashP!CrashStaysClear DEF CrashP!NoLeapAfterExit
<1>3. /\ IsCtrlc => [CtrlcP!NoLeapStep]_clock
      /\ IsCrash => [CrashP!NoLeapStep]_clock
      => [NoLeapStep]_clock
  BY CtrlcProperties, CrashProperties DEF NoLeapStep, IsCtrlc, IsCrash
<1> QED
  BY <1>1, <1>2, <1>3, CtrlcRuns, CrashRuns, CtrlcStays, CrashStays, PTL
  DEF Spec, NoLeapAfterExit

\* Every iteration of leap-a-day, with and without -s, and every round of leapcrash sees
\* one leap of the kind asked for.
THEOREM SuiteLeaps == Spec => []LeapComplete
<1>1. CtrlcOK /\ WaitingOK /\ CrashOK => LeapComplete
  BY DEF CtrlcOK, WaitingOK, CrashOK, IsCtrlc, IsWaiting, IsCrash, LeapComplete
<1> QED
  BY <1>1, CtrlcInvariant, WaitingInvariant, CrashInvariant, PTL

\* A kernel without the bugs passes, with the longest delays and with the longest wait.
THEOREM SuiteRaisesNoFalseError == Spec => []NoFalseError
<1>1. LateOK /\ WaitingOK => NoFalseError
  BY DEF LateOK, WaitingOK, IsLate, IsWaiting, NoFalseError
<1> QED
  BY <1>1, LateInvariant, WaitingInvariant, PTL

\* The timer's signal has come before the sleep that tests for the hrtimer failure.
THEOREM SuiteHasNoLateAlarm == Spec => []NoAlarmInHrtimerTest
<1>1. CtrlcOK => NoAlarmInHrtimerTest
  BY DEF CtrlcOK, IsCtrlc, NoAlarmInHrtimerTest
<1> QED
  BY <1>1, CtrlcInvariant, PTL

\* A kernel whose timers miss the leap fails.
THEOREM SuiteFindsTimerBug == Spec => []HrtimerBugIsFound
<1>1. BuggyOK => HrtimerBugIsFound
  BY DEF BuggyOK, IsBuggy, HrtimerBugIsFound
<1> QED
  BY <1>1, BuggyInvariant, PTL
===============================================================================
