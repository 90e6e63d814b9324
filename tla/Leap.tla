--------------------------------- MODULE Leap ---------------------------------
(***************************************************************************)
(* leap-a-day and leapcrash.  One behaviour is a run of one of the two in    *)
(* one of the set-ups below, which Init chooses.                            *)
(***************************************************************************)
EXTENDS Integers

CONSTANTS
  Days,   \* Days[s]: the constants of leap-a-day in set-up s
  Crash   \* those of leapcrash

\* The set-ups of leap-a-day: ctrl-c at any point; delays that are as long as can be; a
\* kernel with the bug; without -s; an end that must come.
DaySetups == {"ctrlc", "late", "buggy", "waiting", "ending"}

VARIABLES
  setup,  \* the set-up, a constant of the behaviour
  clock, ntp, pc, next_leap, interrupted, exitcode,
  missed, timers, armed, pending, leaps, error_found, insert, iterations,
  target, woken, now, then, late, completed,
  leapt, count, tx_time

\* The variables of both programs, and those that one does without.
commonVars == <<clock, ntp, pc, next_leap, interrupted, exitcode>>
dayVars   == <<missed, timers, armed, pending, leaps, error_found, insert, iterations,
               target, woken, now, then, late, completed>>
crashVars == <<leapt, count, tx_time>>
vars      == <<setup, commonVars, dayVars, crashVars>>

\* A clock that is read in half seconds.
Leaping(s) == INSTANCE LeapADay WITH
  NSEC_PER_SEC <- 2, DAY <- Days[s].DAY, NTP_PHASE_LIMIT <- Days[s].NTP_PHASE_LIMIT,
  OldKernel <- Days[s].OldKernel, settime <- Days[s].settime,
  Iterations <- Days[s].Iterations, Starts <- Days[s].Starts, MaxTimers <- Days[s].MaxTimers,
  HrtimerBug <- Days[s].HrtimerBug, Interference <- Days[s].Interference,
  CtrlC <- Days[s].CtrlC, MaxLate <- Days[s].MaxLate

Crashing == INSTANCE LeapCrash WITH
  NSEC_PER_SEC <- 2, DAY <- Crash.DAY, NTP_PHASE_LIMIT <- Crash.NTP_PHASE_LIMIT,
  OldKernel <- Crash.OldKernel, COUNT <- Crash.COUNT, Start <- Crash.Start

\* What the set-ups are for.  In all of them leap-a-day has the time it counts on; the
\* kernel of two does what it should, that of another has the bug.
ASSUME LeapAssumption ==
  /\ \A s \in DaySetups :
       Leaping(s)!LeapADayAssumption /\ Leaping(s)!NtpAssumption /\ Leaping(s)!Timely
  /\ Leaping("late")!Sound /\ Leaping("waiting")!Sound
  /\ Days["buggy"].HrtimerBug /\ Days["buggy"].MaxLate <= 2
  /\ Crashing!LeapCrashAssumption /\ Crashing!NtpAssumption /\ Crashing!LongDay

-------------------------------------------------------------------------------
(* A step of one program leaves the variables of the other alone.           *)

LeapADay(s) == setup = s /\ UNCHANGED <<setup, crashVars>>
LeapCrash   == setup = "crash" /\ UNCHANGED <<setup, dayVars>>

Init ==
  \/ /\ \E s \in DaySetups : setup = s /\ Leaping(s)!Init
     /\ leapt = 0 /\ count = 0 /\ tx_time = 0
  \/ /\ setup = "crash" /\ Crashing!Init
     /\ missed = 0 /\ timers = 0 /\ armed = 0 /\ pending = FALSE /\ leaps = <<>>
     /\ error_found = FALSE /\ insert = TRUE /\ iterations = 0 /\ target = 0 /\ woken = FALSE
     /\ now = 0 /\ then = "exit" /\ late = 0 /\ completed = 0

Next ==
  \/ \E s \in DaySetups : LeapADay(s) /\ Leaping(s)!Next
  \/ LeapCrash /\ Crashing!Next

Spec == Init /\ [][Next]_vars

\* The fairness of LeapADay and LeapCrash, for the set-ups asked to end.
FairSpec ==
  /\ Spec
  /\ WF_vars(\/ LeapADay("ending") /\ Leaping("ending")!Tick
             \/ LeapCrash /\ Crashing!Tick)
  /\ WF_vars(\/ LeapADay("ending") /\ Leaping("ending")!Main
             \/ LeapCrash /\ Crashing!Main)
  /\ WF_vars(LeapADay("ending") /\ Leaping("ending")!Expire)
  /\ WF_vars(LeapADay("ending") /\ Leaping("ending")!sigalarm)

-------------------------------------------------------------------------------
(* Properties, each the property of that name of LeapADay or LeapCrash in   *)
(* the set-ups that can tell.                                              *)

\* Type invariant.
TypeOK ==
  /\ setup = "ctrlc" => Leaping("ctrlc")!TypeOK
  /\ setup = "crash" => Crashing!TypeOK

\* However and whenever leap-a-day or leapcrash ends, by ctrl-c in the middle of
\* its own clean-up too, the clock does not leap behind its back.
NoLeapStep ==
  /\ setup = "ctrlc" => Leaping("ctrlc")!NoLeapStep
  /\ setup = "crash" => Crashing!NoLeapStep

NoLeapAfterExit == [][NoLeapStep]_clock

\* "Leap complete" is true: every iteration, and every round of leapcrash, has
\* gone through one leap of the kind asked for.
LeapComplete ==
  /\ setup = "ctrlc" => Leaping("ctrlc")!LeapComplete
  /\ setup = "waiting" => Leaping("waiting")!LeapComplete
  /\ setup = "crash" => Crashing!EveryRoundLeaps

\* leap-a-day reports no error on a kernel without the bugs it looks for.
NoFalseError ==
  /\ setup = "late" => Leaping("late")!NoFalseError
  /\ setup = "waiting" => Leaping("waiting")!NoFalseError

\* No late alarm cuts the sleep of test_hrtimer_failure short.
NoAlarmInHrtimerTest == setup = "ctrlc" => Leaping("ctrlc")!NoAlarmInHrtimerTest

\* A kernel whose timers miss the leap does not pass leap-a-day.
HrtimerBugIsFound == setup = "buggy" => Leaping("buggy")!HrtimerBugIsFound

\* Both programs end: also when the timers run out, and in spite of the hammering.
Ends == setup \in {"ending", "crash"} => <>(pc = "exit")
===============================================================================
