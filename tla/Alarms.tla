-------------------------------- MODULE Alarms --------------------------------
(***************************************************************************)
(* The programs that measure how late the kernel wakes them: set-timer-lat, *)
(* alarmtimer-suspend, nsleep-lat and mqueue-lat.  One behaviour is a run   *)
(* of one of them in one of the set-ups below, which Init chooses.          *)
(***************************************************************************)
EXTENDS Integers

\* The constants of the programs, where they say what each is.
CONSTANTS
  PERIOD, MaxLate,                       \* set-timer-lat, alarmtimer-suspend
  NrClocks, Unsupported, AlarmClockIds,  \* set-timer-lat, nsleep-lat
  UNREASONABLE_LATENCY,                  \* set-timer-lat
  UNREASONABLE_LAT, SLEEP, MaxClock,     \* alarmtimer-suspend
  UNRESONABLE_LATENCY,                   \* nsleep-lat, mqueue-lat
  Lengths, Sleeps, SleepLatencies, Gaps, \* nsleep-lat
  TARGET_TIMEOUT, Receives, ReceiveLatencies, Settings, Disturbed  \* mqueue-lat

\* The set-ups in which timers may fire early and timer_settime may fail.
CONSTANTS FiresEarly, SettimeFails

VARIABLES
  setup,  \* the set-up, a constant of the behaviour
  pc, clock, worst, early,
  expiry, pending, alarmcount, start_time, late, merged,
  run, max_latency_ns, ret, armlag,
  alarm_clock_id, wake, final_ret, suspended, refused,
  i, exitcode,
  clockid, length, latency, slept,
  cause

\* The variables that more than one program has, and those of each.
commonVars  == <<pc, clock, worst, early>>
timerVars   == <<expiry, pending, alarmcount, start_time, late, merged>>
latVars     == <<run, max_latency_ns, ret, armlag>>
suspendVars == <<alarm_clock_id, wake, final_ret, suspended, refused>>
meanVars    == <<i, exitcode>>
nsleepVars  == <<clockid, length, latency, slept>>
vars == <<setup, commonVars, timerVars, latVars, suspendVars, meanVars, nsleepVars, cause>>

\* The set-ups of the programs that have two.
Timings     == {"slow", "eager"}
Suspensions == {"suspending", "unarmed"}

Timing(s) ==
  INSTANCE SetTimerLat WITH AlarmClocks <- AlarmClockIds, FiresEarly <- s \in FiresEarly
Suspending(s) == INSTANCE AlarmtimerSuspend WITH SettimeFails <- s \in SettimeFails
Averaging     == INSTANCE NsleepLat WITH count <- Sleeps, Latencies <- SleepLatencies
Receiving     == INSTANCE MqueueLat WITH count <- Receives, Latencies <- ReceiveLatencies

\* What the constants may be; MaxClock is high enough for what is asked of it.
ASSUME AlarmsAssumption ==
  /\ \A s \in Timings : Timing(s)!SetTimerLatAssumption
  /\ \A s \in Suspensions : Suspending(s)!AlarmtimerSuspendAssumption
  /\ Averaging!NsleepLatAssumption /\ Receiving!MqueueLatAssumption
  /\ MaxClock > 24 * PERIOD + 7 * MaxLate

-------------------------------------------------------------------------------
(* A step of one program leaves the variables of the others alone.          *)

SetTimerLat(name) ==
  setup = name /\ UNCHANGED <<setup, suspendVars, meanVars, nsleepVars, cause>>
AlarmtimerSuspend(name) ==
  setup = name /\ UNCHANGED <<setup, early, latVars, meanVars, nsleepVars, cause>>
NsleepLat(name) ==
  setup = name /\ UNCHANGED <<setup, clock, timerVars, latVars, suspendVars, cause>>
MqueueLat(name) ==
  setup = name /\ UNCHANGED <<setup, early, timerVars, latVars, suspendVars, nsleepVars>>

\* What the variables of the others are.
NoTimer   == /\ expiry = 0 /\ pending = FALSE /\ alarmcount = 0 /\ start_time = 0 /\ late = 0
             /\ merged = FALSE
NoLat     == run = 1 /\ max_latency_ns = 0 /\ ret = FALSE /\ armlag = 0
NoSuspend == alarm_clock_id = 8 /\ wake = 0 /\ final_ret = FALSE /\ suspended = {} /\ refused = FALSE
NoMean    == i = 0 /\ exitcode = 0
NoNsleep  == clockid = 0 /\ length = 0 /\ latency = 0 /\ slept = {}
NoQueue   == cause = "none"

Init ==
  \/ /\ \E s \in Timings : setup = s /\ Timing(s)!Init
     /\ NoSuspend /\ NoMean /\ NoNsleep /\ NoQueue
  \/ /\ \E s \in Suspensions : setup = s /\ Suspending(s)!Init
     /\ early = FALSE /\ NoLat /\ NoMean /\ NoNsleep /\ NoQueue
  \/ /\ setup = "averaging" /\ Averaging!Init
     /\ clock = 0 /\ NoTimer /\ NoLat /\ NoSuspend /\ NoQueue
  \/ /\ setup = "receiving" /\ Receiving!Init
     /\ early = FALSE /\ NoTimer /\ NoLat /\ NoSuspend /\ NoNsleep

Next ==
  \/ \E s \in Timings : SetTimerLat(s) /\ Timing(s)!Next
  \/ \E s \in Suspensions : AlarmtimerSuspend(s) /\ Suspending(s)!Next
  \/ NsleepLat("averaging") /\ Averaging!Next
  \/ MqueueLat("receiving") /\ Receiving!Next

Spec == Init /\ [][Next]_vars

\* The fairness of the programs, for the set-ups asked to end.
FairSpec ==
  /\ Spec
  /\ WF_vars(\/ SetTimerLat("slow") /\ Timing("slow")!Tick
             \/ AlarmtimerSuspend("suspending") /\ Suspending("suspending")!Tick)
  /\ WF_vars(\/ SetTimerLat("slow") /\ Timing("slow")!Expire
             \/ AlarmtimerSuspend("suspending") /\ Suspending("suspending")!Expire)
  /\ WF_vars(\/ SetTimerLat("slow") /\ Timing("slow")!sigalarm
             \/ AlarmtimerSuspend("suspending") /\ Suspending("suspending")!sigalarm)
  /\ WF_vars(\/ SetTimerLat("slow") /\ Timing("slow")!Main
             \/ AlarmtimerSuspend("suspending") /\ Suspending("suspending")!Main
             \/ NsleepLat("averaging") /\ Averaging!Main
             \/ MqueueLat("receiving") /\ Receiving!Main)
  /\ WF_vars(AlarmtimerSuspend("suspending") /\ Suspending("suspending")!Resume)

-------------------------------------------------------------------------------
(* Properties, each made of those of the programs in the set-ups that can   *)
(* tell.                                                                   *)

\* Type invariant.
TypeOK ==
  /\ \A s \in Timings : setup = s => Timing(s)!TypeOK
  /\ \A s \in Suspensions : setup = s => Suspending(s)!TypeOK

\* No late and no lost alarm is missed, awake or suspended, though both programs
\* count signals and not expiries; nor is a sleep or a receive that is so late
\* that it spoils the mean.  Where timers fire early, an alarm that is lost may be
\* a tick less than a period late.
LateAlarmFails ==
  /\ \A s \in Timings :
       setup = s /\ (s \in FiresEarly => UNREASONABLE_LATENCY < PERIOD) =>
         Timing(s)!LateAlarmFails
  /\ \A s \in Suspensions : setup = s => Suspending(s)!LateResumeFails
  /\ setup = "averaging" => Averaging!LateSleepFails
  /\ setup = "receiving" => Receiving!LateReceiveFails

\* Only what is late fails the programs, and not many small delays together.  In
\* set-timer-lat the time between reading start_time and arming a relative timer
\* counts as lateness, that of arming an absolute one does not.
OnlyLatenessFails ==
  /\ \A s \in Timings : setup = s => Timing(s)!OnlyLatenessFails
  /\ \A s \in Suspensions : setup = s => Suspending(s)!OnlyLateResumeFails
  /\ setup = "averaging" => Averaging!OnlyLatenessFails
  /\ setup = "receiving" => Receiving!OnlyLatenessFails

\* A pass has tried everything there is: every length on every clock, or to
\* suspend on both, unless the program was held up until the alarms were over.
PassMeansAllTried ==
  /\ setup = "averaging" => Averaging!PassMeansAllSlept
  /\ \A s \in Suspensions :
       setup = s /\ MaxLate < 5 * PERIOD => Suspending(s)!BothClocksSuspend

\* No alarm of one timer is left over for the next one of set-timer-lat.
NoStaleAlarm == \A s \in Timings : setup = s => Timing(s)!NoStaleAlarm

\* The suspended machine always has an alarm to come.
AlarmIsSet == \A s \in Suspensions : setup = s => Suspending(s)!AlarmIsSet

\* The programs get through all their clocks.
Ends == setup \notin {"eager", "unarmed"} => <>(pc = "exit")
===============================================================================
