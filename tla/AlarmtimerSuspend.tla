--------------------------- MODULE AlarmtimerSuspend ---------------------------
(***************************************************************************)
(* alarmtimer-suspend.c: for CLOCK_REALTIME_ALARM and CLOCK_BOOTTIME_ALARM, *)
(* a periodic alarm that is first waited for awake and then has to wake the *)
(* suspended machine up.  The handler compares the clock with the number of *)
(* alarms it has counted.  Time is counted in ticks, PERIOD to the          *)
(* SUSPEND_SECS; it goes on while the machine is suspended.                 *)
(*                                                                         *)
(* As in SetTimerLat, an expiry that finds the last signal still pending    *)
(* raises nothing.                                                         *)
(***************************************************************************)
EXTENDS Integers

CONSTANTS
  PERIOD,          \* ticks in SUSPEND_SECS
  UNREASONABLE_LAT,
  SLEEP,           \* ticks in sleep(3)
  SettimeFails,    \* TRUE: timer_settime may fail
  MaxLate,         \* ticks one clock's test and its resumes are held up
  MaxClock         \* bound on the clock; TypeOK says that the program never reaches it

\* What the constants may be.
AlarmtimerSuspendAssumption ==
  /\ PERIOD \in Nat \ {0} /\ UNREASONABLE_LAT \in 0 .. PERIOD - 1
  /\ SLEEP \in Nat \ {0} /\ SettimeFails \in BOOLEAN /\ {MaxLate, MaxClock} \subseteq Nat

VARIABLES
  clock,           \* the alarm clock under test
  expiry,          \* when the armed timer fires next; 0 when none is armed
  pending,         \* SIGRTMAX is pending
  pc, alarm_clock_id,
  wake,            \* when sleep(3) is over
  alarmcount, start_time,
  final_ret,       \* TRUE for -1
  late,            \* ticks of delay in the test of this clock
  worst, merged,   \* history: worst delivery delay, an overrun
  suspended,       \* history: clocks the machine was suspended for
  refused          \* history: a timer or a suspend was refused

kernelVars == <<clock, expiry, pending>>
handlerVars == <<alarmcount, final_ret>>
history == <<worst, merged, suspended, refused>>
vars == <<kernelVars, pc, alarm_clock_id, wake, handlerVars, start_time, late, history>>

AlarmClocks == {8, 9}

Init ==
  /\ clock = 0 /\ expiry = 0 /\ pending = FALSE
  /\ pc = "create" /\ alarm_clock_id = 8 /\ wake = 0
  /\ alarmcount = 0 /\ start_time = 0 /\ final_ret = FALSE
  /\ late = 0 /\ worst = 0 /\ merged = FALSE /\ suspended = {} /\ refused = FALSE

-------------------------------------------------------------------------------
(* The kernel and the machine.                                             *)

Overdue == expiry # 0 /\ clock >= expiry

\* Nothing is due in the program or the machine but to wait.
Waiting ==
  /\ ~pending /\ (expiry # 0 \/ pc # "first")
  /\ \/ pc = "first" /\ alarmcount < 5
     \/ pc = "sleep" /\ clock < wake
     \/ pc = "suspended"

Tick ==
  /\ ~Overdue /\ pc # "exit" /\ clock < MaxClock
  /\ Waiting \/ late < MaxLate
  /\ late' = IF Waiting THEN late ELSE late + 1
  /\ clock' = clock + 1
  /\ UNCHANGED <<expiry, pending, pc, alarm_clock_id, wake, handlerVars, start_time, history>>

Expire ==
  /\ Overdue
  /\ expiry' = expiry + PERIOD
  /\ pending' = TRUE
  /\ merged' = (merged \/ pending)
  /\ UNCHANGED <<clock, pc, alarm_clock_id, wake, handlerVars, start_time, late, worst,
                 suspended, refused>>

\* The alarm resumes the machine, and system returns.
Resume ==
  /\ pc = "suspended" /\ pending /\ pc' = "loop"
  /\ UNCHANGED <<kernelVars, alarm_clock_id, wake, handlerVars, start_time, late, history>>

\* Something else resumes it.
WakeUp ==
  /\ pc = "suspended" /\ ~pending /\ pc' = "loop"
  /\ UNCHANGED <<kernelVars, alarm_clock_id, wake, handlerVars, start_time, late, history>>

-------------------------------------------------------------------------------

\* Nanoseconds from a to b.
timespec_sub(a, b) == b - a

\* The signal handler: it runs before anything else of the program, and cuts a
\* sleep(3) short.
sigalarm ==
  LET delta_ns == timespec_sub(start_time, clock) - PERIOD * alarmcount'
  IN  /\ pending /\ pc \notin {"suspended", "exit"}
      /\ pending' = FALSE
      /\ alarmcount' = alarmcount + 1
      /\ final_ret' = (final_ret \/ delta_ns > UNREASONABLE_LAT)
      /\ pc' = IF pc = "sleep" THEN "system" ELSE pc
      /\ worst' = IF clock - (expiry - PERIOD) > worst THEN clock - (expiry - PERIOD) ELSE worst
      /\ UNCHANGED <<clock, expiry, alarm_clock_id, wake, start_time, late, merged,
                     suspended, refused>>

At(from, to) == pc = from /\ pc' = to /\ ~pending

\* timer_create; the first clock that has no such timer ends the program.
CreateTimer ==
  /\ \/ At("create", "start") /\ refused' = refused
     \/ At("create", "exit") /\ refused' = TRUE
  /\ alarmcount' = 0
  /\ late' = 0
  /\ UNCHANGED <<kernelVars, alarm_clock_id, wake, final_ret, start_time, worst, merged, suspended>>

GetStart ==
  /\ At("start", "arm")
  /\ start_time' = clock
  /\ UNCHANGED <<kernelVars, alarm_clock_id, wake, handlerVars, late, history>>

\* timer_settime, TIMER_ABSTIME and periodic; its result is not looked at.
ArmTimer ==
  /\ At("arm", "first")
  /\ \/ expiry' = start_time + PERIOD
     \/ SettimeFails /\ expiry' = expiry
  /\ UNCHANGED <<clock, pending, alarm_clock_id, wake, handlerVars, start_time, late, history>>

\* Mutant: the timer is deleted before the suspend loop.
First_Deletes ==
  /\ alarmcount >= 5 /\ At("first", "loop")
  /\ expiry' = 0
  /\ UNCHANGED <<clock, pending, alarm_clock_id, wake, handlerVars, start_time, late, history>>

\* while (alarmcount < 5) sleep(1);
First ==
  /\ alarmcount >= 5 /\ At("first", "loop")
  /\ UNCHANGED <<kernelVars, alarm_clock_id, wake, handlerVars, start_time, late, history>>

\* while (alarmcount < 10) sleep(3) ...
Loop ==
  /\ \/ alarmcount < 10 /\ At("loop", "sleep") /\ wake' = clock + SLEEP
     \/ alarmcount >= 10 /\ At("loop", "delete") /\ wake' = wake
  /\ UNCHANGED <<kernelVars, alarm_clock_id, handlerVars, start_time, late, history>>

Sleep ==
  /\ clock >= wake /\ At("sleep", "system")
  /\ UNCHANGED <<kernelVars, alarm_clock_id, wake, handlerVars, start_time, late, history>>

\* ... and echo mem > /sys/power/state.  The machine goes to sleep, or it does
\* not and the loop is over.
System ==
  /\ \/ At("system", "suspended")
        /\ suspended' = suspended \cup {alarm_clock_id} /\ refused' = refused
     \/ At("system", "delete") /\ refused' = TRUE /\ suspended' = suspended
  /\ UNCHANGED <<kernelVars, alarm_clock_id, wake, handlerVars, start_time, late, worst, merged>>

\* timer_delete, and the next clock.
DeleteTimer ==
  /\ At("delete", IF alarm_clock_id + 1 \in AlarmClocks THEN "create" ELSE "exit")
  /\ alarm_clock_id' = alarm_clock_id + 1
  /\ expiry' = 0
  /\ UNCHANGED <<clock, pending, wake, handlerVars, start_time, late, history>>

Main ==
  \/ CreateTimer \/ GetStart \/ ArmTimer \/ First \/ Loop \/ Sleep \/ System \/ DeleteTimer

Next ==
  \/ Tick \/ Expire \/ Resume \/ WakeUp \/ sigalarm \/ Main
  \/ pc = "exit" /\ UNCHANGED vars
  \/ pc = "first" /\ expiry = 0 /\ UNCHANGED vars   \* no alarm ever ends the loop

Spec == Init /\ [][Next]_vars

FairSpec ==
  /\ Spec
  /\ WF_vars(Tick) /\ WF_vars(Expire) /\ WF_vars(Resume) /\ WF_vars(sigalarm) /\ WF_vars(Main)

-------------------------------------------------------------------------------
(* Properties.                                                             *)

\* Type invariant.
TypeOK ==
  /\ clock \in 0 .. MaxClock - 1 /\ expiry \in Nat /\ pending \in BOOLEAN
  /\ pc \in {"create", "start", "arm", "first", "loop", "sleep", "system", "suspended",
             "delete", "exit"}
  /\ alarm_clock_id \in AlarmClocks \cup {10} /\ wake \in Nat
  /\ alarmcount \in 0 .. 11 + MaxLate \div PERIOD /\ start_time \in Nat
  /\ {final_ret, merged, refused} \subseteq BOOLEAN
  /\ late \in 0 .. MaxLate /\ worst \in Nat /\ suspended \subseteq AlarmClocks

\* The machine is never left asleep: whenever it is suspended an alarm is still
\* to come, also when the last alarm to be counted came just before, and though
\* nobody looks whether the timer was armed.
AlarmIsSet == pc = "suspended" => expiry # 0

\* A resume that takes too long fails the program, and so does an alarm that is
\* lost because the machine slept on into the next one.
LateResumeFails ==
  pc = "exit" /\ (merged \/ worst > UNREASONABLE_LAT) => final_ret

\* Nothing else fails it, be it the time it takes to arm the timer or an alarm
\* left over from the first clock.
OnlyLateResumeFails == final_ret => merged \/ worst > UNREASONABLE_LAT

\* If nothing is refused, the machine has been suspended on both clocks.
BothClocksSuspend == pc = "exit" /\ ~refused => suspended = AlarmClocks

\* The program ends: it neither sleeps for ever nor waits for alarms in vain.
Ends == <>(pc = "exit")
===============================================================================
