------------------------------ MODULE SetTimerLat ------------------------------
(***************************************************************************)
(* set-timer-lat.c: for every clock, an absolute and a relative periodic    *)
(* timer; a signal handler measures how late each alarm is against the      *)
(* number of alarms it has counted, and the worst latency of five alarms    *)
(* decides.  Time is counted in ticks, PERIOD to a TIMER_SECS.              *)
(*                                                                         *)
(* The kernel keeps at most one signal per timer: an expiry that finds the  *)
(* last one still pending is an overrun and raises nothing.                 *)
(***************************************************************************)
EXTENDS Integers

CONSTANTS
  NrClocks,              \* how many clock ids main does not skip
  Unsupported,           \* the ones of them without a working timer_create
  AlarmClocks,           \* CLOCK_REALTIME_ALARM, CLOCK_BOOTTIME_ALARM
  PERIOD,                \* ticks in TIMER_SECS
  UNREASONABLE_LATENCY,  \* ticks in 40 ms
  FiresEarly,            \* TRUE: the kernel's timers may fire a tick early
  MaxLate                \* ticks the program and its signals are held up, per timer

\* What the constants may be.
SetTimerLatAssumption ==
  /\ NrClocks \in Nat /\ PERIOD \in Nat \ {0} /\ UNREASONABLE_LATENCY \in 1 .. PERIOD
  /\ FiresEarly \in BOOLEAN /\ MaxLate \in Nat

VARIABLES
  clock,           \* the clock under test, in ticks
  expiry,          \* when the armed timer fires next; 0 when none is armed
  pending,         \* SIGRTMAX is pending
  pc, run,         \* where do_timer is; the how manieth call of it
  alarmcount, start_time, max_latency_ns,
  ret,             \* TRUE once some do_timer has returned -1
  late,            \* ticks of delay in this do_timer
  worst, merged, early, \* history: worst delivery delay, an overrun, "fired early: FAIL"
  armlag           \* history: how long after reading start_time the timer was armed

kernelVars == <<clock, expiry, pending>>
handlerVars == <<alarmcount, max_latency_ns>>
history == <<worst, merged, early, armlag>>
vars == <<kernelVars, pc, run, handlerVars, start_time, ret, late, history>>

\* Calls of do_timer: TIMER_ABSTIME first, then 0, for every clock.
Runs == 1 .. 2 * NrClocks
clock_id(r) == (r + 1) \div 2
ABSTIME(r) == r % 2 = 1

Init ==
  /\ clock = 0 /\ expiry = 0 /\ pending = FALSE
  /\ pc = "create" /\ run = 1 /\ alarmcount = 0 /\ start_time = 0 /\ max_latency_ns = 0
  /\ ret = FALSE /\ late = 0 /\ worst = 0 /\ merged = FALSE /\ early = FALSE /\ armlag = 0

-------------------------------------------------------------------------------
(* The kernel.                                                             *)

Sleeping == pc = "wait" /\ alarmcount < 5 /\ ~pending
Overdue  == expiry # 0 /\ clock >= expiry

Tick ==
  /\ ~Overdue /\ pc # "exit"
  /\ Sleeping \/ late < MaxLate
  /\ late' = IF Sleeping THEN late ELSE late + 1
  /\ clock' = clock + 1
  /\ UNCHANGED <<expiry, pending, pc, run, handlerVars, start_time, ret, history>>

\* The timer fires, when it is due or, in a kernel with that bug, a tick before.
Expire ==
  /\ Overdue \/ (FiresEarly /\ expiry # 0 /\ clock = expiry - 1)
  /\ expiry' = expiry + PERIOD
  /\ pending' = TRUE
  /\ merged' = (merged \/ pending)
  /\ UNCHANGED <<clock, pc, run, handlerVars, start_time, ret, late, worst, early, armlag>>

-------------------------------------------------------------------------------

\* Mutant: only the last latency is kept.
sigalarm_Last ==
  /\ pending /\ pc # "exit"
  /\ pending' = FALSE
  /\ alarmcount' = alarmcount + 1
  /\ max_latency_ns' = clock - start_time - PERIOD * (alarmcount + 1)
  /\ worst' = IF expiry # 0 /\ clock - (expiry - PERIOD) > worst
              THEN clock - (expiry - PERIOD) ELSE worst
  /\ UNCHANGED <<clock, expiry, pc, run, start_time, ret, late, merged, early, armlag>>

\* The signal handler.  It runs before anything else of the program.
sigalarm ==
  LET delta_ns == clock - start_time - PERIOD * (alarmcount + 1)
  IN  /\ pending /\ pc # "exit"
      /\ pending' = FALSE
      /\ alarmcount' = alarmcount + 1
      /\ max_latency_ns' = IF delta_ns > max_latency_ns THEN delta_ns ELSE max_latency_ns
      /\ worst' = IF expiry # 0 /\ clock - (expiry - PERIOD) > worst
                  THEN clock - (expiry - PERIOD) ELSE worst
      /\ early' = (early \/ delta_ns < 0)
      /\ UNCHANGED <<clock, expiry, pc, run, start_time, ret, late, merged, armlag>>

At(from, to) == pc = from /\ pc' = to /\ ~pending
\* do_timer has returned: main makes the next call or exits.
Return(from) == At(from, IF run + 1 \in Runs THEN "create" ELSE "exit") /\ run' = run + 1

\* Mutants: alarmcount is not reset; a clock without a timer is tried again.
CreateTimer_KeepsCount ==
  /\ \/ clock_id(run) \notin Unsupported /\ At("create", "start") /\ UNCHANGED <<run, ret>>
     \/ /\ clock_id(run) \in Unsupported /\ Return("create")
        /\ ret' = (ret \/ clock_id(run) \notin AlarmClocks)
  /\ max_latency_ns' = 0
  /\ late' = 0 /\ worst' = 0 /\ merged' = FALSE /\ early' = FALSE /\ armlag' = 0
  /\ UNCHANGED <<kernelVars, alarmcount, start_time>>

CreateTimer_Retries ==
  /\ clock_id(run) \notin Unsupported /\ At("create", "start")
  /\ alarmcount' = 0 /\ max_latency_ns' = 0
  /\ late' = 0 /\ worst' = 0 /\ merged' = FALSE /\ early' = FALSE /\ armlag' = 0
  /\ UNCHANGED <<kernelVars, run, ret, start_time>>

\* timer_create; a clock that has no such timer is skipped or fails the test.
CreateTimer ==
  /\ \/ clock_id(run) \notin Unsupported /\ At("create", "start") /\ UNCHANGED <<run, ret>>
     \/ /\ clock_id(run) \in Unsupported /\ Return("create")
        /\ ret' = (ret \/ clock_id(run) \notin AlarmClocks)
  /\ alarmcount' = 0 /\ max_latency_ns' = 0
  /\ late' = 0 /\ worst' = 0 /\ merged' = FALSE /\ early' = FALSE /\ armlag' = 0
  /\ UNCHANGED <<kernelVars, start_time>>

GetStart ==
  /\ At("start", "arm")
  /\ start_time' = clock
  /\ UNCHANGED <<kernelVars, run, handlerVars, ret, late, history>>

\* Mutant: TIMER_ABSTIME is not passed on.
ArmTimer_Relative ==
  /\ At("arm", "wait")
  /\ expiry' = clock + PERIOD
  /\ armlag' = clock - start_time
  /\ UNCHANGED <<clock, pending, run, handlerVars, start_time, ret, late, worst, merged, early>>

\* timer_settime: an absolute expiry counts from start_time, a relative one
\* from now.  Where it fails, do_timer gives up.
ArmTimer ==
  /\ \/ At("arm", "wait") /\ UNCHANGED <<run, ret>>
        /\ expiry' = (IF ABSTIME(run) THEN start_time ELSE clock) + PERIOD
        /\ armlag' = clock - start_time
     \/ Return("arm") /\ ret' = TRUE /\ UNCHANGED <<expiry, armlag>>
  /\ UNCHANGED <<clock, pending, handlerVars, start_time, late, worst, merged, early>>

\* while (alarmcount < 5) sleep(1); then the latency so far is printed.
PrintLatency ==
  /\ alarmcount >= 5 /\ At("wait", "delete")
  /\ UNCHANGED <<kernelVars, run, handlerVars, start_time, ret, late, history>>

\* Mutant: the timer is not deleted.
DeleteTimer_Keeps ==
  /\ At("delete", "verdict")
  /\ UNCHANGED <<kernelVars, run, handlerVars, start_time, ret, late, history>>

DeleteTimer ==
  /\ At("delete", "verdict")
  /\ expiry' = 0
  /\ UNCHANGED <<clock, pending, run, handlerVars, start_time, ret, late, history>>

Verdict ==
  /\ Return("verdict")
  /\ ret' = (ret \/ max_latency_ns >= UNREASONABLE_LATENCY)
  /\ UNCHANGED <<kernelVars, handlerVars, start_time, late, history>>

Main == CreateTimer \/ GetStart \/ ArmTimer \/ PrintLatency \/ DeleteTimer \/ Verdict

Next ==
  \/ Tick \/ Expire \/ sigalarm \/ Main
  \/ pc = "exit" /\ UNCHANGED vars

Spec == Init /\ [][Next]_vars

FairSpec == Spec /\ WF_vars(Tick) /\ WF_vars(Expire) /\ WF_vars(sigalarm) /\ WF_vars(Main)

-------------------------------------------------------------------------------
(* Properties.                                                             *)

\* Once five alarms have come every tick is one of delay: this many more can come.
MaxAlarms == 5 + (MaxLate + 1) \div PERIOD

\* Type invariant.
TypeOK ==
  /\ clock \in Nat /\ expiry \in Nat /\ pending \in BOOLEAN
  /\ pc \in {"create", "start", "arm", "wait", "delete", "verdict", "exit"} /\ run \in Nat
  /\ alarmcount \in 0 .. MaxAlarms /\ start_time \in Nat /\ max_latency_ns \in Nat
  /\ ret \in BOOLEAN /\ late \in 0 .. MaxLate
  /\ worst \in Int /\ merged \in BOOLEAN /\ early \in BOOLEAN /\ armlag \in Nat

\* A late or a lost alarm is never missed: counting alarms instead of expiries
\* makes every overrun show up as at least a period of latency.
LateAlarmFails ==
  pc = "verdict" /\ (merged \/ worst >= UNREASONABLE_LATENCY) =>
     max_latency_ns >= UNREASONABLE_LATENCY

\* Unless an alarm was lost, what is taken for latency is no more than how late the
\* worst alarm was handled and, for a relative timer, how late it was armed: it does
\* not count from start_time, but the handler does.
OnlyLatenessFails ==
  pc = "verdict" /\ ~merged =>
     max_latency_ns <= worst + (IF ABSTIME(run) THEN 0 ELSE armlag)

\* The latency is that of the alarms alone.  It is for an absolute timer.
LatencyIsOfAlarms == pc = "verdict" /\ ~merged => max_latency_ns <= worst

\* No alarm of one timer is counted for the next.
NoStaleAlarm == pc \in {"create", "start", "arm"} => ~pending /\ expiry = 0

\* Five alarms always come and every clock is tested.
AllTimersAreTested == <>(pc = "exit")

\* "timer fired early: FAIL" means that the test fails.
EarlyAlarmFails == pc = "verdict" /\ early => ret \/ max_latency_ns >= UNREASONABLE_LATENCY
===============================================================================
