------------------------------- MODULE LeapADay -------------------------------
(***************************************************************************)
(* leap-a-day.c: in every iteration main arms a leap second (insert, then   *)
(* delete, ...), sets a timer for the end of the day, sleeps up to three    *)
(* seconds before it, watches the kernel go through it and checks what the  *)
(* timer's signal handler saw.  ctrl-c may come at any point.               *)
(*                                                                         *)
(* One action is one system call, with the code up to the next one.  Time   *)
(* moves by half seconds, the length of the program's short sleeps (take    *)
(* NSEC_PER_SEC = 2), and only while the program sleeps or is held up: one  *)
(* iteration is held up for at most MaxLate half seconds.                   *)
(***************************************************************************)
EXTENDS NtpKernel, Sequences

CONSTANTS
  settime,      \* -s
  Iterations,   \* -i; -1 when not given
  Starts,       \* times of day the program may be started at
  MaxTimers,    \* how many POSIX timers the kernel lets a process hold
  HrtimerBug,   \* TRUE: timers miss that the clock has leapt
  Interference, \* TRUE: an ntpd may rewrite the status until main rechecks it
  CtrlC,        \* TRUE: SIGINT may come
  MaxLate       \* half seconds of delay per iteration

\* What the constants may be.
LeapADayAssumption ==
  /\ settime \in BOOLEAN /\ Iterations \in Int /\ Starts \subseteq 0 .. DAY - 1
  /\ MaxTimers \in Nat /\ MaxLate \in Nat
  /\ HrtimerBug \in BOOLEAN /\ Interference \in BOOLEAN /\ CtrlC \in BOOLEAN

-------------------------------------------------------------------------------
(* What some of the properties ask of the constants.                       *)

\* A day is long enough for -s to start ten seconds before its end.
LongDay == DAY >= 10

\* The half seconds before the leap by which a program that is not held up is ready
\* for it: six, and as many as it takes for the delays not to matter.
Spare == IF MaxLate = 0 THEN 6 ELSE 5 + MaxLate

\* The program is started in time and is held up for no longer than it takes the
\* kernel to set up the leap; an ntpd leaves it half a second only.  A faulty
\* kernel is told where the clock is in every iteration.
Timely ==
  /\ NSEC_PER_SEC = 2 /\ 2 * DAY >= 17 + Spare + 2 * MaxLate
  /\ \A s \in Starts : 2 * s + Spare + MaxLate <= 2 * DAY
  /\ MaxLate <= 15 /\ (Interference => MaxLate <= 1)
  /\ HrtimerBug => settime

\* How long before the leap maxerror is cleared, at most.  Without -s the first
\* iteration begins when the program is started, every other one a day ahead.
Ahead == IF settime THEN 10 ELSE IF Iterations = 1 THEN NTP_PHASE_LIMIT - 10 ELSE DAY

\* The kernel does what it should, has the timers that are asked for, and keeps
\* the clock synchronised from clear_time_state to the leap.
Sound ==
  /\ ~HrtimerBug
  /\ Iterations >= 1 /\ Iterations <= MaxTimers
  /\ NTP_PHASE_LIMIT > Ahead + 9
  /\ ~settime /\ Iterations = 1 => \A s \in Starts : DAY - s <= Ahead

-------------------------------------------------------------------------------
VARIABLES
  clock,       \* CLOCK_REALTIME
  ntp,         \* the kernel's leap second state machine
  missed,      \* how far the timers' idea of the clock is ahead of it (HrtimerBug)
  timers,      \* POSIX timers held by the process
  armed,       \* expiry of the armed one, 0 if there is none
  pending,     \* SIGRTMAX is pending
  leaps,       \* history: the leaps of this iteration
  pc,          \* where main is
  next_leap, error_found, insert, iterations,
  target,      \* the timespec handed to the sleep main is in
  woken,       \* the relative sleep is over, or a signal ended the sleep
  now,         \* tx.time.tv_sec, as last read
  then,        \* where clear_time_state returns to
  interrupted, \* ctrl-c was pressed
  exitcode,    \* 0 or 1 once pc = "exit"
  late,        \* half seconds main has been held up in this iteration
  completed    \* iterations completed

kernelVars == <<clock, ntp, missed, timers, armed, pending, leaps>>
sigVars    == <<missed, timers, armed, pending, leaps>>
localVars  == <<next_leap, error_found, insert, iterations, target, woken, now,
                then, interrupted, exitcode, late, completed>>
vars       == <<kernelVars, pc, localVars>>

\* States of the kernel the program can be started in.
InitialNtp ==
  [state : {"OK"}, status : {{}, {"PLL"}}, maxerror : {0}] \cup
  [state : {"OK"}, status : {{"UNSYNC"}}, maxerror : {NTP_PHASE_LIMIT}] \cup
  [state : {"WAIT", "INS"}, status : {{"INS"}}, maxerror : {0}]

Init ==
  /\ \E s \in Starts : clock = [tv_sec |-> s, tv_nsec |-> 0]
  /\ ntp \in InitialNtp
  /\ missed = 0 /\ timers = 0 /\ armed = 0 /\ pending = FALSE /\ leaps = <<>>
  /\ pc = "gettime"
  /\ next_leap = 0 /\ error_found = FALSE /\ insert = TRUE
  /\ iterations = Iterations /\ target = clock /\ woken = FALSE /\ now = 0
  /\ then = "setleap" /\ interrupted = FALSE /\ exitcode = 0 /\ late = 0 /\ completed = 0

-------------------------------------------------------------------------------
(* The kernel.                                                             *)

TimerClock == [clock EXCEPT !.tv_sec = @ + missed]
Expired(ts) == in_order(ts, TimerClock)
Due == pc # "exit" /\ armed # 0 /\ Expired([tv_sec |-> armed, tv_nsec |-> 0])

\* main is in a sleep that is not over yet.
Asleep == /\ ~pending
          /\ \/ pc \in {"presleep", "hrsleep"} /\ ~Expired(target) /\ ~woken
             \/ pc = "nap" /\ ~woken

\* Half a second passes; at a full second the state machine runs.
Tick ==
  /\ ~Due
  /\ Asleep \/ pc = "exit" \/ late < MaxLate
  /\ late' = IF Asleep \/ pc = "exit" THEN late ELSE late + 1
  /\ woken' = (woken \/ pc = "nap")
  /\ IF clock.tv_nsec + 1 < NSEC_PER_SEC
     THEN /\ clock' = timespec_add(clock, 1)
          /\ UNCHANGED <<ntp, missed, leaps>>
     ELSE LET secs == clock.tv_sec + 1
              l    == leap(ntp, secs)
          IN  /\ clock' = [tv_sec |-> secs + l, tv_nsec |-> 0]
              /\ ntp' = second_overflow(ntp, secs)
              /\ missed' = IF HrtimerBug THEN missed - l ELSE 0
              /\ leaps' = IF l = 0 THEN leaps ELSE Append(leaps, l)
  /\ UNCHANGED <<timers, armed, pending, pc, next_leap, error_found, insert, iterations,
                 target, now, then, interrupted, exitcode, completed>>

\* The timer expires and raises SIGRTMAX.
Expire ==
  /\ Due
  /\ armed' = 0 /\ pending' = TRUE
  /\ UNCHANGED <<clock, ntp, missed, timers, leaps, pc, localVars>>

\* An ntpd that is still running sets the status as it sees fit, from the validation to
\* the end of the first sleep.  What it may do in the last seconds, after the recheck and
\* before the watch is over, is left out: nothing in the program looks for it.
Interfere ==
  /\ Interference /\ pc \in {"create", "arm", "presleep"}
  /\ \E s \in {{}, {"PLL"}} : ntp' = adj_status(ntp, s)
  /\ UNCHANGED <<clock, sigVars, pc, localVars>>

-------------------------------------------------------------------------------
(* Signal handlers.                                                        *)

\* sigalarm: one adjtimex, judged against next_leap; it ends a sleep early.
sigalarm ==
  /\ pending /\ pc # "exit"
  /\ pending' = FALSE
  /\ error_found' = (error_found \/ clock.tv_sec < next_leap \/ adj_ret(ntp) # "WAIT")
  /\ woken' = TRUE
  /\ UNCHANGED <<clock, ntp, missed, timers, armed, leaps, pc, next_leap, insert, iterations,
                 target, now, then, interrupted, exitcode, late, completed>>

\* handler, on ctrl-c: clear_time_state, then exit(0).  main never goes on.
handler ==
  /\ CtrlC /\ pc # "exit" /\ ~interrupted
  /\ interrupted' = TRUE
  /\ pc' = "clear1" /\ then' = "exit" /\ exitcode' = 0
  /\ UNCHANGED <<kernelVars, next_leap, error_found, insert, iterations, target, woken, now,
                 late, completed>>

-------------------------------------------------------------------------------
(* main, which takes its next step once the signals are handled.           *)

At(from, to) == pc = from /\ pc' = to /\ ~pending

\* clock_gettime; next_leap is the end of the current day.
GetTime ==
  /\ At("gettime", IF settime THEN "settime" ELSE "clear1")
  /\ next_leap' = clock.tv_sec + (DAY - (clock.tv_sec % DAY))
  /\ then' = "setleap" /\ late' = 0 /\ leaps' = <<>>
  /\ UNCHANGED <<clock, ntp, missed, timers, armed, pending, error_found, insert, iterations,
                 target, woken, now, interrupted, exitcode, completed>>

\* settimeofday, which also tells the timers where the clock is.
SetTime ==
  /\ At("settime", "clear1")
  /\ clock' = [tv_sec |-> next_leap - 10, tv_nsec |-> 0]
  /\ ntp' = set_ntp(ntp) /\ missed' = 0
  /\ UNCHANGED <<timers, armed, pending, leaps, localVars>>

\* Mutants: clear_time_state in one call, and without the one for maxerror.
clear_time_state_Once ==
  /\ At("clear1", then) /\ ntp' = adj_status(ntp, {})
  /\ UNCHANGED <<clock, sigVars, localVars>>

clear_time_state_NoMaxerror ==
  /\ \/ At("clear1", "clear2") /\ ntp' = adj_status(ntp, {"PLL"})
     \/ At("clear2", then) /\ ntp' = adj_status(ntp, {})
  /\ UNCHANGED <<clock, sigVars, localVars>>

\* The three calls of clear_time_state.
clear_time_state ==
  /\ \/ At("clear1", "clear2") /\ ntp' = adj_status(ntp, {"PLL"})
     \/ At("clear2", "clear3") /\ ntp' = adj_maxerror(ntp, 0)
     \/ At("clear3", then) /\ ntp' = adj_status(ntp, {})
  /\ UNCHANGED <<clock, sigVars, localVars>>

LeapFlag == IF insert THEN {"INS"} ELSE {"DEL"}

\* Set the leap second insert (delete) flag, the first time or once more.
SetLeap ==
  /\ At("setleap", "validate") \/ At("again", "watch")
  /\ ntp' = adj_status(ntp, LeapFlag)
  /\ now' = IF pc = "again" THEN clock.tv_sec ELSE now
  /\ UNCHANGED <<clock, sigVars, next_leap, error_found, insert, iterations, target, woken,
                 then, interrupted, exitcode, late, completed>>

StatusIsLeap == ntp.status = {"INS"} \/ ntp.status = {"DEL"}

\* Validate STA_INS was set.
Validate ==
  /\ At("validate", IF StatusIsLeap THEN "create" ELSE "exit")
  /\ exitcode' = IF StatusIsLeap THEN exitcode ELSE 1
  /\ UNCHANGED <<kernelVars, next_leap, error_found, insert, iterations, target, woken, now,
                 then, interrupted, late, completed>>

\* timer_create: a new timer every iteration, and none is ever deleted.
CreateTimer ==
  /\ \/ timers < MaxTimers /\ At("create", "arm")
        /\ timers' = timers + 1 /\ exitcode' = exitcode
     \/ timers = MaxTimers /\ At("create", "exit")
        /\ timers' = timers /\ exitcode' = 1
  /\ UNCHANGED <<clock, ntp, missed, armed, pending, leaps, next_leap, error_found, insert,
                 iterations, target, woken, now, then, interrupted, late, completed>>

\* timer_settime, then to sleep until 3 seconds before the leap.
ArmTimer ==
  /\ At("arm", "presleep")
  /\ armed' = next_leap
  /\ target' = [tv_sec |-> next_leap - 3, tv_nsec |-> 0] /\ woken' = FALSE
  /\ UNCHANGED <<clock, ntp, missed, timers, pending, leaps, next_leap, error_found, insert,
                 iterations, now, then, interrupted, exitcode, late, completed>>

\* The sleep is over, or a signal ended it and main goes back to sleep.
Wake ==
  /\ ~Asleep
  /\ IF Expired(target) THEN At("presleep", "recheck") ELSE At("presleep", "presleep")
  /\ woken' = FALSE
  /\ UNCHANGED <<kernelVars, next_leap, error_found, insert, iterations, target, now, then,
                 interrupted, exitcode, late, completed>>

\* Mutant: the flag is not set once more.
Recheck_No ==
  /\ At("recheck", "watch")
  /\ now' = clock.tv_sec
  /\ UNCHANGED <<kernelVars, next_leap, error_found, insert, iterations, target, woken, then,
                 interrupted, exitcode, late, completed>>

\* Validate STA_INS is still set.
Recheck ==
  /\ At("recheck", IF StatusIsLeap THEN "watch" ELSE "again")
  /\ now' = clock.tv_sec
  /\ UNCHANGED <<kernelVars, next_leap, error_found, insert, iterations, target, woken, then,
                 interrupted, exitcode, late, completed>>

\* Mutant: the watch ends 2 seconds before the leap.
Watch_Before ==
  /\ \/ now < next_leap - 2 /\ At("watch", "nap")
        /\ now' = clock.tv_sec /\ woken' = FALSE /\ insert' = insert
     \/ now >= next_leap - 2 /\ At("watch", "hrstart")
        /\ insert' = ~insert /\ UNCHANGED <<now, woken>>
  /\ UNCHANGED <<kernelVars, next_leap, error_found, iterations, target, then, interrupted,
                 exitcode, late, completed>>

\* Check adjtimex output every half second until 2 seconds after the leap.
\* When the watch is over, switch to the other mode.
Watch ==
  /\ \/ now < next_leap + 2 /\ At("watch", "nap")
        /\ now' = clock.tv_sec /\ woken' = FALSE /\ insert' = insert
     \/ now >= next_leap + 2 /\ At("watch", "hrstart")
        /\ insert' = ~insert /\ UNCHANGED <<now, woken>>
  /\ UNCHANGED <<kernelVars, next_leap, error_found, iterations, target, then, interrupted,
                 exitcode, late, completed>>

\* The half second is over, or a signal ended it: the result is not looked at.
Nap ==
  /\ woken /\ At("nap", "watch")
  /\ UNCHANGED <<kernelVars, localVars>>

\* test_hrtimer_failure: sleep to an absolute time half a second ahead ...
HrStart ==
  /\ At("hrstart", "hrsleep")
  /\ target' = timespec_add(clock, NSEC_PER_SEC \div 2) /\ woken' = FALSE
  /\ UNCHANGED <<kernelVars, next_leap, error_found, insert, iterations, now, then,
                 interrupted, exitcode, late, completed>>

\* ... and see whether it has come; then the verdict of the iteration.
HrEnd ==
  /\ ~Asleep /\ At("hrsleep", "verdict")
  /\ error_found' = (error_found \/ ~in_order(target, clock))
  /\ completed' = completed + 1
  /\ UNCHANGED <<kernelVars, next_leap, insert, iterations, target, woken, now, then,
                 interrupted, exitcode, late>>

\* Mutant: an error observed ends the run, but as a pass.
Verdict_Passes ==
  LET left == IF iterations = -1 THEN -1 ELSE iterations - 1
      over == iterations # -1 /\ left = 0
  IN  /\ At("verdict", IF error_found \/ over THEN "clear1" ELSE "gettime")
      /\ then' = "exit"
      /\ exitcode' = 0
      /\ iterations' = IF error_found THEN iterations ELSE left
      /\ UNCHANGED <<kernelVars, next_leap, error_found, insert, target, woken, now,
                     interrupted, late, completed>>

\* Errors observed: clear and fail.  if ((iterations != -1) && !(--iterations))
\* break: clear and pass.  Otherwise go round again.
Verdict ==
  LET left == IF iterations = -1 THEN -1 ELSE iterations - 1
      over == iterations # -1 /\ left = 0
  IN  /\ At("verdict", IF error_found \/ over THEN "clear1" ELSE "gettime")
      /\ then' = "exit"
      /\ exitcode' = IF error_found THEN 1 ELSE 0
      /\ iterations' = IF error_found THEN iterations ELSE left
      /\ UNCHANGED <<kernelVars, next_leap, error_found, insert, target, woken, now,
                     interrupted, late, completed>>

Main ==
  \/ GetTime \/ SetTime \/ clear_time_state \/ SetLeap \/ Validate \/ CreateTimer
  \/ ArmTimer \/ Wake \/ Recheck \/ Watch \/ Nap \/ HrStart \/ HrEnd \/ Verdict

\* After the program the clock runs on for a day; that is where the model ends.
AfterExit == pc = "exit" /\ clock.tv_sec < next_leap + DAY

Next ==
  \/ (pc = "exit" => AfterExit) /\ Tick
  \/ Expire \/ Interfere \/ sigalarm \/ handler \/ Main
  \/ pc = "exit" /\ ~AfterExit /\ UNCHANGED vars

Spec == Init /\ [][Next]_vars

\* Time passes, timers expire and the program runs when it can.
FairSpec == Spec /\ WF_vars(Tick) /\ WF_vars(Expire) /\ WF_vars(sigalarm) /\ WF_vars(Main)

-------------------------------------------------------------------------------
(* Properties.                                                             *)

\* Type invariant.
TypeOK ==
  /\ clock \in Timespec /\ ntp \in Ntp /\ missed \in Int
  /\ timers \in 0 .. MaxTimers /\ armed \in Nat /\ pending \in BOOLEAN
  /\ leaps \in Seq({-1, 1})
  /\ pc \in {"gettime", "settime", "clear1", "clear2", "clear3", "setleap", "validate",
             "create", "arm", "presleep", "recheck", "again", "watch", "nap", "hrstart",
             "hrsleep", "verdict", "exit"}
  /\ next_leap \in Nat /\ error_found \in BOOLEAN /\ insert \in BOOLEAN
  /\ iterations \in Int /\ target \in Timespec /\ woken \in BOOLEAN /\ now \in Nat
  /\ then \in {"setleap", "exit"} /\ interrupted \in BOOLEAN /\ exitcode \in {0, 1}
  /\ late \in 0 .. MaxLate /\ completed \in Nat

\* "Make sure we cleanup on ctrl-c", wherever it comes and on old kernels too:
\* once clear_time_state has taken the program out, the clock does not leap.
NoLeapStep == pc = "exit" /\ then = "exit" => clock' = timespec_add(clock, 1)

NoLeapAfterExit == [][NoLeapStep]_clock

\* On a kernel without the bugs the test looks for, no leap is reported as an
\* error and no set-up step fails, in spite of settimeofday's UNSYNC, delays
\* and an ntpd that clears the flags.
NoFalseError == ~HrtimerBug /\ ~interrupted => ~error_found /\ exitcode = 0

\* "Leap complete" is true: a full iteration has seen one leap, of the kind it
\* asked for (insert is switched by then).
LeapComplete == pc = "verdict" => leaps = <<IF insert THEN 1 ELSE -1>>

\* The unchecked sleep of test_hrtimer_failure cannot be cut short by a signal
\* of the timer: that one has long been handled.
NoAlarmInHrtimerTest ==
  pc \in {"hrstart", "hrsleep"} => armed = 0 /\ ~pending

\* A kernel whose timers miss the leap does not pass.
HrtimerBugIsFound ==
  HrtimerBug /\ pc = "exit" /\ ~interrupted => exitcode = 1

\* The watch always gets past the leap, and the program ends, or is ended.
Ends == <>(pc = "exit")

\* "This runs continuously": without -i only ctrl-c or an observed error ends
\* the program.
RunsContinuously ==
  Iterations = -1 /\ pc = "exit" => interrupted \/ error_found

\* "Running for %i iterations" is what it does.
RunsAsManyIterations == Iterations >= 0 => completed <= Iterations
===============================================================================
