---------------------------- MODULE LeapADayProofs ----------------------------
(***************************************************************************)
(* What leap-a-day promises, for any number of iterations, length of the    *)
(* day, kernel, interference and delay that leave it the time it counts on. *)
(*                                                                         *)
(* ClearInv is what clear_time_state is worth: with it alone, and without   *)
(* any condition on time, the clock does not leap once the program is over. *)
(* The rest follows one iteration: how late it can be (TimeInv), where the  *)
(* kernel stands with the leap it was asked for (LeapInv), and that the     *)
(* timer goes by the clock up to its expiry (TimerInv).  From these follow  *)
(* the verdict on a sound kernel (SoundInv) and on a faulty one (BugInv).   *)
(***************************************************************************)
EXTENDS LeapADay, NtpKernelProofs

\* Half seconds, and how many of them there are to the leap.
Half(ts) == 2 * ts.tv_sec + ts.tv_nsec
T == Half(clock)
E == 2 * next_leap

\* By how many the leap of this iteration has moved the clock.
Leapt   == IF leaps = <<>> THEN 0 ELSE 2 * leaps[1]
Elapsed == T - Leapt

Setting  == {"setleap", "validate", "create", "arm"}
Waiting  == {"presleep", "recheck", "again"}
Watching == {"watch", "nap"}
Ending   == {"hrstart", "hrsleep", "verdict"}

\* An ntpd may have rewritten the status since main validated it.
Open == {"create", "arm"} \cup Waiting
Clearing == {"clear1", "clear2", "clear3"}

\* The program is in an iteration, from before or from after SetLeap.
Preparing == pc = "settime" \/ (pc \in Clearing /\ then = "setleap") \/ pc \in Setting
Asking    == pc \in (Setting \ {"setleap"}) \cup Waiting \cup Watching \cup Ending

\* What it has asked for: insert is switched when the watch is over.
Asked == IF pc \in Ending THEN ~insert ELSE insert
Flag  == IF Asked THEN "INS" ELSE "DEL"

ClearInv ==
  /\ pc \notin {"gettime", "exit"} /\ ~interrupted => next_leap >= DAY
  /\ pc \in {"clear2", "clear3"} => "PLL" \in ntp.status
  /\ pc \in {"settime"} \cup Setting \cup Waiting \cup Watching \cup Ending => then = "setleap"
  /\ interrupted => pc \in Clearing \cup {"exit"} /\ then = "exit"
  /\ pc = "setleap" \/ (pc = "exit" /\ then = "exit") =>
       ntp.state = "OK" /\ "INS" \notin ntp.status /\ "DEL" \notin ntp.status

TimeInv ==
  /\ next_leap % DAY = 0
  /\ pc = "gettime" => next_leap <= clock.tv_sec /\ T <= E + 2 * DAY - Spare - MaxLate + late
  /\ Preparing \/ Asking => E - 2 * DAY <= T
  /\ Preparing => T <= E - Spare + late
  /\ pc \in Waiting => Elapsed <= E - 6 + late
  /\ pc = "presleep" => target = [tv_sec |-> next_leap - 3, tv_nsec |-> 0]
  /\ pc \in Watching =>
       /\ Elapsed <= 2 * now + 4 + late /\ (pc = "nap" /\ ~woken => Elapsed <= 2 * now + 3 + late)
       /\ 2 * now <= E + 8 + late /\ now <= clock.tv_sec
  /\ pc \in Ending => E + 4 <= T /\ T <= E + 17 + 2 * late
  /\ pc = "hrstart" => T <= E + 14 + 2 * late
  /\ pc = "hrsleep" => Half(target) <= E + 15 + 2 * late /\ ~woken

\* Where the kernel stands with the leap: ahead of it, or behind it.
KernelInv ==
  \/ /\ leaps = <<>> /\ ntp.state \in {"OK", Flag}
     /\ T >= E - 4 => ntp.state = Flag
     /\ T <= IF Asked THEN E - 1 ELSE E - 3
  \/ /\ leaps = <<IF Asked THEN -1 ELSE 1>>
     /\ \/ Asked /\ ntp.state = "OOP" /\ E - 2 <= T /\ T <= E - 1
        \/ ntp.state = "WAIT" /\ E <= T

LeapInv ==
  /\ Preparing => leaps = <<>>
  /\ Asking =>
       /\ "INS" \in ntp.status => Flag = "INS"
       /\ "DEL" \in ntp.status => Flag = "DEL"
       /\ Flag \notin ntp.status \/ "PLL" \in ntp.status => Interference /\ pc \in Open
       /\ KernelInv

TimerInv ==
  /\ ~HrtimerBug => missed = 0
  /\ Asking \/ (Preparing /\ pc # "settime") =>
       2 * missed = 0 \/ 2 * missed + Leapt = 0
  /\ armed # 0 /\ ~interrupted =>
       pc \in Waiting \cup Watching /\ armed = next_leap /\ T + 2 * missed <= E
  /\ pending /\ ~interrupted => pc \in Waiting \cup Watching /\ T + 2 * missed >= E
       /\ T + 2 * missed <= E + late

\* All of it, for one iteration.
IterationInv == TimeInv /\ LeapInv /\ TimerInv

ClearedAt == E - 2 * Ahead

CountInv ==
  /\ pc \in {"gettime", "settime"} \cup (Setting \ {"arm"}) \/ (pc \in Clearing /\
       then = "setleap") =>
       iterations >= 1 /\ (interrupted \/ timers + iterations <= MaxTimers)
  /\ pc \in {"arm"} \cup Waiting \cup Watching \cup Ending =>
       iterations >= 1 /\ timers + iterations <= MaxTimers + 1
  /\ iterations <= Iterations

SyncInv ==
  /\ pc = "settime" => settime
  /\ pc = "gettime" /\ ~settime /\ Iterations = 1 => next_leap = 0 /\ DAY - clock.tv_sec <= Ahead
  /\ Preparing /\ pc # "settime" => ClearedAt <= T
  /\ pc \in Setting \cup Waiting \cup Watching =>
       ("UNSYNC" \in ntp.status => ntp.maxerror = NTP_PHASE_LIMIT)
  /\ (pc = "clear3" /\ then = "setleap") \/ pc \in Setting \cup Waiting \cup Watching =>
       2 * ntp.maxerror <= Elapsed - ClearedAt + 1 - clock.tv_nsec

SoundInv == CountInv /\ SyncInv /\ (~interrupted => ~error_found /\ exitcode = 0)

\* A kernel whose timers miss the leap, and a program that is hardly held up.
Faulty == HrtimerBug /\ MaxLate <= 2

BugInv ==
  /\ pc = "gettime" \/ Preparing \/ Asking => Asked
  /\ Asking \/ (Preparing /\ pc # "settime") => missed = IF leaps = <<>> THEN 0 ELSE 1
  /\ pc \in Waiting \cup Watching \cup Ending /\ armed = 0 /\ ~pending => error_found \/ late = 2
  /\ pc = "hrsleep" => error_found \/ Half(target) = T + 1
  /\ pc = "verdict" => error_found
  /\ (pc \in Clearing /\ then = "exit") \/ pc = "exit" => interrupted \/ exitcode = 1

-------------------------------------------------------------------------------
(* The clean-up.                                                           *)

\* Whatever the kernel is left with is cleared before anything is asked for.
LEMMA InitClear ==
  ASSUME NtpAssumption, LeapADayAssumption, Init
  PROVE  TypeOK /\ ClearInv
<1>1. PICK s \in Starts : clock = [tv_sec |-> s, tv_nsec |-> 0]
  BY DEF Init
<1>2. s \in Nat /\ 0 \in 0 .. NSEC_PER_SEC - 1
  BY NsecAssumption DEF LeapADayAssumption, NtpAssumption
<1>3. clock \in Timespec
  BY <1>1, <1>2 DEF Timespec
<1>4. ntp \in Ntp
  BY DEF Init, InitialNtp, Ntp, NtpAssumption, Flags, States
<1>5. leaps = <<>> /\ leaps \in Seq({-1, 1})
  BY DEF Init
<1>6. 0 \in 0 .. MaxTimers /\ 0 \in 0 .. MaxLate /\ Iterations \in Int
  BY DEF LeapADayAssumption
<1>7. TypeOK
  <2>1. /\ missed = 0 /\ timers = 0 /\ armed = 0 /\ next_leap = 0 /\ now = 0
        /\ iterations = Iterations /\ target = clock /\ exitcode = 0 /\ late = 0
        /\ completed = 0
    BY DEF Init
  <2>3. /\ pending \in BOOLEAN /\ error_found \in BOOLEAN /\ insert \in BOOLEAN
        /\ woken \in BOOLEAN /\ interrupted \in BOOLEAN
    BY Zenon DEF Init
  <2>2. pc = "gettime" /\ then = "setleap"
    BY DEF Init
  <2> QED BY <1>3, <1>4, <1>5, <1>6, <2>1, <2>2, <2>3 DEF TypeOK
<1>8. ClearInv
  BY DEF Init, ClearInv, Setting, Waiting, Watching, Ending, Clearing
<1> QED BY <1>7, <1>8

\* Half a second passes.
LEMMA TickClear ==
  ASSUME NtpAssumption, LeapADayAssumption, TypeOK, ClearInv, Tick
  PROVE  TypeOK' /\ ClearInv'
<1>1. clock.tv_sec \in Nat /\ clock.tv_nsec \in 0 .. NSEC_PER_SEC - 1
  BY Addition DEF TypeOK
<1>2. late' \in 0 .. MaxLate
  <2>1. MaxLate \in Nat /\ late \in 0 .. MaxLate
    BY DEF LeapADayAssumption, TypeOK
  <2>2. CASE late' = late
    BY <2>1, <2>2
  <2>3. CASE late' = late + 1 /\ late < MaxLate
    BY <2>1, <2>3
  <2> QED BY <2>2, <2>3 DEF Tick
<1>3. woken' \in BOOLEAN
  BY DEF Tick, TypeOK
<1>4. UNCHANGED <<timers, armed, pending, pc, next_leap, error_found, insert, iterations,
                  target, now, then, interrupted, exitcode, completed>>
  BY DEF Tick
<1>5. CASE clock.tv_nsec + 1 < NSEC_PER_SEC
  <2>1. clock' \in Timespec
    BY <1>5, Addition DEF Tick, TypeOK
  <2>2. UNCHANGED <<ntp, missed, leaps>>
    BY <1>5 DEF Tick
  <2>3. TypeOK'
    BY <1>2, <1>3, <1>4, <2>1, <2>2 DEF TypeOK
  <2> QED BY <1>4, <2>2, <2>3 DEF ClearInv, Setting, Waiting, Watching, Ending, Clearing
<1>6. CASE ~(clock.tv_nsec + 1 < NSEC_PER_SEC)
  <2> DEFINE secs == clock.tv_sec + 1
             l    == leap(ntp, secs)
  <2>1. /\ clock' = [tv_sec |-> secs + l, tv_nsec |-> 0]
        /\ ntp' = second_overflow(ntp, secs)
        /\ missed' = IF HrtimerBug THEN missed - l ELSE 0
        /\ leaps' = IF l = 0 THEN leaps ELSE Append(leaps, l)
    BY <1>6 DEF Tick
  <2>2. secs \in Nat /\ secs >= 1
    BY <1>1
  <2> HIDE DEF secs
  <2>3. /\ ntp' \in Ntp /\ ntp'.state = next_state(ntp, secs)
        /\ ntp.status \subseteq ntp'.status /\ ntp'.status \subseteq ntp.status \cup {"UNSYNC"}
        /\ l \in {-1, 0, 1}
    BY <2>1, <2>2, Overflow DEF TypeOK
  <2> HIDE DEF l
  <2>4. secs + l \in Nat /\ 0 \in 0 .. NSEC_PER_SEC - 1
    BY <2>2, <2>3, NsecAssumption
  <2>5. clock' \in Timespec
    BY <2>1, <2>4 DEF Timespec
  <2>6. missed' \in Int
    BY <2>1, <2>3 DEF TypeOK
  <2>7. leaps' \in Seq({-1, 1})
    BY <2>1, <2>3 DEF TypeOK
  <2>8. TypeOK'
    BY <1>2, <1>3, <1>4, <2>3, <2>5, <2>6, <2>7 DEF TypeOK
  <2>9. ntp.state = "OK" /\ "INS" \notin ntp.status /\ "DEL" \notin ntp.status
          => ntp'.state = "OK" /\ "INS" \notin ntp'.status /\ "DEL" \notin ntp'.status
    BY <2>3 DEF next_state
  <2> QED BY <1>4, <2>3, <2>8, <2>9 DEF ClearInv, Setting, Waiting, Watching, Ending, Clearing
<1> QED BY <1>5, <1>6

\* The other steps, none of which is a second overflow.
LEMMA StepClear ==
  ASSUME NtpAssumption, LeapADayAssumption, LongDay, TypeOK, ClearInv, [Next]_vars
  PROVE  TypeOK' /\ ClearInv'
<1> USE DEF At, Setting, Waiting, Watching, Ending, Clearing
<1>a. ASSUME NEW s \in SUBSET Flags, NEW n, n = adj_status(ntp, s)
      PROVE  n \in Ntp /\ n.status = s /\ ("PLL" \in ntp.status /\ s = {} => n.state = "OK")
  BY <1>a, Calls DEF TypeOK
<1>b. {"PLL"} \in SUBSET Flags /\ {} \in SUBSET Flags /\ LeapFlag \in SUBSET Flags
  BY DEF Flags, LeapFlag
<1>c. /\ adj_maxerror(ntp, 0) \in Ntp
      /\ adj_maxerror(ntp, 0).state = ntp.state /\ adj_maxerror(ntp, 0).status = ntp.status
      /\ set_ntp(ntp) \in Ntp
  BY Calls DEF TypeOK
<1>d. DAY \in Nat \ {0} /\ NSEC_PER_SEC \in Nat \ {0} /\ 0 \in 0 .. NSEC_PER_SEC - 1
      /\ NSEC_PER_SEC \div 2 \in Nat /\ DAY >= 10
  BY NsecAssumption DEF NtpAssumption, LongDay
<1>1. CASE Tick
  BY <1>1, TickClear
<1>2. CASE Expire
  BY <1>2 DEF Expire, TypeOK, ClearInv, localVars
<1>3. CASE Interfere
  <2>1. ntp' \in Ntp
    BY <1>3, <1>a, <1>b DEF Interfere
  <2> QED BY <1>3, <2>1 DEF Interfere, TypeOK, ClearInv, localVars, sigVars
<1>4. CASE sigalarm
  BY <1>4 DEF sigalarm, TypeOK, ClearInv
<1>5. CASE handler
  BY <1>5 DEF handler, TypeOK, ClearInv, kernelVars
<1>6. CASE GetTime
  <2>1. clock.tv_sec \in Nat
    BY Addition DEF TypeOK
  <2>2. next_leap' \in Nat /\ next_leap' >= DAY
    BY <1>6, <1>d, <2>1, NextMidnight DEF GetTime
  <2>3. leaps' = <<>> /\ leaps' \in Seq({-1, 1})
    BY <1>6 DEF GetTime
  <2>4. late' = 0 /\ 0 \in 0 .. MaxLate
    BY <1>6 DEF GetTime, LeapADayAssumption
  <2> QED BY <1>6, <2>2, <2>3, <2>4 DEF GetTime, TypeOK, ClearInv
<1>7. CASE SetTime
  <2>1. next_leap - 10 \in Nat \/ interrupted
    BY <1>7, <1>d DEF SetTime, ClearInv, TypeOK
  <2>2. ~interrupted
    BY <1>7 DEF SetTime, ClearInv
  <2>3. clock' \in Timespec
    BY <1>7, <1>d, <2>1, <2>2 DEF SetTime, Timespec
  <2> QED BY <1>7, <1>c, <2>3 DEF SetTime, TypeOK, ClearInv, localVars
<1>8. CASE clear_time_state
  <2>1. CASE At("clear1", "clear2") /\ ntp' = adj_status(ntp, {"PLL"})
    BY <1>8, <2>1, <1>a, <1>b DEF clear_time_state, TypeOK, ClearInv, localVars, sigVars
  <2>2. CASE At("clear2", "clear3") /\ ntp' = adj_maxerror(ntp, 0)
    BY <1>8, <2>2, <1>c DEF clear_time_state, TypeOK, ClearInv, localVars, sigVars
  <2>3. CASE At("clear3", then) /\ ntp' = adj_status(ntp, {})
    <3>1. "PLL" \in ntp.status
      BY <2>3 DEF ClearInv
    <3>2. ntp' \in Ntp /\ ntp'.status = {} /\ ntp'.state = "OK"
      BY <2>3, <3>1, <1>a, <1>b
    <3> QED BY <1>8, <2>3, <3>2 DEF clear_time_state, TypeOK, ClearInv, localVars, sigVars
  <2> QED BY <1>8, <2>1, <2>2, <2>3 DEF clear_time_state
<1>9. CASE SetLeap
  <2>1. ntp' \in Ntp
    BY <1>9, <1>a, <1>b DEF SetLeap
  <2>2. now' \in Nat
    BY <1>9, Addition DEF SetLeap, TypeOK
  <2> QED BY <1>9, <2>1, <2>2 DEF SetLeap, TypeOK, ClearInv, sigVars
<1>10. CASE Validate
  BY <1>10 DEF Validate, TypeOK, ClearInv, kernelVars
<1>11. CASE CreateTimer
  <2>1. timers' \in 0 .. MaxTimers
    <3>1. MaxTimers \in Nat /\ timers \in 0 .. MaxTimers
      BY DEF LeapADayAssumption, TypeOK
    <3>2. CASE timers' = timers
      BY <3>1, <3>2
    <3>3. CASE timers < MaxTimers /\ timers' = timers + 1
      BY <3>1, <3>3
    <3> QED BY <1>11, <3>2, <3>3 DEF CreateTimer
  <2> QED BY <1>11, <2>1 DEF CreateTimer, TypeOK, ClearInv
<1>12. CASE ArmTimer
  <2>1. next_leap - 3 \in Nat
    BY <1>12, <1>d DEF ArmTimer, ClearInv, TypeOK
  <2>2. target' \in Timespec
    BY <1>12, <1>d, <2>1 DEF ArmTimer, Timespec
  <2> QED BY <1>12, <2>2 DEF ArmTimer, TypeOK, ClearInv
<1>13. CASE Wake
  BY <1>13 DEF Wake, TypeOK, ClearInv, kernelVars
<1>14. CASE Recheck
  <2>1. now' \in Nat
    BY <1>14, Addition DEF Recheck, TypeOK
  <2> QED BY <1>14, <2>1 DEF Recheck, TypeOK, ClearInv, kernelVars
<1>15. CASE Watch
  <2>1. now' \in Nat
    BY <1>15, Addition DEF Watch, TypeOK
  <2>2. woken' \in BOOLEAN /\ insert' \in BOOLEAN
    BY <1>15 DEF Watch, TypeOK
  <2> QED BY <1>15, <2>1, <2>2 DEF Watch, TypeOK, ClearInv, kernelVars
<1>16. CASE Nap
  BY <1>16 DEF Nap, TypeOK, ClearInv, kernelVars, localVars
<1>17. CASE HrStart
  <2>1. target' \in Timespec
    BY <1>17, <1>d, Addition DEF HrStart, TypeOK
  <2> QED BY <1>17, <2>1 DEF HrStart, TypeOK, ClearInv, kernelVars
<1>18. CASE HrEnd
  <2>1. completed' \in Nat /\ error_found' \in BOOLEAN
    BY <1>18 DEF HrEnd, TypeOK
  <2> QED BY <1>18, <2>1 DEF HrEnd, TypeOK, ClearInv, kernelVars
<1>19. CASE Verdict
  <2>1. iterations' \in Int
    BY <1>19 DEF Verdict, TypeOK
  <2> QED BY <1>19, <2>1 DEF Verdict, TypeOK, ClearInv, kernelVars
<1>20. CASE UNCHANGED vars
  BY <1>20 DEF vars, kernelVars, localVars, TypeOK, ClearInv
<1> QED BY <1>1, <1>2, <1>3, <1>4, <1>5, <1>6, <1>7, <1>8, <1>9, <1>10, <1>11, <1>12,
           <1>13, <1>14, <1>15, <1>16, <1>17, <1>18, <1>19, <1>20 DEF Next, Main

\* Types, and no leap where the program has cleared it, on both kinds of kernel.
THEOREM ClearInvariant ==
  ASSUME NtpAssumption, LeapADayAssumption, LongDay
  PROVE  Spec => [](TypeOK /\ ClearInv)
<1>1. Init => TypeOK /\ ClearInv
  BY InitClear
<1>2. TypeOK /\ ClearInv /\ [Next]_vars => (TypeOK /\ ClearInv)'
  BY StepClear
<1> QED BY <1>1, <1>2, PTL DEF Spec

\* Types, for every day of at least ten seconds.
THEOREM TypeCorrect ==
  ASSUME NtpAssumption, LeapADayAssumption, LongDay
  PROVE  Spec => []TypeOK
<1>1. TypeOK /\ ClearInv => TypeOK
  OBVIOUS
<1> QED BY <1>1, ClearInvariant, PTL

\* A clock that has nothing to do but run, runs.
LEMMA NoLeapNextStep ==
  ASSUME NtpAssumption, TypeOK, ClearInv, [Next]_vars
  PROVE  [NoLeapStep]_clock
<1> SUFFICES ASSUME pc = "exit", then = "exit", clock' # clock
             PROVE  clock' = timespec_add(clock, 1)
  BY DEF NoLeapStep
<1>1. Tick
  BY DEF Next, vars, kernelVars, Expire, Interfere, sigalarm, handler, Main, GetTime, SetTime,
         clear_time_state, SetLeap, Validate, CreateTimer, ArmTimer, Wake, Recheck, Watch, Nap,
         HrStart, HrEnd, Verdict, At
<1>2. clock.tv_sec \in Nat /\ clock \in Timespec
  BY Addition DEF TypeOK
<1>3. CASE clock.tv_nsec + 1 < NSEC_PER_SEC
  BY <1>1, <1>3 DEF Tick
<1>4. CASE ~(clock.tv_nsec + 1 < NSEC_PER_SEC)
  <2>1. ntp.state = "OK"
    BY DEF ClearInv
  <2>2. leap(ntp, clock.tv_sec + 1) = 0
    BY <2>1 DEF leap
  <2>3. clock.tv_sec + 1 + 0 = clock.tv_sec + 1
    BY <1>2
  <2>4. clock' = [tv_sec |-> clock.tv_sec + 1, tv_nsec |-> 0]
    BY <1>1, <1>4, <2>2, <2>3 DEF Tick
  <2> QED BY <1>2, <1>4, <2>4, Addition
<1> QED BY <1>3, <1>4

\* Once leap-a-day is gone the clock never leaps, whatever has ended it.
THEOREM ClockStaysClear ==
  ASSUME NtpAssumption, LeapADayAssumption, LongDay
  PROVE  Spec => NoLeapAfterExit
<1>1. TypeOK /\ ClearInv /\ [Next]_vars => [NoLeapStep]_clock
  BY NoLeapNextStep
<1> QED BY <1>1, ClearInvariant, PTL DEF Spec, NoLeapAfterExit
-------------------------------------------------------------------------------
(* One iteration, in half seconds.                                         *)

\* A time in half seconds.
LEMMA Halves ==
  ASSUME Timely, NEW ts \in Timespec
  PROVE  /\ ts.tv_sec \in Nat /\ ts.tv_nsec \in {0, 1}
         /\ Half(ts) \in Nat /\ Half(ts) = 2 * ts.tv_sec + ts.tv_nsec
<1>1. ts.tv_sec \in Nat /\ ts.tv_nsec \in 0 .. NSEC_PER_SEC - 1 /\ NSEC_PER_SEC = 2
  BY Addition DEF Timely
<1>2. ts.tv_nsec \in {0, 1}
  BY <1>1
<1> QED BY <1>1, <1>2 DEF Half

\* Half a second later.
LEMMA AnotherHalf ==
  ASSUME Timely, NEW ts \in Timespec
  PROVE  Half(timespec_add(ts, 1)) = Half(ts) + 1
<1>1. ts.tv_sec \in Nat /\ ts.tv_nsec \in {0, 1} /\ Half(ts) = 2 * ts.tv_sec + ts.tv_nsec
      /\ NSEC_PER_SEC = 2
  BY Halves DEF Timely
<1>2. CASE ts.tv_nsec = 0
  <2>1. timespec_add(ts, 1) = [tv_sec |-> ts.tv_sec, tv_nsec |-> 0 + 1]
    BY <1>1, <1>2, Addition
  <2> QED BY <1>1, <1>2, <2>1 DEF Half
<1>3. CASE ts.tv_nsec = 1
  <2>1. timespec_add(ts, 1) = [tv_sec |-> ts.tv_sec + 1, tv_nsec |-> 0]
    BY <1>1, <1>3, Addition
  <2> QED BY <1>1, <1>3, <2>1 DEF Half
<1> QED BY <1>1, <1>2, <1>3

\* in_order compares half seconds, and missed moves the clock of the timers.
LEMMA Order ==
  ASSUME Timely, TypeOK, NEW ts \in Timespec
  PROVE  /\ in_order(ts, clock) <=> Half(ts) <= T
         /\ Expired(ts) <=> Half(ts) <= T + 2 * missed
<1>1. /\ ts.tv_sec \in Nat /\ ts.tv_nsec \in {0, 1} /\ Half(ts) = 2 * ts.tv_sec + ts.tv_nsec
      /\ clock.tv_sec \in Nat /\ clock.tv_nsec \in {0, 1}
      /\ T = 2 * clock.tv_sec + clock.tv_nsec
      /\ missed \in Int
  BY Halves DEF T, TypeOK
<1>2. TimerClock = [tv_sec |-> clock.tv_sec + missed, tv_nsec |-> clock.tv_nsec]
  BY DEF TimerClock, TypeOK, Timespec
<1>3. TimerClock.tv_sec = clock.tv_sec + missed /\ TimerClock.tv_nsec = clock.tv_nsec
  BY <1>2
<1>4. in_order(ts, clock) <=> Half(ts) <= T
  BY <1>1 DEF in_order
<1>5. Expired(ts) <=> Half(ts) <= T + 2 * missed
  <2>1. Expired(ts) <=> \/ ts.tv_sec < clock.tv_sec + missed
                        \/ ts.tv_sec = clock.tv_sec + missed /\ ts.tv_nsec <= clock.tv_nsec
    BY <1>3, Zenon DEF Expired, in_order
  <2> QED BY <1>1, <2>1
<1> QED BY <1>4, <1>5

\* What is known of the numbers.
LEMMA Numbers ==
  ASSUME LeapADayAssumption, NtpAssumption, Timely, TypeOK
  PROVE  /\ clock.tv_sec \in Nat /\ clock.tv_nsec \in {0, 1} /\ T \in Nat
         /\ T = 2 * clock.tv_sec + clock.tv_nsec
         /\ next_leap \in Nat /\ E \in Nat /\ E = 2 * next_leap /\ missed \in Int
         /\ late \in Nat /\ late <= MaxLate /\ MaxLate \in Nat /\ MaxLate <= 15
         /\ now \in Nat /\ DAY \in Nat /\ 2 * DAY >= 17 + Spare + 2 * MaxLate
         /\ Spare \in 6 .. 20 /\ Spare >= 5 + MaxLate
         /\ Due <=> pc # "exit" /\ armed # 0 /\ 2 * armed <= T + 2 * missed
<1>1. /\ clock.tv_sec \in Nat /\ clock.tv_nsec \in {0, 1} /\ T \in Nat
      /\ T = 2 * clock.tv_sec + clock.tv_nsec
  BY Halves DEF T, TypeOK
<1>2. /\ next_leap \in Nat /\ E \in Nat /\ E = 2 * next_leap /\ missed \in Int
      /\ now \in Nat /\ DAY \in Nat /\ 2 * DAY >= 17 + Spare + 2 * MaxLate /\ armed \in Nat
  BY DEF TypeOK, E, NtpAssumption, Timely
<1>3. late \in Nat /\ late <= MaxLate /\ MaxLate \in Nat /\ MaxLate <= 15
      /\ Spare \in 6 .. 20 /\ Spare >= 5 + MaxLate
  BY DEF LeapADayAssumption, TypeOK, Timely, Spare
<1> DEFINE ts == [tv_sec |-> armed, tv_nsec |-> 0]
<1>4. ts \in Timespec /\ Half(ts) = 2 * armed
  BY <1>2, NsecAssumption DEF Timespec, Half
<1>5. Due <=> pc # "exit" /\ armed # 0 /\ Half(ts) <= T + 2 * missed
  BY <1>4, Order DEF Due
<1> QED BY <1>1, <1>2, <1>3, <1>4, <1>5

\* The leaps of an iteration in half seconds.
LEMMA Leaps ==
  /\ leaps = <<>> => Leapt = 0
  /\ leaps = <<-1>> => Leapt = -2
  /\ leaps = <<1>> => Leapt = 2
  /\ <<>> # <<1>> /\ <<>> # <<-1>> /\ <<1>> # <<-1>>
BY DEF Leapt

\* Within a day of midnight m, a flag that stays makes the clock leap there only:
\* an inserted second before second m, a deleted one before second m - 1.
LEMMA LeapTime ==
  ASSUME NtpAssumption, NEW n \in Ntp, NEW secs \in Nat, NEW m \in Nat, m % DAY = 0,
         m - DAY < secs, secs + 1 < m + DAY
  PROVE  /\ leap(n, secs) = -1 => n.state = "INS" /\ secs = m
         /\ leap(n, secs) = 1 => n.state = "DEL" /\ secs + 1 = m
         /\ n.state = "INS" /\ "INS" \in n.status =>
              next_state(n, secs) = IF secs = m THEN "OOP" ELSE "INS"
         /\ n.state = "DEL" /\ "DEL" \in n.status =>
              next_state(n, secs) = IF secs + 1 = m THEN "WAIT" ELSE "DEL"
<1>1. DAY \in Nat \ {0} /\ secs \in Int /\ secs + 1 \in Int /\ m \in Int
  BY DEF NtpAssumption
<1>2. m - DAY < secs + 1 /\ secs < m + DAY
  BY <1>1
<1>3. (secs % DAY = 0 <=> secs = m) /\ ((secs + 1) % DAY = 0 <=> secs + 1 = m)
  BY <1>1, <1>2, OneMidnight
<1>4. leap(n, secs) = -1 => n.state = "INS" /\ next_state(n, secs) = "OOP"
  BY Overflow
<1>5. leap(n, secs) = 1 => n.state = "DEL" /\ next_state(n, secs) = "WAIT"
  BY Overflow
<1>6. n.state = "INS" =>
        next_state(n, secs) \in {"OK"} \cup (IF secs = m THEN {"OOP"} ELSE {"INS"})
  BY <1>3 DEF next_state
<1>7. n.state = "DEL" =>
        next_state(n, secs) \in {"OK"} \cup (IF secs + 1 = m THEN {"WAIT"} ELSE {"DEL"})
  BY <1>3 DEF next_state
<1>8. /\ n.state = "INS" /\ "INS" \in n.status =>
           next_state(n, secs) = IF secs = m THEN "OOP" ELSE "INS"
      /\ n.state = "DEL" /\ "DEL" \in n.status =>
           next_state(n, secs) = IF secs + 1 = m THEN "WAIT" ELSE "DEL"
  BY <1>3 DEF next_state, Withdrawn
<1> QED BY <1>4, <1>5, <1>6, <1>7, <1>8

\* Half a second passes: within a second, or into the next one.
LEMMA HalfSecond ==
  ASSUME LeapADayAssumption, NtpAssumption, Timely, TypeOK, Tick
  PROVE  \/ /\ T' = T + 1 /\ clock'.tv_sec = clock.tv_sec /\ clock.tv_nsec = 0
            /\ UNCHANGED <<ntp, missed, leaps>>
         \/ \E l \in {-1, 0, 1} :
              /\ l = leap(ntp, clock.tv_sec + 1)
              /\ T' = T + 1 + 2 * l /\ clock'.tv_sec = clock.tv_sec + 1 + l
              /\ clock.tv_nsec = 1
              /\ ntp' = second_overflow(ntp, clock.tv_sec + 1)
              /\ missed' = IF HrtimerBug THEN missed - l ELSE 0
              /\ leaps' = IF l = 0 THEN leaps ELSE Append(leaps, l)
<1>1. clock.tv_sec \in Nat /\ clock.tv_nsec \in {0, 1} /\ T = 2 * clock.tv_sec + clock.tv_nsec
      /\ NSEC_PER_SEC = 2 /\ clock \in Timespec
  BY Numbers DEF Timely, TypeOK
<1>2. CASE clock.tv_nsec = 0
  <2>1. clock' = [tv_sec |-> clock.tv_sec, tv_nsec |-> 0 + 1] /\ UNCHANGED <<ntp, missed, leaps>>
    BY <1>1, <1>2, Addition DEF Tick
  <2>2. clock'.tv_sec = clock.tv_sec /\ clock'.tv_nsec = 1
    BY <2>1
  <2>3. T' = T + 1
    BY <1>1, <1>2, <2>2 DEF T, Half
  <2> QED BY <1>2, <2>1, <2>2, <2>3
<1>3. CASE clock.tv_nsec = 1
  <2> DEFINE l == leap(ntp, clock.tv_sec + 1)
  <2>1. l \in {-1, 0, 1}
    <3>1. clock.tv_sec + 1 \in Nat
      BY <1>1
    <3> QED BY <3>1, Overflow DEF TypeOK
  <2>2. /\ clock' = [tv_sec |-> clock.tv_sec + 1 + l, tv_nsec |-> 0]
        /\ ntp' = second_overflow(ntp, clock.tv_sec + 1)
        /\ missed' = IF HrtimerBug THEN missed - l ELSE 0
        /\ leaps' = IF l = 0 THEN leaps ELSE Append(leaps, l)
    BY <1>1, <1>3 DEF Tick
  <2> HIDE DEF l
  <2>3. clock'.tv_sec = clock.tv_sec + 1 + l /\ clock'.tv_nsec = 0
    BY <2>2
  <2>4. T' = T + 1 + 2 * l
    BY <1>1, <1>3, <2>1, <2>3 DEF T, Half
  <2> QED BY <1>3, <2>1, <2>2, <2>3, <2>4 DEF l
<1> QED BY <1>1, <1>2, <1>3
\* Outside of an iteration's leap, time just passes.
NoLeap == /\ T' = T + 1 /\ clock'.tv_sec >= clock.tv_sec
          /\ leaps' = leaps /\ missed' = missed

\* A tick without a leap is half a second.
LEMMA NoLeapTick ==
  ASSUME LeapADayAssumption, NtpAssumption, Timely, TypeOK, TimerInv, Tick,
         clock.tv_nsec = 1 => leap(ntp, clock.tv_sec + 1) = 0
  PROVE  NoLeap
<1>1. clock.tv_sec \in Nat /\ missed \in Int /\ T \in Nat /\ clock.tv_nsec \in {0, 1}
  BY Numbers
<1>2. CASE clock.tv_nsec = 0
  <2>1. T' = T + 1 /\ clock'.tv_sec = clock.tv_sec /\ missed' = missed /\ leaps' = leaps
    BY <1>2, HalfSecond
  <2> QED BY <1>1, <2>1 DEF NoLeap
<1>3. CASE clock.tv_nsec = 1
  <2>1. leap(ntp, clock.tv_sec + 1) = 0
    BY <1>3
  <2>2. /\ T' = T + 1 + 2 * 0 /\ clock'.tv_sec = clock.tv_sec + 1 + 0
        /\ missed' = (IF HrtimerBug THEN missed - 0 ELSE 0) /\ leaps' = leaps
    BY <1>3, <2>1, HalfSecond
  <2>3. missed' = missed
    BY <1>1, <2>2 DEF TimerInv
  <2> QED BY <1>1, <2>2, <2>3 DEF NoLeap
<1> QED BY <1>1, <1>2, <1>3

\* Before it asks for a leap the program is far from midnight.
LEMMA TickPreparing ==
  ASSUME LeapADayAssumption, NtpAssumption, Timely, TypeOK, TimeInv, TimerInv, Tick,
         pc = "gettime" \/ Preparing
  PROVE  NoLeap
<1> SUFFICES ASSUME clock.tv_nsec = 1 PROVE leap(ntp, clock.tv_sec + 1) = 0
  BY NoLeapTick
<1> DEFINE secs == clock.tv_sec + 1
<1>1. /\ clock.tv_sec \in Nat /\ T = 2 * clock.tv_sec + clock.tv_nsec
      /\ next_leap \in Nat /\ E = 2 * next_leap /\ DAY \in Nat /\
           2 * DAY >= 17 + Spare + 2 * MaxLate
      /\ Spare \in 6 .. 20 /\ Spare >= 5 + MaxLate /\ MaxLate \in Nat /\ late <= MaxLate
      /\ late \in Nat /\ late <= 15 /\ secs \in Nat
  BY Numbers
<1>2. 2 * secs = T + 1
  BY <1>1
<1>3. next_leap % DAY = 0
  BY DEF TimeInv
<1>4. CASE pc = "gettime"
  <2>1. next_leap <= clock.tv_sec /\ T <= E + 2 * DAY - Spare - MaxLate + late
    BY <1>4 DEF TimeInv
  <2>2. next_leap - DAY < secs /\ secs + 1 < next_leap + DAY /\ secs # next_leap
        /\ secs + 1 # next_leap
    BY <1>1, <1>2, <2>1
  <2> HIDE DEF secs
  <2>3. leap(ntp, secs) # -1 /\ leap(ntp, secs) # 1
    BY <1>1, <1>3, <2>2, LeapTime DEF TypeOK
  <2> QED BY <1>1, <2>3, Overflow DEF TypeOK, secs
<1>5. CASE Preparing
  <2>1. E - 2 * DAY <= T /\ T <= E - Spare + late
    BY <1>5 DEF TimeInv
  <2>2. next_leap - DAY < secs /\ secs + 1 < next_leap + DAY /\ secs # next_leap
        /\ secs + 1 # next_leap
    BY <1>1, <1>2, <2>1
  <2> HIDE DEF secs
  <2>3. leap(ntp, secs) # -1 /\ leap(ntp, secs) # 1
    BY <1>1, <1>3, <2>2, LeapTime DEF TypeOK
  <2> QED BY <1>1, <2>3, Overflow DEF TypeOK, secs
<1> QED BY <1>4, <1>5

\* What an ntpd does to the status, it does before the kernel has set up the leap.
LEMMA WaitingEarly ==
  ASSUME LeapADayAssumption, NtpAssumption, Timely, TypeOK, TimeInv, LeapInv, pc \in Waiting
  PROVE  /\ Interference => leaps = <<>> /\ T <= E - 5
         /\ T <= E - 4 + late
<1>1. T \in Nat /\ E \in Nat /\ late \in Nat /\ late <= MaxLate /\ MaxLate <= 15 /\
        MaxLate \in Nat
  BY Numbers
<1>2. Elapsed <= E - 6 + late /\ Elapsed = T - Leapt
  BY DEF TimeInv, Elapsed
<1>3. Asking
  BY DEF Asking
<1>4. leaps = <<>> \/ (leaps = <<-1>> /\ E - 2 <= T) \/ (leaps = <<1>> /\ E <= T)
  BY <1>1, <1>3 DEF LeapInv, KernelInv
<1>5. CASE leaps = <<>>
  BY <1>1, <1>2, <1>5, Leaps DEF Timely
<1>6. CASE leaps = <<-1>> /\ E - 2 <= T
  BY <1>1, <1>2, <1>6, Leaps DEF Timely
<1>7. CASE leaps = <<1>> /\ E <= T
  BY <1>1, <1>2, <1>7, Leaps DEF Timely
<1> QED BY <1>4, <1>5, <1>6, <1>7

LEMMA OpenEarly ==
  ASSUME LeapADayAssumption, NtpAssumption, Timely, TypeOK, TimeInv, LeapInv, pc \in Open,
         Interference
  PROVE  leaps = <<>> /\ T <= E - 5
<1>1. /\ T \in Nat /\ E \in Nat /\ late \in Nat /\ late <= MaxLate /\ MaxLate \in Nat
      /\ Spare \in 6 .. 20 /\ Spare >= 5 + MaxLate
  BY Numbers
<1>2. CASE pc \in Waiting
  BY <1>2, WaitingEarly
<1>3. CASE pc \in {"create", "arm"}
  <2>1. Preparing
    BY <1>3 DEF Preparing, Setting
  <2>2. leaps = <<>> /\ T <= E - Spare + late
    BY <2>1 DEF LeapInv, TimeInv
  <2> QED BY <1>1, <2>2
<1> QED BY <1>2, <1>3 DEF Open

\* A sleeper that waits for the last three seconds has not seen them.
LEMMA AsleepEarly ==
  ASSUME LeapADayAssumption, NtpAssumption, Timely, TypeOK, TimeInv, LeapInv, TimerInv,
         pc = "presleep", Asleep
  PROVE  leaps = <<>> /\ T <= E - 7
<1>1. T \in Nat /\ E \in Nat /\ missed \in Int /\ E = 2 * next_leap /\ next_leap \in Nat
  BY Numbers
<1>2. target = [tv_sec |-> next_leap - 3, tv_nsec |-> 0]
  BY DEF TimeInv
<1>3. target.tv_sec = next_leap - 3 /\ target.tv_nsec = 0
  BY <1>2
<1>4. Half(target) = E - 6
  BY <1>1, <1>3 DEF Half
<1>5. ~Expired(target)
  BY DEF Asleep
<1>6. T + 2 * missed < E - 6
  BY <1>1, <1>4, <1>5, Order DEF TypeOK
<1>7. Asking
  BY DEF Asking, Waiting
<1>8. 2 * missed = 0 \/ 2 * missed + Leapt = 0
  BY <1>7 DEF TimerInv
<1>9. leaps = <<>> \/ (leaps = <<-1>> /\ E - 2 <= T) \/ (leaps = <<1>> /\ E <= T)
  BY <1>1, <1>7 DEF LeapInv, KernelInv
<1> QED BY <1>1, <1>6, <1>8, <1>9, Leaps
\* The clock leaps: back before the last second's end, or over the last second.
LeapsBack == /\ Asked /\ leaps = <<>> /\ T = E - 1
             /\ T' = E - 2 /\ leaps' = <<-1>> /\ clock'.tv_sec >= clock.tv_sec
             /\ missed' = IF HrtimerBug THEN 1 ELSE 0
LeapsOver == /\ ~Asked /\ leaps = <<>> /\ T = E - 3
             /\ T' = E /\ leaps' = <<1>> /\ clock'.tv_sec >= clock.tv_sec
             /\ missed' = IF HrtimerBug THEN -1 ELSE 0

\* A tick, for the kernel: the second and the state of the leap.
LEMMA TickKernel ==
  ASSUME LeapADayAssumption, NtpAssumption, Timely, TypeOK, TimeInv, LeapInv, TimerInv,
         Asking, Tick
  PROVE  (NoLeap \/ LeapsBack \/ LeapsOver) /\ KernelInv'
<1>1. /\ clock.tv_sec \in Nat /\ T \in Nat /\ T = 2 * clock.tv_sec + clock.tv_nsec
      /\ next_leap \in Nat /\ E \in Nat /\ E = 2 * next_leap /\ DAY \in Nat /\
           2 * DAY >= 17 + Spare + 2 * MaxLate
      /\ Spare \in 6 .. 20 /\ Spare >= 5 + MaxLate /\ MaxLate \in Nat /\ late <= MaxLate
      /\ late \in Nat /\ late <= MaxLate /\ MaxLate \in Nat
      /\ clock.tv_nsec \in {0, 1} /\ missed \in Int
  BY Numbers
<1>2. pc' = pc /\ E' = E /\ Asked' = Asked /\ Flag' = Flag
  BY DEF Tick, E, Asked, Flag, Ending
<1>3. KernelInv
  BY DEF LeapInv
<1>4. next_leap % DAY = 0 /\ E - 2 * DAY <= T
  BY DEF TimeInv
<1>5. /\ "INS" \in ntp.status => Flag = "INS"
      /\ "DEL" \in ntp.status => Flag = "DEL"
      /\ Flag \notin ntp.status => Interference /\ pc \in Open
  BY DEF LeapInv
<1>6. Flag = (IF Asked THEN "INS" ELSE "DEL")
  BY DEF Flag
<1>7. Flag \notin ntp.status => leaps = <<>> /\ T <= E - 6
  <2> SUFFICES ASSUME Flag \notin ntp.status PROVE leaps = <<>> /\ T <= E - 6
    OBVIOUS
  <2> SUFFICES ASSUME pc \notin {"create", "arm"} PROVE leaps = <<>> /\ T <= E - 6
    <3>1. CASE pc \in {"create", "arm"}
      <4>1. Preparing /\ ~Asleep /\ pc # "exit"
        BY <3>1 DEF Preparing, Setting, Asleep
      <4>2. leaps = <<>> /\ T <= E - Spare + late
        BY <4>1 DEF LeapInv, TimeInv
      <4>3. late < MaxLate
        BY <4>1 DEF Tick
      <4> QED BY <1>1, <4>2, <4>3
    <3> QED BY <3>1
  <2>1. leaps = <<>> /\ Elapsed <= E - 6 + late /\ MaxLate <= 1 /\ pc \in Waiting
    BY <1>5, WaitingEarly DEF TimeInv, Timely, Open
  <2>2. CASE Asleep
    <3>1. pc = "presleep"
      BY <2>1, <2>2 DEF Asleep, Waiting
    <3> QED BY <1>1, <2>1, <2>2, <3>1, AsleepEarly
  <2>3. CASE late < MaxLate
    BY <1>1, <2>1, <2>3, Leaps DEF Elapsed
  <2> QED BY <2>1, <2>2, <2>3 DEF Tick, Waiting
<1>8. CASE clock.tv_nsec = 0
  <2>1. NoLeap /\ T' = T + 1 /\ ntp' = ntp /\ leaps' = leaps
    BY <1>8, HalfSecond, NoLeapTick DEF NoLeap
  <2>2. T # E - 1 /\ T # E - 3 /\ T # E - 5
    BY <1>1, <1>8
  <2>3. KernelInv'
    <3>1. CASE leaps = <<>>
      BY <1>1, <1>2, <1>3, <2>1, <2>2, <3>1, Leaps DEF KernelInv
    <3>2. CASE leaps # <<>>
      BY <1>1, <1>2, <1>3, <2>1, <2>2, <3>2, Leaps DEF KernelInv
    <3> QED BY <3>1, <3>2
  <2> QED BY <2>1, <2>3
<1>9. CASE clock.tv_nsec = 1
  <2> DEFINE secs == clock.tv_sec + 1
             l    == leap(ntp, secs)
  <2>1. secs \in Nat /\ 2 * secs = T + 1
    BY <1>1, <1>9
  <2>2. /\ l \in {-1, 0, 1}
        /\ T' = T + 1 + 2 * l /\ clock'.tv_sec = clock.tv_sec + 1 + l
        /\ missed' = IF HrtimerBug THEN missed - l ELSE 0
        /\ leaps' = IF l = 0 THEN leaps ELSE Append(leaps, l)
    BY <1>9, HalfSecond
  <2>3. ntp'.state = next_state(ntp, secs)
    <3>1. ntp' = second_overflow(ntp, secs)
      BY <1>9, HalfSecond
    <3> QED
      BY <2>1, <3>1, Overflow DEF TypeOK
  <2>4. /\ l = -1 <=> ntp.state = "INS" /\ ntp'.state = "OOP"
        /\ l = 1 <=> ntp.state = "DEL" /\ ntp'.state = "WAIT"
    BY <2>1, <2>3, Overflow DEF TypeOK
  <2>5. l = 0 => NoLeap
    BY NoLeapTick
  <2>6. CASE leaps # <<>>
    <3>1. Flag \in ntp.status /\ leaps = <<IF Asked THEN -1 ELSE 1>>
      BY <1>3, <1>7, <2>6 DEF KernelInv
    <3>2. \/ Asked /\ ntp.state = "OOP" /\ E - 2 <= T /\ T <= E - 1
          \/ ntp.state = "WAIT" /\ E <= T
      BY <1>3, <2>6 DEF KernelInv
    <3>3. ntp'.state = "WAIT" /\ l = 0
      BY <1>6, <2>2, <2>3, <2>4, <3>1, <3>2 DEF next_state
    <3>4. T # E - 2
      BY <1>1, <1>9
    <3>5. T' = T + 1 /\ E <= T + 1 /\ leaps' = leaps
      BY <1>1, <2>2, <3>2, <3>3, <3>4
    <3> QED BY <1>1, <1>2, <2>5, <3>1, <3>3, <3>5 DEF KernelInv
  <2>7. CASE leaps = <<>>
    <3>1. /\ ntp.state \in {"OK", Flag} /\ (T >= E - 4 => ntp.state = Flag)
          /\ T <= IF Asked THEN E - 1 ELSE E - 3
      BY <1>3, <2>7, Leaps DEF KernelInv
    <3>2. /\ next_leap - DAY < secs /\ secs + 1 < next_leap + DAY
          /\ secs = next_leap <=> T = E - 1
          /\ secs + 1 = next_leap <=> T = E - 3
      BY <1>1, <1>4, <1>9, <2>1, <3>1
    <3>3. missed = 0
      BY <1>1, <2>7, Leaps DEF TimerInv
    <3> HIDE DEF secs
    <3>4. /\ l = -1 => ntp.state = "INS" /\ secs = next_leap
          /\ l = 1 => ntp.state = "DEL" /\ secs + 1 = next_leap
          /\ ntp.state = "INS" /\ "INS" \in ntp.status =>
               next_state(ntp, secs) = IF secs = next_leap THEN "OOP" ELSE "INS"
          /\ ntp.state = "DEL" /\ "DEL" \in ntp.status =>
               next_state(ntp, secs) = IF secs + 1 = next_leap THEN "WAIT" ELSE "DEL"
      BY <1>1, <1>4, <2>1, <3>2, LeapTime DEF TypeOK
    <3> HIDE DEF l
    <3>5. CASE Flag \notin ntp.status
      <4>1. "INS" \notin ntp.status /\ "DEL" \notin ntp.status
        BY <1>5, <3>5
      <4>2. T <= E - 6 /\ l = 0
        BY <1>1, <1>7, <2>2, <3>2, <3>4, <3>5
      <4>3. T' = T + 1 /\ T + 1 <= E - 5 /\ leaps' = leaps
        BY <1>1, <2>2, <4>2
      <4>4. ntp'.state \in {"OK", Flag}
        <5>1. secs # next_leap /\ secs + 1 # next_leap
          BY <1>1, <3>2, <4>2
        <5>2. ~(ntp.state = "INS" /\ ntp'.state = "OOP") /\ ~(ntp.state = "DEL" /\
                ntp'.state = "WAIT")
          BY <2>4, <4>2
        <5> QED BY <1>6, <2>3, <3>1, <4>1, <5>2 DEF next_state
      <4>5. T' < E' - 4 /\ T' <= E' - 3 /\ T' <= E' - 1
        BY <1>1, <1>2, <4>3
      <4> QED BY <1>1, <1>2, <2>5, <2>7, <4>2, <4>3, <4>4, <4>5 DEF KernelInv
    <3>6. CASE Flag \in ntp.status /\ ntp.state = "OK"
      <4>1. l = 0 /\ T <= E - 5
        BY <1>1, <1>6, <2>2, <3>1, <3>4, <3>6
      <4>2. ntp'.state = Flag
        BY <1>5, <1>6, <2>3, <3>6 DEF next_state
      <4>3. T' = T + 1 /\ leaps' = leaps
        BY <1>1, <2>2, <4>1
      <4>4. T + 1 <= E - 3 /\ T + 1 <= E - 1
        BY <1>1, <4>1
      <4> QED BY <1>1, <1>2, <2>5, <2>7, <4>1, <4>2, <4>3, <4>4 DEF KernelInv
    <3>7. CASE Flag \in ntp.status /\ ntp.state = Flag /\ Asked
      <4>0. Flag = "INS" /\ T <= E - 1 /\ l # 1
        BY <1>6, <3>1, <3>4, <3>7
      <4>1. CASE T = E - 1
        <5>1. ntp'.state = "OOP" /\ l = -1
          BY <2>3, <2>4, <3>2, <3>4, <3>7, <4>0, <4>1
        <5>2. T' = E - 2 /\ leaps' = <<-1>> /\ clock'.tv_sec = clock.tv_sec
          BY <1>1, <2>2, <2>7, <4>1, <5>1
        <5>3. LeapsBack
          BY <1>1, <2>2, <2>7, <3>3, <3>7, <4>1, <5>1, <5>2 DEF LeapsBack
        <5>4. E - 2 <= E - 2 /\ E - 2 <= E - 1
          BY <1>1
        <5> QED BY <1>1, <1>2, <3>7, <5>1, <5>2, <5>3, <5>4 DEF KernelInv
      <4>2. CASE T # E - 1
        <5>1. ntp'.state = "INS" /\ l = 0
          BY <2>2, <2>3, <2>4, <3>2, <3>4, <3>7, <4>0, <4>2
        <5>2. T' = T + 1 /\ leaps' = leaps /\ T + 1 <= E - 1
          BY <1>1, <2>2, <4>0, <4>2, <5>1
        <5> QED BY <1>1, <1>2, <2>5, <2>7, <3>7, <4>0, <5>1, <5>2 DEF KernelInv
      <4> QED BY <4>1, <4>2
    <3>8. CASE Flag \in ntp.status /\ ntp.state = Flag /\ ~Asked
      <4>0. Flag = "DEL" /\ T <= E - 3 /\ l # -1
        BY <1>6, <3>1, <3>4, <3>8
      <4>1. CASE T = E - 3
        <5>1. ntp'.state = "WAIT" /\ l = 1
          BY <2>3, <2>4, <3>2, <3>4, <3>8, <4>0, <4>1
        <5>2. T' = E /\ leaps' = <<1>> /\ clock'.tv_sec = clock.tv_sec + 2
          BY <1>1, <2>2, <2>7, <4>1, <5>1
        <5>3. LeapsOver
          BY <1>1, <2>2, <2>7, <3>3, <3>8, <4>1, <5>1, <5>2 DEF LeapsOver
        <5> QED BY <1>1, <1>2, <3>8, <5>1, <5>2, <5>3 DEF KernelInv
      <4>2. CASE T # E - 3
        <5>1. ntp'.state = "DEL" /\ l = 0
          BY <2>2, <2>3, <2>4, <3>2, <3>4, <3>8, <4>0, <4>2
        <5>2. T' = T + 1 /\ leaps' = leaps /\ T + 1 <= E - 3
          BY <1>1, <1>9, <2>2, <4>0, <4>2, <5>1
        <5> QED BY <1>1, <1>2, <2>5, <2>7, <3>8, <4>0, <5>1, <5>2 DEF KernelInv
      <4> QED BY <4>1, <4>2
    <3> QED BY <3>1, <3>5, <3>6, <3>7, <3>8
  <2> QED BY <2>6, <2>7
<1> QED BY <1>1, <1>8, <1>9
\* A half second of an iteration, on the clock and without the leap.
LEMMA TickTime ==
  ASSUME LeapADayAssumption, NtpAssumption, Timely, TypeOK, TimeInv, LeapInv, TimerInv,
         Asking, Tick
  PROVE  /\ Elapsed \in Int /\ Elapsed' = Elapsed + 1 /\ clock'.tv_sec >= clock.tv_sec
         /\ NoLeap \/ LeapsBack \/ LeapsOver
         /\ leaps # <<>> => NoLeap
<1>1. T \in Nat /\ E \in Nat
  BY Numbers
<1>2. NoLeap \/ LeapsBack \/ LeapsOver
  BY TickKernel
<1>3. Leapt \in Int
  BY Leaps DEF LeapInv, KernelInv
<1>4. CASE NoLeap
  <2>1. Leapt' = Leapt /\ T' = T + 1
    BY <1>4 DEF NoLeap, Leapt
  <2> QED BY <1>1, <1>3, <1>4, <2>1 DEF Elapsed, NoLeap
<1>5. CASE LeapsBack
  <2>1. Leapt' = -2 /\ Leapt = 0 /\ T = E - 1 /\ T' = E - 2 /\ leaps = <<>>
    BY <1>5 DEF LeapsBack, Leapt
  <2> QED BY <1>1, <1>2, <1>5, <2>1 DEF Elapsed, LeapsBack
<1>6. CASE LeapsOver
  <2>1. Leapt' = 2 /\ Leapt = 0 /\ T = E - 3 /\ T' = E /\ leaps = <<>>
    BY <1>6 DEF LeapsOver, Leapt
  <2> QED BY <1>1, <1>2, <1>6, <2>1 DEF Elapsed, LeapsOver
<1> QED BY <1>2, <1>4, <1>5, <1>6

\* A tick keeps the program on time ...
LEMMA TickTimeInv ==
  ASSUME LeapADayAssumption, NtpAssumption, Timely, TypeOK, ClearInv, IterationInv, Tick
  PROVE  TimeInv'
<1> USE DEF Setting, Waiting, Open, Watching, Ending, Clearing
<1>1. /\ clock.tv_sec \in Nat /\ T \in Nat /\ next_leap \in Nat /\ E \in Nat
      /\ E = 2 * next_leap /\ DAY \in Nat /\ 2 * DAY >= 17 + Spare + 2 * MaxLate
      /\ Spare \in 6 .. 20 /\ Spare >= 5 + MaxLate /\ MaxLate \in Nat /\ late <= MaxLate /\
           missed \in Int /\ now \in Nat
      /\ late \in Nat /\ late <= MaxLate /\ MaxLate \in Nat /\ MaxLate <= 15
  BY Numbers
<1>2. /\ UNCHANGED <<pc, next_leap, now, target, then, insert>> /\ E' = E
      /\ Preparing' = Preparing /\ Asking' = Asking
  BY DEF Tick, E, Preparing, Asking
<1>3. pc # "exit" => \/ late' = late + 1
                     \/ late' = late /\ Asleep /\ pc \in {"presleep", "hrsleep", "nap"}
  BY DEF Tick, Asleep
<1>4. TimeInv /\ LeapInv /\ TimerInv
  BY DEF IterationInv
<1>5. CASE pc = "gettime"
  <2>1. NoLeap /\ late' = late + 1
    BY <1>3, <1>4, <1>5, TickPreparing
  <2>2. T' = T + 1 /\ clock'.tv_sec >= clock.tv_sec
    BY <2>1 DEF NoLeap
  <2>3. ~(Preparing \/ Asking)
    BY <1>5 DEF Preparing, Asking
  <2>4. next_leap <= clock.tv_sec /\ T <= E + 2 * DAY - Spare - MaxLate + late /\
          next_leap % DAY = 0
    BY <1>4, <1>5 DEF TimeInv
  <2>5. next_leap <= clock'.tv_sec
    <3> DEFINE s == clock'.tv_sec
    <3>1. s \in Nat
      BY TickClear, Addition, Numbers, <2>2, HalfSecond DEF TypeOK
    <3> QED BY <1>1, <2>2, <2>4, <3>1
  <2>6. T + 1 <= E + 2 * DAY - Spare - MaxLate + (late + 1)
    BY <1>1, <2>4
  <2> QED BY <1>2, <1>5, <2>1, <2>2, <2>3, <2>4, <2>5, <2>6 DEF TimeInv
<1>6. CASE Preparing
  <2>1. NoLeap /\ late' = late + 1
    BY <1>3, <1>4, <1>6, TickPreparing DEF Preparing
  <2>2. T' = T + 1
    BY <2>1 DEF NoLeap
  <2>3. E - 2 * DAY <= T /\ T <= E - Spare + late /\ next_leap % DAY = 0
    BY <1>4, <1>6 DEF TimeInv
  <2>4. E - 2 * DAY <= T + 1 /\ T + 1 <= E - Spare + (late + 1)
    BY <1>1, <2>3
  <2> QED BY <1>2, <1>6, <2>1, <2>2, <2>3, <2>4 DEF TimeInv, Preparing
<1>7. CASE Asking /\ ~Preparing
  <2>1. /\ Elapsed \in Int /\ Elapsed' = Elapsed + 1 /\ clock'.tv_sec >= clock.tv_sec
        /\ NoLeap \/ LeapsBack \/ LeapsOver
        /\ leaps # <<>> => NoLeap
    BY <1>4, <1>7, TickTime
  <2>2. E - 2 * DAY <= T /\ next_leap % DAY = 0
    BY <1>4, <1>7 DEF TimeInv
  <2>3. E - 2 * DAY <= T'
    <3>1. CASE T' = T + 1
      <4>1. E - 2 * DAY <= T + 1
        BY <1>1, <2>2
      <4> QED BY <1>2, <3>1, <4>1
    <3>2. CASE T' = E - 2 \/ T' = E
      <4>1. E - 2 * DAY <= E - 2 /\ E - 2 * DAY <= E
        BY <1>1
      <4> QED BY <1>2, <3>2, <4>1
    <3> QED BY <2>1, <3>1, <3>2 DEF NoLeap, LeapsBack, LeapsOver
  <2>4. CASE pc \in Waiting
    <3>1. Elapsed + 1 <= E - 6 + late'
      <4>1. CASE late' = late + 1
        <5>1. Elapsed + 1 <= E - 6 + (late + 1)
          BY <1>1, <1>4, <2>1, <2>4 DEF TimeInv
        <5> QED BY <4>1, <5>1
      <4>2. CASE late' = late /\ Asleep /\ pc = "presleep"
        <5>1. leaps = <<>> /\ T <= E - 7
          BY <1>4, <4>2, AsleepEarly
        <5>2. Elapsed + 1 <= E - 6 + late
          BY <1>1, <5>1, Leaps DEF Elapsed
        <5> QED BY <4>2, <5>2
      <4> QED BY <1>3, <2>4, <4>1, <4>2
    <3>2. pc = "presleep" => target = [tv_sec |-> next_leap - 3, tv_nsec |-> 0]
      BY <1>4 DEF TimeInv
    <3> QED BY <1>2, <2>1, <2>2, <2>3, <2>4, <3>1, <3>2 DEF TimeInv, Preparing
  <2>5. CASE pc \in Watching
    <3>1. /\ Elapsed <= 2 * now + 4 + late
          /\ (pc = "nap" /\ ~woken => Elapsed <= 2 * now + 3 + late)
          /\ 2 * now <= E + 8 + late /\ now <= clock.tv_sec
      BY <1>4, <2>5 DEF TimeInv
    <3>2. late' \in Nat /\ late' >= late
      BY <1>1, <1>3, <2>5
    <3>3. Elapsed + 1 <= 2 * now + 4 + late' /\ 2 * now <= E + 8 + late'
      <4>1. CASE late' = late + 1
        <5>1. Elapsed + 1 <= 2 * now + 4 + (late + 1) /\ 2 * now <= E + 8 + (late + 1)
          BY <1>1, <2>1, <3>1
        <5> QED BY <4>1, <5>1
      <4>2. CASE late' = late /\ Asleep
        <5>1. Elapsed + 1 <= 2 * now + 4 + late
          BY <1>1, <2>1, <2>5, <3>1, <4>2 DEF Asleep
        <5> QED BY <3>1, <4>2, <5>1
      <4> QED BY <1>3, <2>5, <4>1, <4>2
    <3>4. ~(pc' = "nap" /\ ~woken')
      BY <1>2 DEF Tick
    <3>5. now <= clock'.tv_sec
      <4>1. clock'.tv_sec \in Nat
        BY <1>4, TickClear, Halves DEF TypeOK, Timespec
      <4> QED BY <1>1, <2>1, <3>1, <4>1
    <3> QED BY <1>2, <2>1, <2>2, <2>3, <2>5, <3>1, <3>3, <3>4, <3>5 DEF TimeInv, Preparing
  <2>6. CASE pc \in Ending
    <3>1. E + 4 <= T /\ T <= E + 17 + 2 * late
      BY <1>4, <2>6 DEF TimeInv
    <3>2. NoLeap /\ T' = T + 1 /\ leaps # <<>>
      <4>1. leaps # <<>>
        <5>1. KernelInv
          BY <1>4, <1>7 DEF LeapInv
        <5> QED BY <1>1, <3>1, <5>1, Leaps DEF KernelInv
      <4> QED BY <2>1, <4>1 DEF NoLeap
    <3>3. E + 4 <= T + 1
      BY <1>1, <3>1
    <3>4. CASE late' = late + 1
      <4>1. T + 1 <= E + 17 + 2 * (late + 1)
            /\ (pc = "hrstart" => T + 1 <= E + 14 + 2 * (late + 1))
            /\ (pc = "hrsleep" => Half(target) <= E + 15 + 2 * (late + 1) /\ ~woken)
        BY <1>1, <1>4, <3>1, <2>6, Halves DEF TimeInv, TypeOK
      <4>2. (pc = "hrsleep" => ~woken') /\ Half(target)' = Half(target)
        BY <1>2, <4>1 DEF Tick, Half
      <4> QED BY <1>2, <2>2, <2>3, <2>6, <3>2, <3>3, <3>4, <4>1, <4>2 DEF TimeInv, Preparing
    <3>5. CASE late' = late /\ Asleep /\ pc = "hrsleep"
      <4>1. Half(target) <= E + 15 + 2 * late /\ ~woken /\ ~Expired(target)
        BY <1>4, <3>5 DEF TimeInv, Asleep
      <4>2. T + 2 * missed < Half(target) /\ Half(target) \in Nat
        BY <1>1, <4>1, Order, Halves DEF TypeOK
      <4>3. 2 * missed >= -2
        BY <1>1, <1>4, <1>7, Leaps DEF TimerInv, LeapInv, KernelInv
      <4>4. T + 1 <= E + 17 + 2 * late
        BY <1>1, <4>1, <4>2, <4>3
      <4>5. ~woken' /\ Half(target)' = Half(target)
        BY <1>2, <3>5, <4>1 DEF Tick, Half
      <4> QED BY <1>2, <2>2, <2>3, <2>6, <3>2, <3>3, <3>5, <4>1, <4>4, <4>5 DEF TimeInv, Preparing
    <3> QED BY <1>3, <2>6, <3>4, <3>5
  <2>7. CASE pc \in Setting
    BY <1>7, <2>7 DEF Preparing
  <2> QED BY <1>7, <2>4, <2>5, <2>6, <2>7 DEF Asking
<1>8. CASE pc # "gettime" /\ ~Preparing /\ ~Asking
  <2>1. next_leap % DAY = 0
    BY <1>4 DEF TimeInv
  <2>2. pc \notin Waiting \cup Watching \cup Ending
    BY <1>8 DEF Asking
  <2> QED BY <1>2, <1>8, <2>1, <2>2 DEF TimeInv
<1> QED BY <1>5, <1>6, <1>7, <1>8
\* ... its leap the one meant ...
LEMMA TickLeapInv ==
  ASSUME LeapADayAssumption, NtpAssumption, Timely, TypeOK, IterationInv, Tick
  PROVE  LeapInv'
<1>1. UNCHANGED <<pc, next_leap, then, insert>> /\ Preparing' = Preparing /\ Asking' = Asking
      /\ Flag' = Flag
  BY DEF Tick, Preparing, Asking, Flag, Asked
<1>2. TimeInv /\ LeapInv /\ TimerInv
  BY DEF IterationInv
<1>3. \A f \in {"INS", "DEL", "PLL"} : f \in ntp'.status <=> f \in ntp.status
  <2>1. CASE ntp' = ntp
    BY <2>1
  <2>2. CASE ntp' = second_overflow(ntp, clock.tv_sec + 1)
    <3>1. clock.tv_sec + 1 \in Nat
      BY Numbers
    <3> QED BY <2>2, <3>1, Overflow DEF TypeOK
  <2> QED BY <2>1, <2>2, HalfSecond
<1>7. ASSUME Asking PROVE LeapInv' \/ ~(Preparing => leaps' = <<>>)
  <2>1. KernelInv'
    BY <1>2, <1>7, TickKernel
  <2>2. /\ "INS" \in ntp.status => Flag = "INS"
        /\ "DEL" \in ntp.status => Flag = "DEL"
        /\ Flag \notin ntp.status \/ "PLL" \in ntp.status => Interference /\ pc \in Open
    BY <1>2, <1>7 DEF LeapInv
  <2>3. Flag \in ntp'.status <=> Flag \in ntp.status
    BY <1>3 DEF Flag
  <2>4. pc' \in Open <=> pc \in Open
    BY <1>1
  <2> QED BY <1>1, <1>3, <2>1, <2>2, <2>3, <2>4 DEF LeapInv
<1>4. CASE Preparing
  <2>1. leaps' = <<>>
    BY <1>2, <1>4, TickPreparing DEF NoLeap, LeapInv
  <2>2. CASE Asking
    BY <1>7, <2>1, <2>2
  <2>3. CASE ~Asking
    BY <1>1, <2>1, <2>3 DEF LeapInv
  <2> QED BY <2>2, <2>3
<1>5. CASE ~Preparing /\ Asking
  BY <1>5, <1>7
<1>6. CASE ~Preparing /\ ~Asking
  BY <1>1, <1>6 DEF LeapInv
<1> QED BY <1>4, <1>5, <1>6

\* ... and the alarm at the leap.
LEMMA TickTimerInv ==
  ASSUME LeapADayAssumption, NtpAssumption, Timely, TypeOK, ClearInv, IterationInv, Tick
  PROVE  TimerInv'
<1> USE DEF Setting, Waiting, Open, Watching, Ending, Clearing
<1>1. /\ T \in Nat /\ E \in Nat /\ E = 2 * next_leap /\ missed \in Int /\ late \in Nat
      /\ ~(pc # "exit" /\ armed # 0 /\ 2 * armed <= T + 2 * missed)
  BY Numbers DEF Tick
<1>2. /\ UNCHANGED <<pc, next_leap, armed, pending, interrupted, then>> /\ E' = E
      /\ Preparing' = Preparing /\ Asking' = Asking
  BY DEF Tick, E, Preparing, Asking
<1>3. TimeInv /\ LeapInv /\ TimerInv
  BY DEF IterationInv
<1>4. pending /\ pc # "exit" => late' = late + 1
  BY DEF Tick, Asleep
<1>5. CASE pc = "gettime" \/ Preparing
  <2>1. T' = T + 1 /\ leaps' = leaps /\ missed' = missed /\ Leapt' = Leapt
    BY <1>3, <1>5, TickPreparing DEF NoLeap, Leapt
  <2>2. pc \notin Waiting \cup Watching /\ pc # "exit"
    BY <1>5 DEF Preparing
  <2> QED BY <1>2, <1>3, <2>1, <2>2 DEF TimerInv
<1>6. CASE Asking /\ ~Preparing
  <2>1. NoLeap \/ LeapsBack \/ LeapsOver
    BY <1>3, <1>6, TickKernel
  <2>2. 2 * missed = 0 \/ 2 * missed + Leapt = 0
    BY <1>3, <1>6 DEF TimerInv
  <2>3. pc # "exit"
    BY <1>6 DEF Asking
  <2>4. armed # 0 /\ ~interrupted =>
          pc \in Waiting \cup Watching /\ armed = next_leap /\ T + 2 * missed < E
    BY <1>1, <1>3, <2>3 DEF TimerInv
  <2>5. pending /\ ~interrupted =>
          /\ pc \in Waiting \cup Watching /\ E <= T + 2 * missed /\ T + 2 * missed <= E + late
          /\ late' = late + 1
    BY <1>1, <1>3, <1>4, <2>3 DEF TimerInv
  <2>6. CASE NoLeap
    <3>1. T' = T + 1 /\ missed' = missed /\ Leapt' = Leapt
      BY <2>6 DEF NoLeap, Leapt
    <3>2. armed # 0 /\ ~interrupted => T + 1 + 2 * missed <= E
      BY <1>1, <2>4
    <3>3. pending /\ ~interrupted =>
            E <= T + 1 + 2 * missed /\ T + 1 + 2 * missed <= E + (late + 1)
      BY <1>1, <2>5
    <3> QED BY <1>2, <1>3, <2>2, <2>4, <2>5, <3>1, <3>2, <3>3 DEF TimerInv
  <2>7. CASE LeapsBack
    <3>1. /\ leaps = <<>> /\ T = E - 1 /\ T' = E - 2 /\ Leapt' = -2
          /\ missed' = IF HrtimerBug THEN 1 ELSE 0
      BY <2>7 DEF LeapsBack, Leapt
    <3>2. missed = 0
      BY <1>1, <2>2, <3>1, Leaps
    <3>3. ~(pending /\ ~interrupted)
      BY <1>1, <2>5, <3>1, <3>2
    <3>4. E - 2 + 2 * missed' <= E /\ (2 * missed' = 0 \/ 2 * missed' = 2)
      BY <1>1, <3>1
    <3>5. 2 * missed' = 0 \/ 2 * missed' + Leapt' = 0
      BY <3>1, <3>4
    <3> QED BY <1>2, <2>4, <3>1, <3>3, <3>4, <3>5 DEF TimerInv
  <2>8. CASE LeapsOver
    <3>1. /\ leaps = <<>> /\ T = E - 3 /\ T' = E /\ Leapt' = 2
          /\ missed' = IF HrtimerBug THEN -1 ELSE 0
      BY <2>8 DEF LeapsOver, Leapt
    <3>2. missed = 0
      BY <1>1, <2>2, <3>1, Leaps
    <3>3. ~(pending /\ ~interrupted)
      BY <1>1, <2>5, <3>1, <3>2
    <3>4. E + 2 * missed' <= E /\ (2 * missed' = 0 \/ 2 * missed' = -2)
      BY <1>1, <3>1
    <3>5. 2 * missed' = 0 \/ 2 * missed' + Leapt' = 0
      BY <3>1, <3>4
    <3> QED BY <1>2, <2>4, <3>1, <3>3, <3>4, <3>5 DEF TimerInv
  <2> QED BY <2>1, <2>6, <2>7, <2>8
<1>7. CASE pc # "gettime" /\ ~Preparing /\ ~Asking
  <2>1. ~HrtimerBug => missed' = 0
    BY <1>3 DEF Tick, TimerInv
  <2>2. pc \notin Waiting \cup Watching
    BY <1>7 DEF Asking
  <2> QED BY <1>2, <1>3, <1>7, <2>1, <2>2 DEF TimerInv
<1> QED BY <1>5, <1>6, <1>7
\* The first iteration.
LEMMA InitIteration ==
  ASSUME LeapADayAssumption, NtpAssumption, Timely, Init
  PROVE  IterationInv
<1> USE DEF Setting, Waiting, Open, Watching, Ending, Clearing
<1>1. PICK s \in Starts : clock = [tv_sec |-> s, tv_nsec |-> 0]
  BY DEF Init
<1>2. clock.tv_sec = s /\ clock.tv_nsec = 0 /\ s \in Nat /\ DAY \in Nat \ {0}
      /\ 2 * s + Spare + MaxLate <= 2 * DAY /\ MaxLate \in Nat
  BY <1>1 DEF Timely, LeapADayAssumption, NtpAssumption
<1>3. pc = "gettime" /\ next_leap = 0 /\ late = 0 /\ missed = 0 /\ armed = 0 /\ ~pending
  BY DEF Init
<1>4. T <= E + 2 * DAY - Spare - MaxLate + late /\ next_leap <= clock.tv_sec /\
        next_leap % DAY = 0
  BY <1>2, <1>3 DEF T, E, Half, Spare
<1>5. ~Preparing /\ ~Asking
  BY <1>3 DEF Preparing, Asking
<1> QED BY <1>3, <1>4, <1>5 DEF IterationInv, TimeInv, LeapInv, TimerInv

\* Steps of the signals and of an ntpd.
LEMMA SignalIteration ==
  ASSUME LeapADayAssumption, NtpAssumption, Timely, TypeOK, ClearInv, IterationInv,
         Expire \/ Interfere \/ sigalarm \/ handler
  PROVE  IterationInv'
<1> USE DEF Setting, Waiting, Open, Watching, Ending, Clearing
<1>1. /\ T \in Nat /\ E \in Nat /\ E = 2 * next_leap /\ missed \in Int /\ late \in Nat
      /\ Due <=> pc # "exit" /\ armed # 0 /\ 2 * armed <= T + 2 * missed
  BY Numbers
<1>2. TimeInv /\ LeapInv /\ TimerInv
  BY DEF IterationInv
<1>4. CASE Expire
  <2>1. /\ UNCHANGED <<ntp, clock, missed, leaps, pc, localVars>> /\ armed' = 0 /\ Due
        /\ T' = T /\ E' = E /\ Leapt' = Leapt /\ Elapsed' = Elapsed /\ Asked' = Asked
    BY <1>4 DEF Expire, T, E, Leapt, Elapsed, Half, Asked, localVars
  <2>2. Preparing' = Preparing /\ Asking' = Asking /\ Flag' = Flag /\ KernelInv' = KernelInv
    BY <2>1 DEF Preparing, Asking, Flag, KernelInv, localVars
  <2>3. TimeInv' /\ LeapInv'
    BY <1>2, <2>1, <2>2 DEF TimeInv, LeapInv, localVars, Half
  <2>4. ~interrupted => pc \in Waiting \cup Watching /\ T + 2 * missed >= E
                        /\ T + 2 * missed <= E + late
    BY <1>1, <1>2, <2>1 DEF TimerInv
  <2> QED BY <1>2, <2>1, <2>2, <2>3, <2>4 DEF IterationInv, TimerInv, localVars
<1>5. CASE Interfere
  <2>1. PICK st \in {{}, {"PLL"}} : ntp' = adj_status(ntp, st)
    BY <1>5 DEF Interfere
  <2>2. ntp'.status = st /\ ntp'.state \in {"OK", ntp.state}
    BY <2>1, Calls DEF TypeOK, Flags
  <2>3. /\ UNCHANGED <<clock, missed, armed, pending, leaps, pc, localVars>>
        /\ Interference /\ pc \in {"create", "arm", "presleep"}
        /\ T' = T /\ E' = E /\ Leapt' = Leapt /\ Elapsed' = Elapsed /\ Asked' = Asked
    BY <1>5 DEF Interfere, T, E, Leapt, Elapsed, Half, Asked, localVars, sigVars
  <2>4. Preparing' = Preparing /\ Asking' = Asking /\ Flag' = Flag /\ Asking
    BY <2>3 DEF Preparing, Asking, Flag, localVars
  <2>5. leaps = <<>> /\ T <= E - 5
    BY <1>2, <2>3, OpenEarly DEF Open
  <2>6. KernelInv'
    <3>1. ntp.state \in {"OK", Flag}
      BY <1>2, <2>4, <2>5, Leaps DEF LeapInv, KernelInv
    <3>2. T < E - 4 /\ T <= E - 1 /\ T <= E - 3
      BY <1>1, <2>5
    <3> QED BY <1>1, <2>2, <2>3, <2>4, <2>5, <3>1, <3>2 DEF KernelInv
  <2>7. LeapInv'
    BY <1>2, <2>2, <2>3, <2>4, <2>6 DEF LeapInv
  <2>8. TimeInv' /\ TimerInv'
    BY <1>2, <2>3, <2>4 DEF TimeInv, TimerInv, localVars, Half
  <2> QED BY <2>7, <2>8 DEF IterationInv
<1>6. CASE sigalarm
  <2>1. /\ UNCHANGED <<clock, ntp, missed, armed, leaps, pc, next_leap, target, now, then,
                       interrupted, late, insert>>
        /\ pending /\ pending' = FALSE /\ woken' = TRUE
        /\ T' = T /\ E' = E /\ Leapt' = Leapt /\ Elapsed' = Elapsed /\ Asked' = Asked
    BY <1>6 DEF sigalarm, T, E, Leapt, Elapsed, Half, Asked
  <2>2. Preparing' = Preparing /\ Asking' = Asking /\ Flag' = Flag /\ KernelInv' = KernelInv
    BY <2>1 DEF Preparing, Asking, Flag, KernelInv
  <2>3. pc # "hrsleep"
    BY <1>2, <2>1 DEF TimerInv, ClearInv
  <2>4. TimeInv' /\ LeapInv'
    BY <1>2, <2>1, <2>2, <2>3 DEF TimeInv, LeapInv
  <2> QED BY <1>2, <2>1, <2>2, <2>4 DEF IterationInv, TimerInv
<1>7. CASE handler
  <2>1. pc' = "clear1" /\ then' = "exit" /\ interrupted' /\ UNCHANGED <<missed, next_leap>>
    BY <1>7 DEF handler, kernelVars
  <2>2. ~Preparing' /\ ~Asking'
    BY <2>1 DEF Preparing, Asking
  <2> QED BY <1>2, <2>1, <2>2 DEF IterationInv, TimeInv, LeapInv, TimerInv
<1> QED BY <1>4, <1>5, <1>6, <1>7

\* The steps of main up to the sleep, as far as they do not change the clock.
LEMMA PreparingIteration ==
  ASSUME LeapADayAssumption, NtpAssumption, Timely, TypeOK, ClearInv, IterationInv,
         GetTime \/ SetTime \/ clear_time_state \/ Validate \/ CreateTimer \/ ArmTimer
  PROVE  IterationInv'
<1> USE DEF Setting, Waiting, Open, Watching, Ending, Clearing, At
<1>1. /\ clock.tv_sec \in Nat /\ T \in Nat /\ T = 2 * clock.tv_sec + clock.tv_nsec
      /\ clock.tv_nsec \in {0, 1} /\ next_leap \in Nat /\ E \in Nat
      /\ E = 2 * next_leap /\ DAY \in Nat /\ 2 * DAY >= 17 + Spare + 2 * MaxLate
      /\ Spare \in 6 .. 20 /\ Spare >= 5 + MaxLate /\ MaxLate \in Nat /\ late <= MaxLate
      /\ missed \in Int /\ late \in Nat
      /\ late <= 15
  BY Numbers
<1>2. TimeInv /\ LeapInv /\ TimerInv
  BY DEF IterationInv
<1>3. CASE GetTime
  <2> DEFINE x == clock.tv_sec + (DAY - (clock.tv_sec % DAY))
  <2>1. /\ next_leap' = x /\ then' = "setleap" /\ late' = 0 /\ leaps' = <<>>
        /\ pc = "gettime" /\ pc' = (IF settime THEN "settime" ELSE "clear1") /\ ~pending
        /\ UNCHANGED <<clock, missed, armed, pending, interrupted>>
    BY <1>3 DEF GetTime
  <2>2. x % DAY = 0 /\ clock.tv_sec < x /\ x <= clock.tv_sec + DAY /\ x \in Nat
    <3>1. DAY \in Nat \ {0}
      BY <1>1
    <3> QED BY <1>1, <3>1, NextMidnight
  <2> HIDE DEF x
  <2>3. next_leap <= clock.tv_sec /\ T <= E + 2 * DAY - Spare - MaxLate + late /\
          next_leap % DAY = 0
    BY <1>2, <2>1 DEF TimeInv
  <2>4. x >= next_leap + DAY
    <3> SUFFICES ASSUME x < next_leap + DAY PROVE FALSE
      BY <1>1, <2>2
    <3>1. next_leap - DAY < x /\ next_leap < x
      BY <1>1, <2>2, <2>3
    <3>2. x = next_leap
      BY <1>1, <2>2, <2>3, <3>1, OneMidnight
    <3> QED BY <1>1, <2>2, <3>1, <3>2
  <2>5. 2 * x - 2 * DAY <= T /\ T <= 2 * x - Spare + 0
    BY <1>1, <2>2, <2>3, <2>4
  <2>6. T' = T /\ E' = 2 * x
    BY <2>1 DEF T, E, Half
  <2>7. TimeInv'
    BY <2>1, <2>2, <2>5, <2>6 DEF TimeInv, Preparing, Asking
  <2>8. LeapInv'
    BY <2>1 DEF LeapInv, Asking
  <2>9. ~interrupted /\ armed = 0
    BY <1>2, <2>1 DEF ClearInv, TimerInv
  <2>10. ~HrtimerBug => missed = 0
    BY <1>2 DEF TimerInv
  <2>11. pc' # "settime" => 2 * missed = 0
    BY <1>1, <2>1, <2>10 DEF Timely
  <2> QED BY <1>2, <2>1, <2>7, <2>8, <2>9, <2>10, <2>11
      DEF IterationInv, TimerInv, Preparing, Asking
<1>4. CASE SetTime
  <2>1. /\ clock' = [tv_sec |-> next_leap - 10, tv_nsec |-> 0] /\ missed' = 0
        /\ pc = "settime" /\ pc' = "clear1" /\ ~pending
        /\ UNCHANGED <<armed, pending, leaps, localVars>>
    BY <1>4 DEF SetTime
  <2>2. UNCHANGED <<next_leap, then, interrupted, late>>
    BY <2>1 DEF localVars
  <2>3. clock'.tv_sec = next_leap - 10 /\ clock'.tv_nsec = 0
    BY <2>1
  <2>4. T' = E - 20 /\ E' = E
    BY <1>1, <2>2, <2>3 DEF T, E, Half
  <2>5. E - 2 * DAY <= E - 20 /\ E - 20 <= E - Spare + late
    BY <1>1
  <2>6. Preparing /\ ~Asking /\ ~Asking'
    BY <2>1 DEF Preparing, Asking
  <2>7. TimeInv'
    BY <1>2, <2>1, <2>2, <2>4, <2>5, <2>6 DEF TimeInv
  <2>8. LeapInv'
    BY <1>2, <2>1, <2>6 DEF LeapInv
  <2>9. ~interrupted /\ armed = 0
    BY <1>2, <2>1 DEF ClearInv, TimerInv
  <2> QED BY <2>1, <2>2, <2>6, <2>7, <2>8, <2>9 DEF IterationInv, TimerInv
<1>5. CASE clear_time_state
  <2>1. /\ UNCHANGED <<clock, missed, armed, pending, leaps, localVars>> /\ ~pending
        /\ pc \in Clearing /\ pc' \in {"clear2", "clear3", then}
    BY <1>5 DEF clear_time_state, sigVars
  <2>2. UNCHANGED <<next_leap, then, interrupted, late>>
    BY <2>1 DEF localVars
  <2>3. /\ T' = T /\ E' = E /\ Leapt' = Leapt
        /\ ~Asking' /\ (Preparing' => Preparing)
    BY <2>1, <2>2 DEF T, E, Half, Leapt, Preparing, Asking, TypeOK
  <2>4. pc' \notin {"gettime", "settime"} \cup Waiting \cup Watching \cup Ending
    BY <2>1 DEF TypeOK
  <2>5. TimeInv'
    BY <1>2, <2>2, <2>3, <2>4 DEF TimeInv
  <2>6. LeapInv'
    BY <1>2, <2>1, <2>3 DEF LeapInv
  <2>7. armed # 0 => interrupted
    BY <1>2, <2>1 DEF TimerInv
  <2>8. Preparing => 2 * missed = 0 \/ 2 * missed + Leapt = 0
    BY <1>2, <2>1 DEF TimerInv
  <2> QED BY <1>2, <2>1, <2>2, <2>3, <2>5, <2>6, <2>7, <2>8 DEF IterationInv, TimerInv
<1>6. CASE Validate \/ CreateTimer
  <2>1. /\ UNCHANGED <<clock, missed, armed, pending, leaps, ntp, next_leap, then, interrupted,
                       insert, late>>
        /\ pc \in {"validate", "create"} /\ pc' \in {"create", "arm", "exit"} /\ ~pending
    BY <1>6 DEF Validate, CreateTimer, kernelVars
  <2>2. /\ T' = T /\ E' = E /\ Leapt' = Leapt /\ Asked' = Asked /\ Flag' = Flag
        /\ KernelInv' = KernelInv /\ Preparing /\ Asking
        /\ pc' = "exit" => ~Preparing' /\ ~Asking'
    BY <2>1 DEF T, E, Half, Leapt, Preparing, Asking, Asked, Flag, KernelInv
  <2>3. TimeInv'
    BY <1>2, <2>1, <2>2 DEF TimeInv
  <2>4. pc' = "exit" \/ pc' \in Open
    BY <2>1
  <2>5. LeapInv'
    BY <1>2, <2>1, <2>2, <2>4 DEF LeapInv
  <2>6. ~interrupted /\ armed = 0
    BY <1>2, <2>1 DEF ClearInv, TimerInv
  <2> QED BY <1>2, <2>1, <2>2, <2>3, <2>5, <2>6 DEF IterationInv, TimerInv
<1>7. CASE ArmTimer
  <2>1. /\ UNCHANGED <<clock, missed, pending, leaps, ntp, next_leap, then, interrupted, insert,
                       late>>
        /\ pc = "arm" /\ pc' = "presleep" /\ ~pending /\ armed' = next_leap
        /\ target' = [tv_sec |-> next_leap - 3, tv_nsec |-> 0]
    BY <1>7 DEF ArmTimer
  <2>2. /\ T' = T /\ E' = E /\ Leapt' = Leapt /\ Elapsed' = Elapsed /\ Asked' = Asked
        /\ Flag' = Flag /\ KernelInv' = KernelInv /\ Preparing /\ Asking /\ ~Preparing' /\ Asking'
    BY <2>1 DEF T, E, Half, Leapt, Elapsed, Preparing, Asking, Asked, Flag, KernelInv
  <2>3. leaps = <<>> /\ T <= E - Spare + late
    BY <1>2, <2>2 DEF LeapInv, TimeInv
  <2>4. Elapsed <= E - 6 + late
    BY <1>1, <2>3, Leaps DEF Elapsed
  <2>5. TimeInv'
    BY <1>2, <2>1, <2>2, <2>4 DEF TimeInv
  <2>6. pc \in Open /\ pc' \in Open
    BY <2>1
  <2>7. LeapInv'
    BY <1>2, <2>1, <2>2, <2>6 DEF LeapInv
  <2>8. T + 2 * missed <= E
    BY <1>1, <1>2, <2>2, <2>3, Leaps DEF TimerInv
  <2> QED BY <1>2, <2>1, <2>2, <2>5, <2>7, <2>8 DEF IterationInv, TimerInv
<1> QED BY <1>3, <1>4, <1>5, <1>6, <1>7
\* Set the flag, the first time or once more.
LEMMA SetLeapIteration ==
  ASSUME LeapADayAssumption, NtpAssumption, Timely, TypeOK, ClearInv, IterationInv, SetLeap
  PROVE  IterationInv'
<1> USE DEF Setting, Waiting, Open, Watching, Ending, Clearing, At
<1>1. /\ clock.tv_sec \in Nat /\ T \in Nat /\ T = 2 * clock.tv_sec + clock.tv_nsec
      /\ clock.tv_nsec \in {0, 1} /\ E \in Nat /\ E = 2 * next_leap /\ missed \in Int
      /\ late \in Nat /\ late <= 15
      /\ Spare \in 6 .. 20 /\ Spare >= 5 + MaxLate /\ MaxLate \in Nat /\ late <= MaxLate
  BY Numbers
<1>2. TimeInv /\ LeapInv /\ TimerInv
  BY DEF IterationInv
<1>3. /\ UNCHANGED <<clock, missed, armed, pending, leaps, next_leap, insert, then, interrupted,
                     late>>
      /\ ~pending /\ ntp' = adj_status(ntp, LeapFlag)
      /\ now' = IF pc = "again" THEN clock.tv_sec ELSE now
      /\ (pc = "setleap" /\ pc' = "validate") \/ (pc = "again" /\ pc' = "watch")
  BY DEF SetLeap, sigVars
<1>4. /\ T' = T /\ E' = E /\ Leapt' = Leapt /\ Elapsed' = Elapsed /\ Asked' = Asked
      /\ Flag' = Flag
  BY <1>3 DEF T, E, Half, Leapt, Elapsed, Asked, Flag
<1>5. LeapFlag = {Flag} /\ LeapFlag \in SUBSET Flags /\ Flag \in {"INS", "DEL"}
  BY <1>3 DEF LeapFlag, Flag, Asked, Flags
<1>6. /\ ntp'.status = {Flag}
      /\ ntp'.state = IF "PLL" \in ntp.status THEN "OK" ELSE ntp.state
  BY <1>3, <1>5, Calls DEF TypeOK
<1>7. CASE pc = "setleap"
  <2>1. Preparing /\ Preparing' /\ Asking'
    BY <1>3, <1>7 DEF Preparing, Asking
  <2>2. leaps = <<>> /\ T <= E - Spare + late /\ ntp'.state = "OK"
    BY <1>2, <1>6, <1>7, <2>1 DEF LeapInv, TimeInv, ClearInv
  <2>3. T < E - 4 /\ T <= E - 1 /\ T <= E - 3
    BY <1>1, <2>2
  <2>4. KernelInv'
    <3>1. leaps' = <<>> /\ ntp'.state = "OK"
      BY <1>3, <2>2
    <3>2. ~(T >= E - 4) /\ T <= (IF Asked THEN E - 1 ELSE E - 3)
      BY <1>1, <2>3
    <3> QED BY <1>4, <3>1, <3>2 DEF KernelInv
  <2>5. LeapInv'
    BY <1>3, <1>4, <1>5, <1>6, <2>2, <2>4 DEF LeapInv
  <2>6. TimeInv'
    BY <1>2, <1>3, <1>4, <1>7, <2>1 DEF TimeInv
  <2>7. TimerInv'
    BY <1>2, <1>3, <1>4, <1>7, <2>1 DEF TimerInv
  <2> QED BY <2>5, <2>6, <2>7 DEF IterationInv
<1>8. CASE pc = "again"
  <2>1. Asking /\ Asking' /\ ~Preparing'
    BY <1>3, <1>8 DEF Preparing, Asking
  <2>2. KernelInv'
    <3>1. CASE "PLL" \in ntp.status
      <4>1. leaps = <<>> /\ T <= E - 5
        BY <1>2, <1>8, <2>1, <3>1, WaitingEarly DEF LeapInv
      <4>2. T < E - 4 /\ T <= E - 1 /\ T <= E - 3
        BY <1>1, <4>1
      <4> QED BY <1>1, <1>3, <1>4, <1>6, <3>1, <4>1, <4>2 DEF KernelInv
    <3>2. CASE "PLL" \notin ntp.status
      BY <1>2, <1>3, <1>4, <1>6, <2>1, <3>2 DEF LeapInv, KernelInv
    <3> QED BY <3>1, <3>2
  <2>3. LeapInv'
    BY <1>4, <1>5, <1>6, <2>1, <2>2 DEF LeapInv
  <2>4. Elapsed <= E - 6 + late /\ Elapsed = T - Leapt /\ Leapt \in {-2, 0, 2}
    BY <1>2, <1>8, <2>1, Leaps DEF TimeInv, Elapsed, LeapInv, KernelInv
  <2>5. /\ Elapsed <= 2 * clock.tv_sec + 4 + late /\ 2 * clock.tv_sec <= E + 8 + late
        /\ clock.tv_sec <= clock.tv_sec
    BY <1>1, <2>4
  <2>6. now' = clock.tv_sec /\ pc' = "watch"
    BY <1>3, <1>8
  <2>7. TimeInv'
    BY <1>2, <1>3, <1>4, <2>1, <2>5, <2>6 DEF TimeInv
  <2>8. TimerInv'
    BY <1>2, <1>3, <1>4, <1>8, <2>1 DEF TimerInv
  <2> QED BY <2>3, <2>7, <2>8 DEF IterationInv
<1> QED BY <1>3, <1>7, <1>8

\* The sleep, the watch and the verdict leave the kernel alone.
LEMMA WatchingIteration ==
  ASSUME LeapADayAssumption, NtpAssumption, Timely, TypeOK, ClearInv, IterationInv,
         Wake \/ Recheck \/ Watch \/ Nap \/ HrStart \/ HrEnd \/ Verdict
  PROVE  IterationInv'
<1> USE DEF Setting, Waiting, Open, Watching, Ending, Clearing, At
<1>1. /\ clock.tv_sec \in Nat /\ T \in Nat /\ T = 2 * clock.tv_sec + clock.tv_nsec
      /\ clock.tv_nsec \in {0, 1} /\ E \in Nat /\ E = 2 * next_leap /\ missed \in Int
      /\ late \in Nat /\ late <= 15 /\ now \in Nat /\ next_leap \in Nat
      /\ DAY \in Nat /\ 2 * DAY >= 17 + Spare + 2 * MaxLate
      /\ Spare \in 6 .. 20 /\ Spare >= 5 + MaxLate /\ MaxLate \in Nat /\ late <= MaxLate
  BY Numbers
<1>2. TimeInv /\ LeapInv /\ TimerInv
  BY DEF IterationInv
<1>3. UNCHANGED <<kernelVars, next_leap, interrupted, late>> /\ ~pending
      /\ UNCHANGED <<clock, ntp, missed, armed, pending, leaps>>
  BY DEF Wake, Recheck, Watch, Nap, HrStart, HrEnd, Verdict, kernelVars, localVars
<1>4. T' = T /\ E' = E /\ Leapt' = Leapt /\ Elapsed' = Elapsed
  BY <1>3 DEF T, E, Half, Leapt, Elapsed
<1>5. Asking => Elapsed = T - Leapt /\ Leapt \in {-2, 0, 2}
  BY <1>2, Leaps DEF Elapsed, LeapInv, KernelInv
<1>6. ~interrupted \/ pc \in Clearing \cup {"exit"}
  BY DEF ClearInv
<1>7. CASE Wake
  <2>1. /\ pc = "presleep" /\ pc' \in {"presleep", "recheck"}
        /\ UNCHANGED <<insert, target, now, then>>
    BY <1>7 DEF Wake
  <2>2. /\ Asking /\ Asking' /\ ~Preparing /\ ~Preparing' /\ Asked' = Asked /\ Flag' = Flag
    BY <2>1 DEF Asking, Preparing, Asked, Flag
  <2>3. KernelInv' = KernelInv
    BY <1>3, <1>4, <2>2 DEF KernelInv
  <2>4. LeapInv'
    BY <1>2, <1>3, <2>1, <2>2, <2>3 DEF LeapInv
  <2>5. TimeInv'
    BY <1>2, <1>3, <1>4, <2>1, <2>2 DEF TimeInv
  <2>6. TimerInv'
    BY <1>2, <1>3, <1>4, <2>1, <2>2 DEF TimerInv
  <2> QED BY <2>4, <2>5, <2>6 DEF IterationInv
<1>8. CASE Recheck
  <2>1. /\ pc = "recheck" /\ pc' = (IF StatusIsLeap THEN "watch" ELSE "again")
        /\ now' = clock.tv_sec /\ UNCHANGED <<insert, target, then>>
    BY <1>8 DEF Recheck
  <2>2. /\ Asking /\ Asking' /\ ~Preparing /\ ~Preparing' /\ Asked' = Asked /\ Flag' = Flag
    BY <2>1 DEF Asking, Preparing, Asked, Flag
  <2>3. KernelInv' = KernelInv
    BY <1>3, <1>4, <2>2 DEF KernelInv
  <2>4. StatusIsLeap => Flag \in ntp.status /\ "PLL" \notin ntp.status
    BY <1>2, <2>2 DEF StatusIsLeap, LeapInv
  <2>5. LeapInv'
    BY <1>2, <1>3, <2>1, <2>2, <2>3, <2>4 DEF LeapInv
  <2>6. Elapsed <= E - 6 + late
    BY <1>2, <2>1 DEF TimeInv
  <2>7. /\ Elapsed <= 2 * clock.tv_sec + 4 + late /\ 2 * clock.tv_sec <= E + 8 + late
        /\ clock.tv_sec <= clock.tv_sec
    BY <1>1, <1>5, <2>2, <2>6
  <2>8. TimeInv'
    BY <1>2, <1>3, <1>4, <2>1, <2>2, <2>6, <2>7 DEF TimeInv
  <2>9. TimerInv'
    BY <1>2, <1>3, <1>4, <2>1, <2>2 DEF TimerInv
  <2> QED BY <2>5, <2>8, <2>9 DEF IterationInv
<1>9. CASE Watch /\ now < next_leap + 2
  <2>1. /\ pc = "watch" /\ pc' = "nap" /\ now' = clock.tv_sec
        /\ UNCHANGED <<insert, target, then>>
    BY <1>1, <1>9 DEF Watch
  <2>2. /\ Asking /\ Asking' /\ ~Preparing /\ ~Preparing' /\ Asked' = Asked /\ Flag' = Flag
    BY <2>1 DEF Asking, Preparing, Asked, Flag
  <2>3. KernelInv' = KernelInv
    BY <1>3, <1>4, <2>2 DEF KernelInv
  <2>4. LeapInv'
    BY <1>2, <1>3, <2>1, <2>2, <2>3 DEF LeapInv
  <2>5. Elapsed <= 2 * now + 4 + late
    BY <1>2, <2>1 DEF TimeInv
  <2>6. /\ Elapsed <= 2 * clock.tv_sec + 4 + late /\ Elapsed <= 2 * clock.tv_sec + 3 + late
        /\ 2 * clock.tv_sec <= E + 8 + late /\ clock.tv_sec <= clock.tv_sec
    BY <1>1, <1>5, <1>9, <2>2, <2>5
  <2>7. TimeInv'
    BY <1>2, <1>3, <1>4, <2>1, <2>2, <2>6 DEF TimeInv
  <2>8. TimerInv'
    BY <1>2, <1>3, <1>4, <2>1, <2>2 DEF TimerInv
  <2> QED BY <2>4, <2>7, <2>8 DEF IterationInv
<1>10. CASE Watch /\ now >= next_leap + 2
  <2>1. /\ pc = "watch" /\ pc' = "hrstart" /\ insert' = ~insert /\ UNCHANGED then
    BY <1>1, <1>10 DEF Watch
  <2>2. /\ Asking /\ Asking' /\ ~Preparing /\ ~Preparing'
    BY <2>1 DEF Asking, Preparing
  <2>3. Flag' = Flag /\ (IF Asked' THEN -1 ELSE 1) = (IF Asked THEN -1 ELSE 1)
        /\ (Asked' <=> Asked)
    BY <2>1 DEF Asked, Flag, TypeOK
  <2>4. KernelInv'
    <3>1. KernelInv
      BY <1>2, <2>2 DEF LeapInv
    <3>2. CASE Asked
      BY <1>3, <1>4, <2>3, <3>1, <3>2 DEF KernelInv
    <3>3. CASE ~Asked
      BY <1>3, <1>4, <2>3, <3>1, <3>3 DEF KernelInv
    <3> QED BY <3>2, <3>3
  <2>5. LeapInv'
    BY <1>2, <1>3, <2>1, <2>2, <2>3, <2>4 DEF LeapInv
  <2>6. Elapsed <= 2 * now + 4 + late /\ 2 * now <= E + 8 + late /\ now <= clock.tv_sec
    BY <1>2, <2>1 DEF TimeInv
  <2>7. E + 4 <= T /\ T <= E + 17 + 2 * late /\ T <= E + 14 + 2 * late
    BY <1>1, <1>5, <1>10, <2>2, <2>6
  <2>8. TimeInv'
    BY <1>2, <1>3, <1>4, <2>1, <2>2, <2>7 DEF TimeInv
  <2>9. armed = 0
    <3>1. armed # 0 => T + 2 * missed <= E
      BY <1>2, <1>6, <2>1 DEF TimerInv
    <3>2. 2 * missed >= -2
      BY <1>1, <1>2, <1>5, <2>2 DEF TimerInv
    <3> QED BY <1>1, <2>7, <3>1, <3>2
  <2>10. TimerInv'
    BY <1>2, <1>3, <1>4, <2>1, <2>2, <2>9 DEF TimerInv
  <2> QED BY <2>5, <2>8, <2>10 DEF IterationInv
<1>11. CASE Nap
  <2>1. pc = "nap" /\ pc' = "watch" /\ UNCHANGED <<insert, target, now, then>>
    BY <1>11 DEF Nap, localVars
  <2>2. /\ Asking /\ Asking' /\ ~Preparing /\ ~Preparing' /\ Asked' = Asked /\ Flag' = Flag
    BY <2>1 DEF Asking, Preparing, Asked, Flag
  <2>3. KernelInv' = KernelInv
    BY <1>3, <1>4, <2>2 DEF KernelInv
  <2>4. LeapInv'
    BY <1>2, <1>3, <2>1, <2>2, <2>3 DEF LeapInv
  <2>5. TimeInv'
    BY <1>2, <1>3, <1>4, <2>1, <2>2 DEF TimeInv
  <2>6. TimerInv'
    BY <1>2, <1>3, <1>4, <2>1, <2>2 DEF TimerInv
  <2> QED BY <2>4, <2>5, <2>6 DEF IterationInv
<1>12. CASE HrStart \/ HrEnd
  <2>1. /\ (pc = "hrstart" /\ pc' = "hrsleep") \/ (pc = "hrsleep" /\ pc' = "verdict")
        /\ UNCHANGED <<insert, now, then>>
    BY <1>12 DEF HrStart, HrEnd
  <2>2. /\ Asking /\ Asking' /\ ~Preparing /\ ~Preparing' /\ Asked' = Asked /\ Flag' = Flag
    BY <2>1 DEF Asking, Preparing, Asked, Flag
  <2>3. KernelInv' = KernelInv
    BY <1>3, <1>4, <2>2 DEF KernelInv
  <2>4. LeapInv'
    BY <1>2, <1>3, <2>1, <2>2, <2>3 DEF LeapInv
  <2>5. pc' = "hrsleep" => Half(target)' <= E + 15 + 2 * late /\ ~woken'
    <3> SUFFICES ASSUME pc' = "hrsleep" PROVE Half(target)' <= E + 15 + 2 * late /\ ~woken'
      OBVIOUS
    <3>1. pc = "hrstart" /\ target' = timespec_add(clock, NSEC_PER_SEC \div 2) /\ ~woken'
      BY <1>12, <2>1 DEF HrStart, HrEnd
    <3>2. NSEC_PER_SEC \div 2 = 1
      BY DEF Timely
    <3>3. target' = timespec_add(clock, 1) /\ NSEC_PER_SEC = 2
      BY <3>1, <3>2 DEF Timely
    <3>5. Half(target)' = T + 1
      <4>1. Half(timespec_add(clock, 1)) = T + 1
        BY AnotherHalf DEF T, TypeOK
      <4> QED BY <3>3, <4>1 DEF Half
    <3>6. T + 1 <= E + 15 + 2 * late
      BY <1>1, <1>2, <3>1 DEF TimeInv
    <3> QED BY <3>1, <3>5, <3>6
  <2>6. TimeInv'
    BY <1>2, <1>3, <1>4, <2>1, <2>2, <2>5 DEF TimeInv
  <2>7. TimerInv'
    BY <1>2, <1>3, <1>4, <2>1, <2>2 DEF TimerInv
  <2> QED BY <2>4, <2>6, <2>7 DEF IterationInv
<1>13. CASE Verdict
  <2>1. pc = "verdict" /\ pc' \in {"clear1", "gettime"} /\ then' = "exit"
    BY <1>13 DEF Verdict
  <2>2. ~Asking' /\ ~Preparing'
    BY <2>1 DEF Asking, Preparing
  <2>3. E + 4 <= T /\ T <= E + 17 + 2 * late
    BY <1>2, <2>1 DEF TimeInv
  <2>4. next_leap <= clock.tv_sec /\ T <= E + 2 * DAY - Spare - MaxLate + late
    BY <1>1, <2>3
  <2>5. TimeInv' /\ LeapInv'
    BY <1>2, <1>3, <1>4, <2>1, <2>2, <2>4 DEF TimeInv, LeapInv
  <2>6. armed = 0
    BY <1>2, <1>6, <2>1 DEF TimerInv
  <2> QED BY <1>2, <1>3, <2>1, <2>2, <2>5, <2>6 DEF IterationInv, TimerInv
<1> QED BY <1>1, <1>7, <1>8, <1>9, <1>10, <1>11, <1>12, <1>13 DEF Watch
\* Every step keeps the invariant of the iteration.
LEMMA StepIteration ==
  ASSUME LeapADayAssumption, NtpAssumption, Timely, TypeOK, ClearInv, IterationInv, [Next]_vars
  PROVE  IterationInv'
<1>1. CASE Tick
  BY <1>1, TickTimeInv, TickLeapInv, TickTimerInv DEF IterationInv
<1>2. CASE Expire \/ Interfere \/ sigalarm \/ handler
  BY <1>2, SignalIteration
<1>3. CASE Main
  <2>1. CASE GetTime \/ SetTime \/ clear_time_state \/ Validate \/ CreateTimer \/ ArmTimer
    BY <2>1, PreparingIteration
  <2>2. CASE SetLeap
    BY <2>2, SetLeapIteration
  <2>3. CASE Wake \/ Recheck \/ Watch \/ Nap \/ HrStart \/ HrEnd \/ Verdict
    BY <2>3, WatchingIteration
  <2> QED BY <1>3, <2>1, <2>2, <2>3 DEF Main
<1>4. CASE UNCHANGED vars
  BY <1>4 DEF IterationInv, TimeInv, LeapInv, TimerInv, KernelInv, Preparing, Asking, Asked, Flag,
              Elapsed, Leapt, T, E, Half, vars, kernelVars, localVars
<1> QED BY <1>1, <1>2, <1>3, <1>4 DEF Next

\* Every iteration keeps to its time, its leap and its timer.
THEOREM IterationInvariant ==
  ASSUME LeapADayAssumption, NtpAssumption, Timely
  PROVE  Spec => [](TypeOK /\ ClearInv /\ IterationInv)
<1>1. LongDay
  BY DEF LongDay, Timely, Spare, NtpAssumption, LeapADayAssumption
<1>2. Init => TypeOK /\ ClearInv /\ IterationInv
  BY InitClear, InitIteration
<1>3. TypeOK /\ ClearInv /\ IterationInv /\ [Next]_vars => (TypeOK /\ ClearInv /\ IterationInv)'
  BY <1>1, StepClear, StepIteration
<1> QED BY <1>2, <1>3, PTL DEF Spec

\* The alarm has been handled long before test_hrtimer_failure sleeps: however
\* late it was, the watch goes on for two seconds after the leap.
THEOREM AlarmsAreOver ==
  ASSUME LeapADayAssumption, NtpAssumption, Timely
  PROVE  Spec => []NoAlarmInHrtimerTest
<1>1. TypeOK /\ ClearInv /\ IterationInv => NoAlarmInHrtimerTest
  BY DEF ClearInv, IterationInv, TimerInv, NoAlarmInHrtimerTest, Setting, Waiting, Watching,
         Ending, Clearing
<1> QED BY <1>1, IterationInvariant, PTL

\* An iteration that reaches its verdict has seen its leap, once.
THEOREM LeapsComplete ==
  ASSUME LeapADayAssumption, NtpAssumption, Timely
  PROVE  Spec => []LeapComplete
<1>1. TypeOK /\ ClearInv /\ IterationInv => LeapComplete
  <2> SUFFICES ASSUME TypeOK, IterationInv, pc = "verdict"
               PROVE  leaps = <<IF insert THEN 1 ELSE -1>>
    BY DEF LeapComplete
  <2>1. Asking /\ (Asked <=> ~insert) /\ T \in Nat /\ E \in Nat /\ E + 4 <= T
    BY DEF IterationInv, TimeInv, Asking, Asked, Ending, T, E, Half, TypeOK, Timespec, Timely
  <2>2. KernelInv
    BY <2>1 DEF IterationInv, LeapInv
  <2> QED BY <2>1, <2>2 DEF KernelInv
<1> QED BY <1>1, IterationInvariant, PTL
-------------------------------------------------------------------------------
(* A kernel whose timers miss the leap.                                    *)

\* The invariant of a kernel with the bug, at the start.
LEMMA InitBug ==
  ASSUME Init PROVE BugInv
BY DEF Init, BugInv, Asked, Preparing, Asking, Setting, Waiting, Watching, Ending, Clearing

\* A tick on a kernel with the bug.
LEMMA TickBug ==
  ASSUME LeapADayAssumption, NtpAssumption, Timely, Faulty, TypeOK, ClearInv, IterationInv,
         BugInv, Tick
  PROVE  BugInv'
<1> USE DEF Setting, Waiting, Open, Watching, Ending, Clearing
<1>1. T \in Nat /\ E \in Nat /\ late \in Nat /\ late <= MaxLate /\ MaxLate \in Nat /\ MaxLate <= 2
  BY Numbers DEF Faulty
<1>2. /\ UNCHANGED <<pc, next_leap, armed, pending, error_found, insert, target, then, interrupted,
                     exitcode>>
      /\ Preparing' = Preparing /\ Asking' = Asking /\ Asked' = Asked
  BY DEF Tick, Preparing, Asking, Asked
<1>3. TimeInv /\ LeapInv /\ TimerInv
  BY DEF IterationInv
<1>4. late = 2 => late' = 2
  BY <1>1 DEF Tick
<1>5. Asking \/ (Preparing /\ pc # "settime") => missed' = IF leaps' = <<>> THEN 0 ELSE 1
  <2>1. CASE Preparing /\ pc # "settime"
    BY <1>3, <2>1, TickPreparing DEF NoLeap, BugInv
  <2>2. CASE Asking
    <3>1. NoLeap \/ LeapsBack
      BY <1>3, <2>2, TickKernel DEF LeapsOver, BugInv
    <3> QED BY <2>2, <3>1 DEF NoLeap, LeapsBack, BugInv, Faulty
  <2> QED BY <2>1, <2>2
<1>6. pc = "hrsleep" => error_found
  <2> SUFFICES ASSUME pc = "hrsleep", ~error_found PROVE FALSE
    OBVIOUS
  <2>1. ~interrupted /\ Asking /\ E + 4 <= T
    BY <1>3 DEF ClearInv, Asking, TimeInv
  <2>2. armed = 0 /\ ~pending
    BY <1>3, <2>1 DEF TimerInv
  <2>3. late = 2 /\ Half(target) = T + 1
    BY <2>2 DEF BugInv
  <2>4. leaps # <<>>
    <3>1. KernelInv
      BY <1>3, <2>1 DEF LeapInv
    <3> QED BY <1>1, <2>1, <3>1, Leaps DEF KernelInv
  <2>5. missed = 1
    BY <2>1, <2>4 DEF BugInv
  <2>6. Expired(target)
    BY <1>1, <2>3, <2>5, Order DEF TypeOK
  <2> QED BY <1>1, <2>3, <2>6 DEF Tick, Asleep
<1> QED BY <1>2, <1>4, <1>5, <1>6 DEF BugInv

\* Every step on a kernel with the bug.
LEMMA StepBug ==
  ASSUME LeapADayAssumption, NtpAssumption, Timely, Faulty, TypeOK, ClearInv, IterationInv,
         BugInv, [Next]_vars
  PROVE  BugInv'
<1> USE DEF Setting, Waiting, Open, Watching, Ending, Clearing, At
<1>1. /\ T \in Nat /\ E \in Nat /\ E = 2 * next_leap /\ clock.tv_sec \in Nat
      /\ T = 2 * clock.tv_sec + clock.tv_nsec /\ clock.tv_nsec \in {0, 1}
      /\ late \in Nat /\ late <= MaxLate /\ MaxLate \in Nat /\ MaxLate <= 2
      /\ DAY \in Nat /\ 2 * DAY >= 17 + Spare + 2 * MaxLate
      /\ Spare \in 6 .. 20 /\ Spare >= 5 + MaxLate /\ MaxLate \in Nat /\ late <= MaxLate /\
           next_leap \in Nat /\ missed \in Int
  BY Numbers DEF Faulty
<1>2. TimeInv /\ LeapInv /\ TimerInv
  BY DEF IterationInv
<1>3. CASE Tick
  BY <1>3, TickBug
<1>4. CASE Expire
  <2>1. UNCHANGED <<missed, leaps, pc, localVars>> /\ T' = T /\ pending' = TRUE
    BY <1>4 DEF Expire, T, Half
  <2>2. UNCHANGED <<insert, then, error_found, late, target, interrupted, exitcode>>
    BY <2>1 DEF localVars
  <2> QED BY <2>1, <2>2 DEF BugInv, Preparing, Asking, Asked, Half
<1>5. CASE Interfere
  <2>1. UNCHANGED <<missed, leaps, pc, armed, pending, localVars>> /\ T' = T
    BY <1>5 DEF Interfere, sigVars, T, Half
  <2>2. UNCHANGED <<insert, then, error_found, late, target, interrupted, exitcode>>
    BY <2>1 DEF localVars
  <2> QED BY <2>1, <2>2 DEF BugInv, Preparing, Asking, Asked, Half
<1>6. CASE sigalarm
  <2>1. /\ UNCHANGED <<clock, missed, armed, leaps, pc, insert, then, late, target, interrupted,
                       exitcode>>
        /\ pending /\ T' = T
        /\ error_found' = (error_found \/ clock.tv_sec < next_leap \/ adj_ret(ntp) # "WAIT")
    BY <1>6 DEF sigalarm, T, Half
  <2>2. pc \in Waiting \cup Watching \cup Ending => error_found' \/ late = 2
    <3>0. clock.tv_sec < next_leap => error_found'
      BY <2>1
    <3> SUFFICES ASSUME pc \in Waiting \cup Watching \cup Ending, ~(clock.tv_sec < next_leap)
                 PROVE  late = 2
      BY <3>0
    <3>1. ~interrupted /\ Asking
      BY DEF ClearInv, Asking
    <3>2. T + 2 * missed >= E /\ T + 2 * missed <= E + late
      BY <1>2, <2>1, <3>1 DEF TimerInv
    <3>3. leaps # <<>>
      <4> SUFFICES ASSUME leaps = <<>> PROVE FALSE
        OBVIOUS
      <4>1. KernelInv /\ missed = 0
        BY <1>2, <3>1 DEF LeapInv, BugInv
      <4> QED BY <1>1, <3>2, <4>1, Leaps DEF KernelInv
    <3>4. missed = 1
      BY <3>1, <3>3 DEF BugInv
    <3> QED BY <1>1, <3>2, <3>4
  <2>3. error_found => error_found'
    BY <2>1
  <2> QED BY <2>1, <2>2, <2>3 DEF BugInv, Preparing, Asking, Asked, Half
<1>7. CASE handler
  BY <1>7 DEF handler, BugInv, Preparing, Asking
<1>8. CASE GetTime
  <2>1. pc = "gettime" /\ pc' = "settime" /\ UNCHANGED insert
    BY <1>8 DEF GetTime, Timely, Faulty
  <2> QED BY <2>1 DEF BugInv, Preparing, Asking, Asked
<1>9. CASE SetTime
  <2>1. /\ pc = "settime" /\ pc' = "clear1" /\ missed' = 0
        /\ UNCHANGED <<leaps, localVars>>
    BY <1>9 DEF SetTime
  <2>2. UNCHANGED <<insert, then, interrupted>>
    BY <2>1 DEF localVars
  <2>3. Preparing /\ leaps = <<>> /\ then = "setleap"
    BY <1>2, <2>1 DEF Preparing, LeapInv, ClearInv
  <2> QED BY <2>1, <2>2, <2>3 DEF BugInv, Preparing, Asking, Asked
<1>10. CASE clear_time_state
  <2>1. /\ UNCHANGED <<missed, leaps, localVars>>
        /\ pc \in Clearing /\ pc' \in {"clear2", "clear3", then}
    BY <1>10 DEF clear_time_state, sigVars
  <2>2. UNCHANGED <<insert, then, interrupted, exitcode>> /\ then \in {"setleap", "exit"}
    BY <2>1 DEF localVars, TypeOK
  <2> QED BY <2>1, <2>2 DEF BugInv, Preparing, Asking, Asked
<1>11. CASE SetLeap
  <2>1. /\ UNCHANGED <<missed, leaps, armed, pending, insert, error_found, late, then>>
        /\ (pc = "setleap" /\ pc' = "validate") \/ (pc = "again" /\ pc' = "watch")
    BY <1>11 DEF SetLeap, sigVars
  <2> QED BY <2>1 DEF BugInv, Preparing, Asking, Asked
<1>12. CASE Validate \/ CreateTimer
  <2>1. /\ UNCHANGED <<missed, leaps, insert, interrupted, then>>
        /\ pc \in {"validate", "create"} /\ pc' \in {"create", "arm", "exit"}
        /\ pc' = "exit" => exitcode' = 1
    BY <1>12 DEF Validate, CreateTimer, kernelVars
  <2> QED BY <2>1 DEF BugInv, Preparing, Asking, Asked
<1>13. CASE ArmTimer
  <2>1. /\ UNCHANGED <<missed, leaps, insert, then>> /\ armed' = next_leap
        /\ pc = "arm" /\ pc' = "presleep"
    BY <1>13 DEF ArmTimer
  <2>2. next_leap # 0
    BY <1>1, <2>1 DEF ClearInv
  <2> QED BY <2>1, <2>2 DEF BugInv, Preparing, Asking, Asked
<1>14. CASE Wake \/ Recheck \/ Nap
  <2>1. /\ UNCHANGED <<kernelVars, insert, error_found, late, then>>
        /\ pc \in Waiting \cup Watching /\ pc' \in Waiting \cup Watching
    BY <1>14 DEF Wake, Recheck, Nap, localVars
  <2> QED BY <2>1 DEF BugInv, Preparing, Asking, Asked, kernelVars
<1>15. CASE Watch
  <2>1. /\ UNCHANGED <<kernelVars, error_found, late, then>> /\ pc = "watch"
        /\ (pc' = "nap" /\ insert' = insert) \/ (pc' = "hrstart" /\ insert' = ~insert)
    BY <1>15 DEF Watch
  <2>2. insert
    BY <2>1 DEF BugInv, Asking, Asked
  <2> QED BY <2>1, <2>2 DEF BugInv, Preparing, Asking, Asked, kernelVars
<1>16. CASE HrStart
  <2>1. /\ UNCHANGED <<kernelVars, insert, error_found, late, then>>
        /\ pc = "hrstart" /\ pc' = "hrsleep"
        /\ target' = timespec_add(clock, NSEC_PER_SEC \div 2) /\ NSEC_PER_SEC = 2
    BY <1>16 DEF HrStart, Timely
  <2>2. Half(timespec_add(clock, 1)) = T + 1 /\ 2 \div 2 = 1
    BY AnotherHalf DEF T, TypeOK
  <2>3. target' = timespec_add(clock, 1) /\ T' = T
    BY <2>1, <2>2 DEF T, Half, kernelVars
  <2>4. Half(target)' = T' + 1
    BY <2>2, <2>3 DEF Half
  <2> QED BY <2>1, <2>4 DEF BugInv, Preparing, Asking, Asked, kernelVars
<1>17. CASE HrEnd
  <2>1. /\ UNCHANGED <<kernelVars, insert, late, then>> /\ pc = "hrsleep" /\ pc' = "verdict"
        /\ error_found' = (error_found \/ ~in_order(target, clock))
    BY <1>17 DEF HrEnd
  <2>2. error_found'
    <3>1. error_found \/ Half(target) = T + 1
      BY <2>1 DEF BugInv
    <3>2. Half(target) = T + 1 => ~in_order(target, clock)
      BY <1>1, Order DEF TypeOK
    <3> QED BY <2>1, <3>1, <3>2
  <2> QED BY <2>1, <2>2 DEF BugInv, Preparing, Asking, Asked, kernelVars
<1>18. CASE Verdict
  <2>1. pc' = "clear1" /\ then' = "exit" /\ exitcode' = 1
    BY <1>18 DEF Verdict, BugInv
  <2> QED BY <2>1 DEF BugInv, Preparing, Asking
<1>19. CASE UNCHANGED vars
  BY <1>19 DEF vars, kernelVars, localVars, BugInv, Preparing, Asking, Asked, T, Half
<1> QED BY <1>3, <1>4, <1>5, <1>6, <1>7, <1>8, <1>9, <1>10, <1>11, <1>12, <1>13, <1>14,
           <1>15, <1>16, <1>17, <1>18, <1>19 DEF Next, Main

\* A kernel whose timers miss the leap fails the test in its first iteration:
\* either its alarm comes a second early, or it is so late that nothing can hide
\* that the next sleep is over at once.
THEOREM TimerBugFails ==
  ASSUME LeapADayAssumption, NtpAssumption, Timely, MaxLate <= 2
  PROVE  Spec => []HrtimerBugIsFound
<1>1. CASE HrtimerBug
  <2>1. Faulty
    BY <1>1 DEF Faulty
  <2>2. Init => BugInv
    BY InitBug
  <2>3. TypeOK /\ ClearInv /\ IterationInv /\ BugInv /\ [Next]_vars => BugInv'
    BY <2>1, StepBug
  <2>4. BugInv => HrtimerBugIsFound
    BY DEF BugInv, HrtimerBugIsFound, Clearing
  <2> QED BY <2>2, <2>3, <2>4, IterationInvariant, PTL DEF Spec
<1>2. CASE ~HrtimerBug
  <2>1. HrtimerBugIsFound
    BY <1>2 DEF HrtimerBugIsFound
  <2> QED BY <2>1, PTL
<1> QED BY <1>1, <1>2
-------------------------------------------------------------------------------
(* A sound kernel.                                                         *)

\* The invariant of a sound kernel, at the start.
LEMMA InitSound ==
  ASSUME NtpAssumption, LeapADayAssumption, Sound, Init
  PROVE  SoundInv
<1>1. /\ pc = "gettime" /\ then = "setleap" /\ iterations = Iterations /\ timers = 0
      /\ ~error_found /\ exitcode = 0
  BY DEF Init
<1>2. Iterations >= 1 /\ 0 + Iterations <= MaxTimers
  BY DEF Sound, LeapADayAssumption
<1>3. PICK s \in Starts : clock = [tv_sec |-> s, tv_nsec |-> 0]
  BY DEF Init
<1>4. next_leap = 0 /\ (~settime /\ Iterations = 1 => DAY - clock.tv_sec <= Ahead)
  BY <1>3 DEF Init, Sound
<1>5. Iterations <= Iterations
  BY DEF LeapADayAssumption
<1> QED BY <1>1, <1>2, <1>4, <1>5 DEF SoundInv, CountInv, SyncInv, Preparing, Setting, Waiting,
                                      Watching, Ending, Clearing

\* Ahead is a number.
LEMMA AheadIsInt ==
  ASSUME NtpAssumption
  PROVE  Ahead \in Int /\ DAY \in Nat
BY DEF NtpAssumption, Ahead

\* With every second the error estimate grows by one.
LEMMA TickSync ==
  ASSUME LeapADayAssumption, NtpAssumption, Timely, Sound, TypeOK, ClearInv, IterationInv,
         SoundInv, Tick
  PROVE  SyncInv'
<1> USE DEF Setting, Waiting, Open, Watching, Ending, Clearing
<1>1. /\ clock.tv_sec \in Nat /\ T \in Nat /\ E \in Nat /\ DAY \in Nat
      /\ ntp.maxerror \in Nat /\ clock.tv_nsec \in {0, 1} /\ NTP_PHASE_LIMIT \in Nat
  BY Numbers DEF TypeOK, Ntp, NtpAssumption
<1>2. /\ UNCHANGED <<pc, next_leap, then>> /\ E' = E
      /\ Preparing' = Preparing /\ Asking' = Asking /\ ClearedAt' = ClearedAt
  BY DEF Tick, E, Preparing, Asking, ClearedAt
<1>3. TimeInv /\ LeapInv /\ TimerInv /\ SyncInv
  BY DEF IterationInv, SoundInv
<1>4. ClearedAt \in Int /\ Ahead \in Int
  BY <1>1, AheadIsInt DEF ClearedAt
<1>10. pc = "gettime" /\ ~settime /\ Iterations = 1 => DAY - clock'.tv_sec <= Ahead
  <2> SUFFICES ASSUME pc = "gettime", ~settime, Iterations = 1
               PROVE  DAY - clock'.tv_sec <= Ahead
    OBVIOUS
  <2>1. clock'.tv_sec >= clock.tv_sec
    BY <1>3, TickPreparing DEF NoLeap
  <2>2. clock'.tv_sec \in Nat
    BY TickClear, Halves DEF TypeOK, Timespec
  <2> QED BY <1>1, <1>3, <1>4, <2>1, <2>2 DEF SyncInv
<1>5. Preparing /\ pc # "settime" => ClearedAt <= T'
  <2> SUFFICES ASSUME Preparing, pc # "settime" PROVE ClearedAt <= T'
    OBVIOUS
  <2>1. T' = T + 1
    BY <1>3, TickPreparing DEF NoLeap
  <2>2. ClearedAt <= T + 1
    BY <1>1, <1>3, <1>4 DEF SyncInv
  <2> QED BY <2>1, <2>2
<1> DEFINE Synced == (pc = "clear3" /\
      then = "setleap") \/ pc \in Setting \cup Waiting \cup Watching
<1>6. Synced => Elapsed \in Int /\ Elapsed' = Elapsed + 1
  <2>1. CASE Asking
    BY <1>3, <2>1, TickTime
  <2>2. CASE Synced /\ ~Asking
    <3>1. Preparing /\ leaps = <<>>
      BY <1>3, <2>2 DEF Preparing, Asking, LeapInv
    <3>2. T' = T + 1 /\ Leapt' = 0 /\ Leapt = 0
      BY <1>3, <3>1, TickPreparing DEF NoLeap, Leapt
    <3> QED BY <1>1, <3>2 DEF Elapsed
  <2> QED BY <2>1, <2>2
<1>7. Synced => 2 * ntp.maxerror <= Elapsed - ClearedAt + 1 - clock.tv_nsec
  BY <1>3 DEF SyncInv
<1>8. CASE clock.tv_nsec = 0
  <2>1. ntp' = ntp
    BY <1>8, HalfSecond
  <2>2. clock' = [tv_sec |-> clock.tv_sec, tv_nsec |-> 0 + 1]
    <3>1. NSEC_PER_SEC = 2 /\ clock \in Timespec
      BY DEF Timely, TypeOK
    <3> QED BY <1>8, <3>1, Addition DEF Tick
  <2>3. clock'.tv_nsec = 1
    BY <2>2
  <2>4. Synced => 2 * ntp.maxerror <= (Elapsed + 1) - ClearedAt + 1 - 1
    BY <1>1, <1>4, <1>6, <1>7, <1>8
  <2> QED BY <1>2, <1>3, <1>5, <1>6, <1>10, <2>1, <2>3, <2>4 DEF SyncInv
<1>9. CASE clock.tv_nsec = 1
  <2>1. ntp' = second_overflow(ntp, clock.tv_sec + 1)
    BY <1>9, HalfSecond
  <2>2. /\ ntp'.maxerror = IF ntp.maxerror = NTP_PHASE_LIMIT THEN ntp.maxerror
                           ELSE ntp.maxerror + 1
        /\ ntp'.status = IF ntp.maxerror = NTP_PHASE_LIMIT THEN ntp.status \cup {"UNSYNC"}
                         ELSE ntp.status
    BY <2>1 DEF second_overflow
  <2>3. clock'.tv_nsec = 0
    BY <1>9 DEF Tick, Timely
  <2>4. Synced => /\ 2 * ntp.maxerror <= (Elapsed + 1) - ClearedAt + 1 - 0
                  /\ 2 * (ntp.maxerror + 1) <= (Elapsed + 1) - ClearedAt + 1 - 0
    BY <1>1, <1>4, <1>6, <1>7, <1>9
  <2>5. Synced => 2 * ntp'.maxerror <= Elapsed' - ClearedAt' + 1 - clock'.tv_nsec
    BY <1>2, <1>6, <2>2, <2>3, <2>4
  <2>6. pc \in Setting \cup Waiting \cup Watching =>
          ("UNSYNC" \in ntp'.status => ntp'.maxerror = NTP_PHASE_LIMIT)
    BY <1>3, <2>2 DEF SyncInv
  <2> QED BY <1>2, <1>3, <1>5, <1>10, <2>5, <2>6 DEF SyncInv
<1> QED BY <1>1, <1>8, <1>9

\* The clock is synchronised when the flag is checked and when the alarm comes.
LEMMA Synchronised ==
  ASSUME LeapADayAssumption, NtpAssumption, Timely, Sound, TypeOK, ClearInv, IterationInv,
         SoundInv, pc \in Setting \cup Waiting \cup Watching, T <= E + late
  PROVE  "UNSYNC" \notin ntp.status
<1>1. /\ clock.tv_nsec \in {0, 1} /\ T \in Nat /\ E \in Nat /\ DAY \in Nat /\ late <= 15
      /\ Spare \in 6 .. 20 /\ Spare >= 5 + MaxLate /\ MaxLate \in Nat /\ late <= MaxLate
      /\ late \in Nat /\ ntp.maxerror \in Nat /\ NTP_PHASE_LIMIT \in Nat
  BY Numbers DEF TypeOK, Ntp, NtpAssumption
<1>2. Leapt \in Int /\ Leapt >= -2 /\ Elapsed = T - Leapt
  <2>1. leaps = <<>> \/ leaps = <<-1>> \/ leaps = <<1>>
    BY DEF IterationInv, LeapInv, KernelInv, Asking, Preparing, Setting, Waiting, Watching
  <2> QED BY <2>1, Leaps DEF Elapsed
<1>3. 2 * ntp.maxerror <= Elapsed - ClearedAt + 1 - clock.tv_nsec
  BY DEF SoundInv, SyncInv
<1>4. ntp.maxerror < NTP_PHASE_LIMIT
  BY <1>1, <1>2, <1>3, AheadIsInt DEF Sound, ClearedAt
<1> QED BY <1>1, <1>4 DEF SoundInv, SyncInv
\* The handler, whatever it comes between, finds no error on a sound kernel.
LEMMA SignalSound ==
  ASSUME LeapADayAssumption, NtpAssumption, Timely, Sound, TypeOK, ClearInv, IterationInv,
         SoundInv, Expire \/ Interfere \/ sigalarm \/ handler
  PROVE  SoundInv'
<1> USE DEF Setting, Waiting, Open, Watching, Ending, Clearing
<1>1. /\ T \in Nat /\ E \in Nat /\ E = 2 * next_leap /\ clock.tv_sec \in Nat
      /\ T = 2 * clock.tv_sec + clock.tv_nsec /\ clock.tv_nsec \in {0, 1} /\ late \in Nat
      /\ next_leap \in Nat
  BY Numbers
<1>2. /\ TimeInv /\ LeapInv /\ TimerInv /\ CountInv /\ SyncInv
      /\ ~interrupted => ~error_found /\ exitcode = 0
  BY DEF IterationInv, SoundInv
<1>3. CASE Expire
  <2>1. UNCHANGED <<clock, ntp, timers, leaps, pc, localVars>>
    BY <1>3 DEF Expire
  <2>2. UNCHANGED <<then, iterations, interrupted, error_found, exitcode, next_leap>>
    BY <2>1 DEF localVars
  <2> QED BY <1>2, <2>1, <2>2 DEF SoundInv, CountInv, SyncInv, Preparing, Elapsed, Leapt,
                                  ClearedAt, T, E, Half
<1>4. CASE Interfere
  <2>1. UNCHANGED <<clock, timers, leaps, pc, localVars>>
        /\ pc \in {"create", "arm", "presleep"}
    BY <1>4 DEF Interfere, sigVars
  <2>2. UNCHANGED <<then, iterations, interrupted, error_found, exitcode, next_leap>>
    BY <2>1 DEF localVars
  <2>3. ntp'.maxerror = ntp.maxerror /\ "UNSYNC" \notin ntp'.status
    <3>1. PICK f \in {{}, {"PLL"}} : ntp' = adj_status(ntp, f)
      BY <1>4 DEF Interfere
    <3>2. f \in SUBSET Flags /\ "UNSYNC" \notin f /\ ntp \in Ntp
      BY DEF Flags, TypeOK
    <3> QED
      BY <3>1, <3>2, Calls
  <2>4. UNCHANGED <<Elapsed, ClearedAt, T>> /\ UNCHANGED Preparing
    BY <2>1, <2>2 DEF Preparing, Elapsed, Leapt, ClearedAt, T, E, Half
  <2> QED BY <1>2, <2>1, <2>2, <2>3, <2>4 DEF SoundInv, CountInv, SyncInv
<1>5. CASE sigalarm
  <2>1. /\ UNCHANGED <<clock, ntp, timers, leaps, pc, then, iterations, interrupted, exitcode,
                       next_leap>>
        /\ pending /\ pc # "exit"
        /\ error_found' = (error_found \/ clock.tv_sec < next_leap \/ adj_ret(ntp) # "WAIT")
    BY <1>5 DEF sigalarm
  <2>2. ~interrupted => ~error_found'
    <3> SUFFICES ASSUME ~interrupted
                 PROVE  ~error_found /\ ~(clock.tv_sec < next_leap) /\ adj_ret(ntp) = "WAIT"
      BY <2>1
    <3>1. missed = 0 /\ pc \in Waiting \cup Watching /\ T + 2 * missed >= E
          /\ T + 2 * missed <= E + late
      BY <1>2, <2>1 DEF TimerInv, Sound
    <3>2. T >= E /\ T <= E + late
      BY <1>1, <3>1
    <3>3. ~(clock.tv_sec < next_leap)
      BY <1>1, <3>2
    <3>4. ntp.state = "WAIT"
      <4>1. KernelInv
        BY <1>2, <3>1 DEF LeapInv, Asking
      <4> QED BY <1>1, <3>2, <4>1 DEF KernelInv
    <3>5. "UNSYNC" \notin ntp.status
      BY <3>1, <3>2, Synchronised
    <3> QED BY <1>2, <3>3, <3>4, <3>5 DEF adj_ret
  <2>3. UNCHANGED <<Elapsed, ClearedAt, T>> /\ UNCHANGED Preparing
    BY <2>1 DEF Preparing, Elapsed, Leapt, ClearedAt, T, E, Half
  <2> QED BY <1>2, <2>1, <2>2, <2>3 DEF SoundInv, CountInv, SyncInv
<1>6. CASE handler
  <2>1. pc' = "clear1" /\ then' = "exit" /\ interrupted' /\ UNCHANGED iterations
    BY <1>6 DEF handler
  <2> QED BY <1>2, <2>1 DEF SoundInv, CountInv, SyncInv, Preparing
<1> QED BY <1>3, <1>4, <1>5, <1>6

\* The steps before the sleep to the leap.
LEMMA PreparingSound ==
  ASSUME LeapADayAssumption, NtpAssumption, Timely, Sound, TypeOK, ClearInv, IterationInv,
         SoundInv, GetTime \/ SetTime \/ clear_time_state \/ SetLeap \/ Validate
  PROVE  SoundInv'
<1> USE DEF Setting, Waiting, Open, Watching, Ending, Clearing, At
<1>1. /\ T \in Nat /\ E \in Nat /\ E = 2 * next_leap /\ clock.tv_sec \in Nat
      /\ T = 2 * clock.tv_sec + clock.tv_nsec /\ clock.tv_nsec \in {0, 1} /\ late \in Nat
      /\ next_leap \in Nat /\ DAY \in Nat /\ late <= 15
      /\ Spare \in 6 .. 20 /\ Spare >= 5 + MaxLate /\ MaxLate \in Nat /\ late <= MaxLate
  BY Numbers
<1>2. /\ TimeInv /\ LeapInv /\ TimerInv /\ CountInv /\ SyncInv
      /\ ~interrupted => ~error_found /\ exitcode = 0
  BY DEF IterationInv, SoundInv
<1>3. CASE GetTime
  <2>1. /\ UNCHANGED <<timers, iterations, interrupted, error_found, exitcode>>
        /\ pc = "gettime" /\ pc' = IF settime THEN "settime" ELSE "clear1"
    BY <1>3 DEF GetTime
  <2>2. CountInv'
    BY <1>2, <2>1 DEF CountInv
  <2>3. Preparing' /\ pc' # "settime" => ClearedAt' <= T'
    <3> SUFFICES ASSUME ~settime PROVE Preparing' => ClearedAt' <= T'
      BY <2>1
    <3> DEFINE x == clock.tv_sec + (DAY - (clock.tv_sec % DAY))
    <3>1. next_leap' = x /\ T' = T /\ ClearedAt' = 2 * x - 2 * Ahead
      BY <1>3 DEF GetTime, T, E, Half, ClearedAt
    <3>2. DAY \in Nat \ {0} /\ Ahead \in Int
      BY AheadIsInt DEF NtpAssumption
    <3>3. x % DAY = 0 /\ clock.tv_sec < x /\ x <= clock.tv_sec + DAY /\ x \in Nat
      BY <1>1, <3>2, NextMidnight
    <3> HIDE DEF x
    <3>4. x - Ahead <= clock.tv_sec
      <4>1. CASE Iterations = 1
        <5>1. E = 0 /\ DAY - clock.tv_sec <= Ahead /\ T <= E + 2 * DAY - Spare - MaxLate + late
          BY <1>1, <1>2, <2>1, <4>1 DEF SyncInv, TimeInv
        <5>2. DAY - DAY < x /\ x < DAY + DAY /\ DAY % DAY = 0
          BY <1>1, <3>2, <3>3, <5>1
        <5>3. x = DAY
          BY <3>2, <3>3, <5>2, OneMidnight
        <5> QED BY <1>1, <3>2, <5>1, <5>3
      <4>2. CASE Iterations # 1
        BY <1>1, <3>2, <3>3, <4>2 DEF Ahead
      <4> QED BY <4>1, <4>2
    <3>5. 2 * x - 2 * Ahead <= T
      BY <1>1, <3>2, <3>3, <3>4
    <3> QED BY <3>1, <3>5
  <2>4. SyncInv'
    BY <2>1, <2>3 DEF SyncInv
  <2> QED BY <1>2, <2>1, <2>2, <2>4 DEF SoundInv
<1>4. CASE SetTime
  <2>1. /\ UNCHANGED <<timers, localVars>> /\ pc = "settime" /\ pc' = "clear1"
        /\ clock' = [tv_sec |-> next_leap - 10, tv_nsec |-> 0]
    BY <1>4 DEF SetTime
  <2>2. UNCHANGED <<then, iterations, interrupted, error_found, exitcode, next_leap>>
    BY <2>1 DEF localVars
  <2>3. clock'.tv_sec = next_leap - 10 /\ clock'.tv_nsec = 0
    BY <2>1
  <2>4. T' = E - 20 /\ ClearedAt' = E - 20 /\ E - 20 <= E - 20
    <3>1. Ahead = 10
      BY <1>2, <2>1 DEF Ahead, SyncInv
    <3> QED BY <1>1, <2>2, <2>3, <3>1 DEF T, E, Half, ClearedAt
  <2>5. CountInv'
    BY <1>2, <2>1, <2>2 DEF CountInv
  <2>6. SyncInv'
    BY <2>1, <2>4 DEF SyncInv
  <2> QED BY <1>2, <2>2, <2>5, <2>6 DEF SoundInv
<1>5. CASE clear_time_state
  <2>1. /\ UNCHANGED <<clock, timers, leaps, localVars>>
        /\ \/ pc = "clear1" /\ pc' = "clear2"
           \/ pc = "clear2" /\ pc' = "clear3" /\ ntp' = adj_maxerror(ntp, 0)
           \/ pc = "clear3" /\ pc' = then /\ ntp' = adj_status(ntp, {})
    BY <1>5 DEF clear_time_state, sigVars
  <2>2. UNCHANGED <<then, iterations, interrupted, error_found, exitcode, next_leap>>
        /\ then \in {"setleap", "exit"}
    BY <2>1 DEF localVars, TypeOK
  <2>3. UNCHANGED <<Elapsed, ClearedAt, T>>
    BY <2>1, <2>2 DEF Elapsed, Leapt, ClearedAt, T, E, Half
  <2>4. CountInv'
    BY <1>2, <2>1, <2>2 DEF CountInv
  <2>5. Preparing' /\ pc' # "settime" => ClearedAt' <= T'
    BY <1>2, <2>1, <2>2, <2>3 DEF SyncInv, Preparing
  <2>6. CASE pc = "clear1"
    BY <1>2, <2>1, <2>2, <2>4, <2>5, <2>6 DEF SoundInv, SyncInv
  <2>7. CASE pc = "clear2" /\ then = "setleap"
    <3>1. ntp'.maxerror = 0
      <4>1. ntp \in Ntp /\ ntp' = adj_maxerror(ntp, 0)
        BY <2>1, <2>7 DEF TypeOK
      <4> QED BY <4>1, Calls
    <3>2. Preparing /\ leaps = <<>> /\ ClearedAt <= T
      <4>1. Preparing
        BY <2>7 DEF Preparing
      <4> QED BY <1>2, <2>7, <4>1 DEF LeapInv, SyncInv, TimeInv, ClearedAt
    <3>3. 2 * 0 <= Elapsed - ClearedAt + 1 - clock.tv_nsec
      <4>1. Elapsed = T /\ ClearedAt \in Int
        BY <1>1, <3>2, Leaps, AheadIsInt DEF Elapsed, ClearedAt
      <4> QED BY <1>1, <3>2, <4>1
    <3>4. SyncInv'
      BY <2>1, <2>3, <2>5, <2>7, <3>1, <3>3 DEF SyncInv
    <3> QED BY <1>2, <2>2, <2>4, <3>4 DEF SoundInv
  <2>8. CASE pc = "clear3" /\ then = "setleap"
    <3>1. ntp'.maxerror = ntp.maxerror /\ ntp'.status = {}
      <4>1. {} \in SUBSET Flags /\ ntp \in Ntp /\ ntp' = adj_status(ntp, {})
        BY <2>1, <2>8 DEF TypeOK
      <4> QED BY <4>1, Calls
    <3>2. 2 * ntp.maxerror <= Elapsed - ClearedAt + 1 - clock.tv_nsec
      BY <1>2, <2>8 DEF SyncInv
    <3>3. SyncInv'
      BY <2>1, <2>3, <2>5, <2>8, <3>1, <3>2 DEF SyncInv
    <3> QED BY <1>2, <2>2, <2>4, <3>3 DEF SoundInv
  <2>9. CASE pc \in {"clear2", "clear3"} /\ then = "exit"
    BY <1>2, <2>1, <2>2, <2>4, <2>5, <2>9 DEF SoundInv, SyncInv
  <2> QED BY <2>1, <2>2, <2>6, <2>7, <2>8, <2>9
<1>6. CASE SetLeap
  <2>1. /\ UNCHANGED <<clock, timers, leaps, then, iterations, interrupted, error_found, exitcode,
                       next_leap>>
        /\ ntp' = adj_status(ntp, LeapFlag)
        /\ (pc = "setleap" /\ pc' = "validate") \/ (pc = "again" /\ pc' = "watch")
    BY <1>6 DEF SetLeap, sigVars
  <2>2. ntp'.maxerror = ntp.maxerror /\ "UNSYNC" \notin ntp'.status
    <3>1. LeapFlag \in SUBSET Flags /\ "UNSYNC" \notin LeapFlag /\ ntp \in Ntp
      BY DEF TypeOK, LeapFlag, Flags
    <3> QED BY <2>1, <3>1, Calls
  <2>3. UNCHANGED <<Elapsed, ClearedAt, T>>
    BY <2>1 DEF Elapsed, Leapt, ClearedAt, T, E, Half
  <2>4. CountInv'
    BY <1>2, <2>1 DEF CountInv
  <2>5. 2 * ntp.maxerror <= Elapsed - ClearedAt + 1 - clock.tv_nsec
    BY <1>2, <2>1 DEF SyncInv
  <2>6. SyncInv'
    BY <1>2, <2>1, <2>2, <2>3, <2>5 DEF SyncInv, Preparing
  <2> QED BY <1>2, <2>1, <2>4, <2>6 DEF SoundInv
<1>7. CASE Validate
  <2>1. pc = "validate" /\ Asking /\ Preparing /\ T <= E + late
    <3>1. pc = "validate"
      BY <1>7 DEF Validate
    <3>2. Asking /\ Preparing
      BY <3>1 DEF Asking, Preparing
    <3>3. T <= E - Spare + late
      BY <1>2, <3>2 DEF TimeInv
    <3> QED BY <1>1, <3>1, <3>2, <3>3
  <2>2. "UNSYNC" \notin ntp.status
    BY <2>1, Synchronised
  <2>3. StatusIsLeap
    <3>1. /\ "INS" \in ntp.status => Flag = "INS"
          /\ "DEL" \in ntp.status => Flag = "DEL"
          /\ Flag \in ntp.status /\ "PLL" \notin ntp.status
      BY <1>2, <2>1 DEF LeapInv
    <3>2. ntp.status \subseteq {"PLL", "INS", "DEL", "UNSYNC"}
      BY DEF TypeOK, Ntp, Flags
    <3>3. ntp.status = {Flag} /\ Flag \in {"INS", "DEL"}
      BY <2>2, <3>1, <3>2 DEF Flag
    <3> QED BY <3>3 DEF StatusIsLeap
  <2>4. /\ UNCHANGED <<clock, ntp, timers, leaps, then, iterations, interrupted, error_found,
                       exitcode, next_leap>>
        /\ pc' = "create"
    BY <1>7, <2>3 DEF Validate, kernelVars
  <2>5. UNCHANGED <<Elapsed, ClearedAt, T>>
    BY <2>4 DEF Elapsed, Leapt, ClearedAt, T, E, Half
  <2>6. CountInv'
    BY <1>2, <2>1, <2>4 DEF CountInv
  <2>7. SyncInv'
    BY <1>2, <2>1, <2>4, <2>5 DEF SyncInv, Preparing
  <2> QED BY <1>2, <2>4, <2>6, <2>7 DEF SoundInv
<1> QED BY <1>3, <1>4, <1>5, <1>6, <1>7

\* The steps of the watch and of what follows it.
LEMMA WatchingSound ==
  ASSUME LeapADayAssumption, NtpAssumption, Timely, Sound, TypeOK, ClearInv, IterationInv,
         SoundInv,
         CreateTimer \/ ArmTimer \/ Wake \/ Recheck \/ Watch \/ Nap \/ HrStart \/ HrEnd \/ Verdict
  PROVE  SoundInv'
<1> USE DEF Setting, Waiting, Open, Watching, Ending, Clearing, At
<1>1. /\ iterations \in Int /\ timers \in Nat /\ MaxTimers \in Nat /\ missed \in Int
      /\ timers <= MaxTimers /\ T \in Nat
  BY Numbers DEF TypeOK, LeapADayAssumption
<1>2. /\ TimeInv /\ LeapInv /\ TimerInv /\ CountInv /\ SyncInv
      /\ ~interrupted => ~error_found /\ exitcode = 0
  BY DEF IterationInv, SoundInv
<1>3. UNCHANGED <<clock, ntp, leaps, interrupted, next_leap>>
  BY DEF CreateTimer, ArmTimer, Wake, Recheck, Watch, Nap, HrStart, HrEnd, Verdict, kernelVars,
         localVars
<1>4. UNCHANGED <<Elapsed, ClearedAt, T>>
  BY <1>3 DEF Elapsed, Leapt, ClearedAt, T, E, Half
<1>5. CASE CreateTimer
  <2>1. pc = "create" /\ ~interrupted /\ UNCHANGED <<then, iterations, error_found>>
    BY <1>5 DEF CreateTimer, ClearInv
  <2>2. iterations >= 1 /\ timers + iterations <= MaxTimers
    BY <1>2, <2>1 DEF CountInv
  <2>3. timers < MaxTimers
    BY <1>1, <2>2
  <2>4. pc' = "arm" /\ timers' = timers + 1 /\ exitcode' = exitcode
    BY <1>1, <1>5, <2>3 DEF CreateTimer
  <2>5. (timers + 1) + iterations <= MaxTimers + 1
    BY <1>1, <2>2
  <2>6. CountInv'
    BY <1>2, <2>1, <2>2, <2>4, <2>5 DEF CountInv
  <2>7. SyncInv'
    BY <1>2, <1>3, <1>4, <2>1, <2>4 DEF SyncInv, Preparing
  <2> QED BY <1>2, <1>3, <2>1, <2>4, <2>6, <2>7 DEF SoundInv
<1>6. CASE ArmTimer \/ Wake \/ Recheck \/ Watch \/ Nap \/ HrStart
  <2>1. /\ pc \in {"arm", "presleep", "recheck", "watch", "nap", "hrstart"}
        /\ pc' \in {"presleep", "recheck", "again", "watch", "nap", "hrstart", "hrsleep"}
        /\ pc = "hrstart" => pc' = "hrsleep"
        /\ UNCHANGED <<then, timers, iterations, error_found, exitcode>>
    BY <1>6 DEF ArmTimer, Wake, Recheck, Watch, Nap, HrStart, kernelVars, localVars
  <2>2. CountInv'
    BY <1>2, <2>1 DEF CountInv
  <2>3. SyncInv'
    BY <1>2, <1>3, <1>4, <2>1 DEF SyncInv, Preparing
  <2> QED BY <1>2, <1>3, <2>1, <2>2, <2>3 DEF SoundInv
<1>7. CASE HrEnd
  <2>1. /\ pc = "hrsleep" /\ pc' = "verdict" /\ ~Asleep
        /\ UNCHANGED <<then, timers, iterations, exitcode>>
        /\ error_found' = (error_found \/ ~in_order(target, clock))
    BY <1>7 DEF HrEnd, kernelVars
  <2>2. in_order(target, clock)
    <3>1. ~pending /\ ~woken /\ missed = 0
      BY <1>2, <1>7 DEF HrEnd, TimeInv, TimerInv, Sound
    <3>2. Expired(target)
      BY <2>1, <3>1 DEF Asleep
    <3> QED BY <1>1, <3>1, <3>2, Order DEF TypeOK
  <2>3. CountInv' /\ SyncInv'
    BY <1>2, <2>1 DEF CountInv, SyncInv, Preparing
  <2> QED BY <1>2, <1>3, <2>1, <2>2, <2>3 DEF SoundInv
<1>8. CASE Verdict
  <2>1. pc = "verdict" /\ ~interrupted /\ ~error_found /\ UNCHANGED <<timers, error_found>>
    BY <1>2, <1>8 DEF Verdict, ClearInv, kernelVars
  <2>2. iterations >= 1 /\ timers + iterations <= MaxTimers + 1
    BY <1>2, <2>1 DEF CountInv
  <2>3. iterations # -1
    BY <1>1, <2>2
  <2>8. iterations <= Iterations /\ Iterations \in Int
    BY <1>2 DEF CountInv, LeapADayAssumption
  <2>4. /\ pc' = (IF iterations - 1 = 0 THEN "clear1" ELSE "gettime") /\ then' = "exit"
        /\ exitcode' = 0 /\ iterations' = iterations - 1
    BY <1>8, <2>1, <2>3 DEF Verdict
  <2>5. iterations - 1 = 0 \/ (iterations - 1 >= 1 /\ timers + (iterations - 1) <= MaxTimers)
    BY <1>1, <2>2
  <2>9. iterations - 1 <= Iterations /\ (Iterations = 1 => iterations - 1 = 0)
    BY <1>1, <2>2, <2>8
  <2>6. CountInv'
    BY <2>1, <2>4, <2>5, <2>9 DEF CountInv
  <2>7. SyncInv'
    BY <2>4, <2>9 DEF SyncInv, Preparing
  <2> QED BY <1>2, <1>3, <2>1, <2>4, <2>6, <2>7 DEF SoundInv
<1> QED BY <1>5, <1>6, <1>7, <1>8

\* Every step on a sound kernel.
LEMMA StepSound ==
  ASSUME LeapADayAssumption, NtpAssumption, Timely, Sound, TypeOK, ClearInv, IterationInv,
         SoundInv, [Next]_vars
  PROVE  SoundInv'
<1>1. CASE Tick
  <2>1. UNCHANGED <<pc, then, timers, iterations, interrupted, error_found, exitcode>>
    BY <1>1 DEF Tick
  <2> QED BY <1>1, <2>1, TickSync DEF SoundInv, CountInv
<1>2. CASE Expire \/ Interfere \/ sigalarm \/ handler
  BY <1>2, SignalSound
<1>3. CASE Main
  BY <1>3, PreparingSound, WatchingSound DEF Main
<1>4. CASE UNCHANGED vars
  BY <1>4 DEF SoundInv, CountInv, SyncInv, Preparing, Elapsed, Leapt, ClearedAt, T, E, Half, vars,
              kernelVars, localVars
<1> QED BY <1>1, <1>2, <1>3, <1>4 DEF Next

\* On a kernel without the bugs the test looks for, leap-a-day reports none: its
\* own settimeofday and the error estimate that grows while it waits do not
\* look like one, and it does not run out of timers.
THEOREM SoundKernelsPass ==
  ASSUME LeapADayAssumption, NtpAssumption, Timely, Sound
  PROVE  Spec => []NoFalseError
<1>1. Init => SoundInv
  BY InitSound
<1>2. TypeOK /\ ClearInv /\ IterationInv /\ SoundInv /\ [Next]_vars => SoundInv'
  BY StepSound
<1>3. SoundInv => NoFalseError
  BY DEF SoundInv, NoFalseError
<1> QED BY <1>1, <1>2, <1>3, IterationInvariant, PTL DEF Spec
===============================================================================
