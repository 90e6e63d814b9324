------------------------------ MODULE AlarmsProofs ------------------------------
(***************************************************************************)
(* The safety properties of the programs that measure how late the kernel    *)
(* wakes them, one section for each, for all periods, limits, delays, clocks  *)
(* and counts.  The last section puts them together: the properties of        *)
(* Alarms itself.                                                          *)
(***************************************************************************)
EXTENDS Alarms, TLAPS

-------------------------------------------------------------------------------
(* What both programs with timers have in common: their handlers compare the *)
(* clock with the number of alarms that they have counted.                   *)

\* When the last expiry was due, the alarms raised so far, and when the last of
\* those was due, as sigalarm has it.
Last     == expiry - PERIOD
Raised   == IF pending THEN alarmcount + 1 ELSE alarmcount
Ticks(n) == PERIOD * n
Counted  == start_time + Ticks(Raised)

\* Periods add up.
LEMMA Periods ==
  /\ PERIOD \in Nat /\ PERIOD > 0 /\ MaxLate \in Nat
  /\ UNREASONABLE_LATENCY \in Nat /\ UNREASONABLE_LATENCY > 0
  /\ UNREASONABLE_LATENCY <= PERIOD
  /\ MaxClock \in Nat /\ MaxClock > 24 * PERIOD + 7 * MaxLate /\ SLEEP \in Nat
  /\ UNREASONABLE_LAT \in Nat /\ UNREASONABLE_LAT < PERIOD
  /\ \A n \in Int : Ticks(n) \in Int /\ Ticks(n + 1) = Ticks(n) + PERIOD
  /\ Ticks(0) = 0
<1>1. Timing("slow")!SetTimerLatAssumption /\ Suspending("unarmed")!AlarmtimerSuspendAssumption
      /\ MaxClock > 24 * PERIOD + 7 * MaxLate
  BY AlarmsAssumption DEF AlarmsAssumption, Timings, Suspensions
<1>2. /\ PERIOD \in Nat /\ PERIOD > 0 /\ MaxLate \in Nat
      /\ UNREASONABLE_LATENCY \in Nat /\ UNREASONABLE_LATENCY > 0
      /\ UNREASONABLE_LATENCY <= PERIOD
  BY <1>1 DEF Timing!SetTimerLatAssumption
<1>3. /\ MaxClock \in Nat /\ SLEEP \in Nat
      /\ UNREASONABLE_LAT \in Nat /\ UNREASONABLE_LAT < PERIOD
  BY <1>1 DEF Suspending!AlarmtimerSuspendAssumption
<1>4. \A n \in Int : Ticks(n) \in Int /\ Ticks(n + 1) = Ticks(n) + PERIOD
  BY <1>2 DEF Ticks
<1>5. Ticks(0) = 0
  BY <1>2 DEF Ticks
<1> QED
  BY <1>1, <1>2, <1>3, <1>4, <1>5

\* Fewer alarms take less time.
LEMMA TicksOrder ==
  ASSUME NEW m \in Int, NEW n \in Int, m <= n
  PROVE  Ticks(m) <= Ticks(n)
<1>1. n - m \in Nat /\ PERIOD \in Nat
  BY Periods
<1>2. PERIOD * (n - m) >= 0
  BY <1>1
<1>3. Ticks(n) = Ticks(m) + PERIOD * (n - m)
  BY <1>1 DEF Ticks
<1>4. Ticks(m) \in Int /\ PERIOD * (n - m) \in Int
  BY <1>1 DEF Ticks
<1> QED
  BY <1>2, <1>3, <1>4

\* As many periods as go into a time.
LEMMA PeriodsIn ==
  ASSUME NEW m \in Nat, NEW n \in Int, Ticks(n) <= m
  PROVE  n <= m \div PERIOD
<1> DEFINE q == m \div PERIOD
<1>1. PERIOD \in Nat /\ PERIOD > 0
  BY Periods
<1>2. q \in Int /\ m < PERIOD * (q + 1)
  BY <1>1
<1> HIDE DEF q
<1>3. m < Ticks(q + 1) /\ Ticks(q + 1) \in Int /\ Ticks(n) \in Int
  BY <1>1, <1>2 DEF Ticks
<1>4. q + 1 <= n => Ticks(q + 1) <= Ticks(n)
  BY <1>2, TicksOrder
<1>5. n <= q
  BY <1>2, <1>3, <1>4
<1> QED
  BY <1>5 DEF q

-------------------------------------------------------------------------------
(* set-timer-lat: the nominal time of the last expiry (Last) and that of the  *)
(* last alarm counted (Counted) are apart by the periods of the overruns,    *)
(* and for a relative timer by the time it took to arm it (ExpiryInv).  So   *)
(* what sigalarm measures is the delay of the last expiry plus a period for  *)
(* every overrun (LatencyInv).                                              *)

InLoop == pc \in {"wait", "delete"}

TimingTypes ==
  /\ clock \in Nat /\ expiry \in Nat /\ pending \in BOOLEAN
  /\ pc \in {"create", "start", "arm", "wait", "delete", "verdict", "exit"} /\ run \in Nat
  /\ alarmcount \in Nat /\ start_time \in Nat /\ max_latency_ns \in Nat
  /\ ret \in BOOLEAN /\ late \in 0 .. MaxLate
  /\ worst \in Nat /\ merged \in BOOLEAN /\ early \in BOOLEAN /\ armlag \in Nat

\* Only a timer that is armed can have a signal pending.
SignalInv ==
  /\ InLoop <=> expiry # 0
  /\ pending => InLoop

\* What the time until the timer was armed adds to its latency.
ArmingCost(s) == IF Timing(s)!ABSTIME(run) THEN 0 ELSE armlag

ExpiryInv(s) ==
  InLoop =>
    /\ clock - expiry <= late
    /\ Last <= clock + 1 /\ (s \notin FiresEarly => Last <= clock)
    /\ Counted <= Last
    /\ merged => Counted + PERIOD <= Last
    /\ ~merged => Counted + ArmingCost(s) = Last

\* What CreateTimer has reset is still so when the timer is armed.
FreshInv ==
  /\ pc \in {"start", "arm"} =>
       alarmcount = 0 /\ max_latency_ns = 0 /\ worst = 0 /\ ~merged
  /\ pc = "arm" => start_time <= clock /\ clock - start_time <= late

\* An overrun, seen by the alarm that follows it, shows as a period of latency.
OverrunsCount(s) == s \in FiresEarly => UNREASONABLE_LATENCY < PERIOD

LatencyInv(s) ==
  /\ worst <= max_latency_ns
  /\ OverrunsCount(s) /\ merged /\ ~pending => max_latency_ns >= UNREASONABLE_LATENCY
  /\ pc \notin {"create", "exit"} /\ ~merged => max_latency_ns <= worst + ArmingCost(s)

\* Where the ticks of delay have gone once five alarms have come.
TimingDelayInv ==
  /\ InLoop /\ Raised >= 5 => clock - Last + Ticks(Raised - 5) <= late
  /\ alarmcount >= 5 => Ticks(alarmcount - 5) <= late + 1

TimingInv(s) ==
  /\ TimingTypes /\ SignalInv /\ ExpiryInv(s) /\ FreshInv /\ LatencyInv(s) /\ TimingDelayInv

-------------------------------------------------------------------------------
\* Nothing is armed and nothing has been measured.
LEMMA TimingStarts == ASSUME NEW s PROVE Timing(s)!Init => TimingInv(s)
<1> SUFFICES ASSUME Timing(s)!Init PROVE TimingInv(s)
  OBVIOUS
<1>1. 0 \in 0 .. MaxLate /\ 0 \in Nat
  BY Periods
<1>3. TimingTypes
  BY <1>1 DEF Timing!Init, TimingTypes
<1>2. SignalInv /\ ExpiryInv(s) /\ FreshInv /\ LatencyInv(s) /\ TimingDelayInv
  BY DEF Timing!Init, SignalInv, ExpiryInv, FreshInv, LatencyInv, TimingDelayInv, InLoop
<1> QED
  BY <1>2, <1>3 DEF TimingInv

\* What the model's derived quantities are.
LEMMA TimingNumbers ==
  ASSUME TimingTypes
  PROVE  /\ Raised \in Nat /\ Last \in Int /\ Counted \in Int
         /\ Ticks(Raised - 5) \in Int /\ Ticks(alarmcount - 5) \in Int
         /\ pending => Raised = alarmcount + 1
         /\ ~pending => Raised = alarmcount
BY Periods DEF TimingTypes, Raised, Last, Counted

\* The delay of a tick is accounted for unless the program is asleep for the timer.
LEMMA TimingTick ==
  ASSUME NEW s, TimingInv(s), Timing(s)!Tick
  PROVE  TimingInv(s)'
<1> USE Periods, TimingNumbers DEF TimingInv, TimingTypes, ArmingCost, Timing!ABSTIME
<1>1. /\ clock' = clock + 1 /\ late' \in 0 .. MaxLate /\ late <= late'
      /\ ~Timing(s)!Sleeping => late' = late + 1
      /\ UNCHANGED <<expiry, pending, pc, run, alarmcount, max_latency_ns, start_time, ret,
                     worst, merged, early, armlag>>
  BY DEF Timing!Tick, Timing!handlerVars, Timing!history
<1>2. TimingTypes' /\ SignalInv' /\ LatencyInv(s)'
  BY <1>1 DEF SignalInv, LatencyInv, InLoop
<1>3. FreshInv'
  BY <1>1 DEF FreshInv, Timing!Sleeping
<1>4. Raised' = Raised /\ Last' = Last /\ Counted' = Counted /\ InLoop' = InLoop
  BY <1>1 DEF Raised, Last, InLoop, Counted
<1>5. ExpiryInv(s)'
  <2>1. InLoop => clock' <= expiry
    BY <1>1 DEF Timing!Tick, Timing!Overdue, SignalInv
  <2> QED
    BY <1>1, <1>4, <2>1 DEF ExpiryInv
<1>6. TimingDelayInv'
  <2>1. InLoop /\ Raised >= 5 => late' = late + 1
    BY <1>1 DEF Timing!Sleeping, InLoop, Raised
  <2> QED
    BY <1>1, <1>4, <2>1 DEF TimingDelayInv
<1> QED
  BY <1>2, <1>3, <1>5, <1>6

\* An expiry moves Last on by a period, and Counted too unless it is an overrun.
LEMMA TimingExpire ==
  ASSUME NEW s, TimingInv(s), Timing(s)!Expire
  PROVE  TimingInv(s)'
<1> USE Periods, TimingNumbers DEF TimingInv, TimingTypes, ArmingCost, Timing!ABSTIME
<1>1. /\ expiry # 0 /\ clock >= expiry - 1 /\ (s \notin FiresEarly => clock >= expiry)
      /\ expiry' = expiry + PERIOD /\ pending' = TRUE /\ merged' = (merged \/ pending)
      /\ UNCHANGED <<clock, pc, run, alarmcount, max_latency_ns, start_time, ret, late,
                     worst, early, armlag>>
  BY DEF Timing!Expire, Timing!Overdue, Timing!handlerVars
<1>2. InLoop /\ InLoop'
  BY <1>1 DEF SignalInv, InLoop
<1>3. TimingTypes' /\ SignalInv' /\ FreshInv' /\ LatencyInv(s)'
  BY <1>1, <1>2 DEF SignalInv, FreshInv, LatencyInv, InLoop
<1>4. Last' = expiry /\ Last' = Last + PERIOD /\ clock - Last' <= late
  BY <1>1, <1>2 DEF Last, ExpiryInv
<1>5. CASE pending
  <2>1. Raised' = Raised /\ Counted' = Counted
    BY <1>1, <1>5 DEF Raised, Counted
  <2>2. merged' /\ Counted' + PERIOD <= Last'
    <3>1. merged'
      BY <1>1, <1>5
    <3>2. Counted <= Last
      BY <1>2 DEF ExpiryInv
    <3> QED
      BY <1>4, <2>1, <3>1, <3>2
  <2>3. ExpiryInv(s)'
    BY <1>1, <1>2, <1>4, <2>1, <2>2 DEF ExpiryInv
  <2>4. TimingDelayInv'
    BY <1>1, <1>2, <1>4, <2>1 DEF TimingDelayInv
  <2> QED
    BY <1>3, <2>3, <2>4
<1>6. CASE ~pending
  <2>1. Raised' = Raised + 1
    BY <1>1, <1>6 DEF Raised
  <2>2. Counted' = Counted + PERIOD
    BY <1>1, <2>1 DEF Counted
  <2>3. ExpiryInv(s)'
    BY <1>1, <1>2, <1>4, <1>6, <2>2 DEF ExpiryInv
  <2>4. Raised >= 5 => Ticks(Raised' - 5) = Ticks(Raised - 5) + PERIOD
    <3>1. Raised' - 5 = (Raised - 5) + 1 /\ Raised - 5 \in Int
      BY <2>1
    <3> QED
      BY <3>1
  <2>5. Raised < 5 /\ Raised' >= 5 => Ticks(Raised' - 5) = 0
    <3>1. Raised < 5 /\ Raised' >= 5 => Raised' - 5 = 0
      BY <2>1
    <3> QED
      BY <3>1
  <2>6. TimingDelayInv'
    <3>1. Raised >= 5 => clock - Last + Ticks(Raised - 5) <= late
      BY <1>2 DEF TimingDelayInv
    <3>2. Raised' >= 5 => clock - Last' + Ticks(Raised' - 5) <= late
      BY <1>4, <2>1, <2>4, <2>5, <3>1
    <3> QED
      BY <1>1, <3>2 DEF TimingDelayInv
  <2> QED
    BY <1>3, <2>3, <2>6
<1> QED
  BY <1>5, <1>6

\* What the handler measures is how late the last expiry was, a period more for
\* every overrun and, after a relative arming, the time between start_time and it.
LEMMA TimingHandler ==
  ASSUME NEW s, TimingInv(s), Timing(s)!sigalarm
  PROVE  TimingInv(s)'
<1> USE Periods, TimingNumbers DEF TimingInv, TimingTypes, ArmingCost, Timing!ABSTIME
<1> DEFINE delta_ns == clock - start_time - PERIOD * (alarmcount + 1)
<1>1. /\ pending /\ pending' = FALSE /\ alarmcount' = alarmcount + 1
      /\ delta_ns > max_latency_ns => max_latency_ns' = delta_ns
      /\ ~(delta_ns > max_latency_ns) => max_latency_ns' = max_latency_ns
      /\ early' \in BOOLEAN
      /\ UNCHANGED <<clock, expiry, pc, run, start_time, ret, late, merged, armlag>>
  BY DEF Timing!sigalarm
<1>2. InLoop /\ InLoop' /\ expiry # 0
  BY <1>1 DEF SignalInv, InLoop
<1>3. /\ clock - Last > worst => worst' = clock - Last
      /\ ~(clock - Last > worst) => worst' = worst
  BY <1>2 DEF Timing!sigalarm, Last
<1>4. Raised' = Raised /\ Last' = Last /\ Counted' = Counted
  BY <1>1 DEF Last, Raised, Counted
<1>5. delta_ns = clock - Counted
  BY <1>1 DEF Counted, Ticks
<1> HIDE DEF delta_ns
<1>6. SignalInv' /\ FreshInv'
  BY <1>1, <1>2 DEF SignalInv, FreshInv, InLoop
<1>7. ExpiryInv(s)'
  BY <1>1, <1>2, <1>4 DEF ExpiryInv
<1>8. delta_ns \in Int /\ max_latency_ns' \in Nat /\ worst' \in Nat
      /\ max_latency_ns' >= delta_ns /\ max_latency_ns' >= max_latency_ns
      /\ worst' >= clock - Last /\ worst' >= worst
  BY <1>1, <1>3, <1>5
<1>9. TimingTypes'
  BY <1>1, <1>8
<1>10. LatencyInv(s)'
  <2>1. clock - Last <= delta_ns /\ (~merged => delta_ns = clock - Last + ArmingCost(s))
    BY <1>2, <1>5 DEF ExpiryInv
  <2>2. OverrunsCount(s) /\ merged => delta_ns >= UNREASONABLE_LATENCY
    BY <1>2, <1>5, Periods DEF ExpiryInv, OverrunsCount
  <2>3. worst' <= max_latency_ns'
    BY <1>3, <1>8, <2>1 DEF LatencyInv
  <2>4. OverrunsCount(s) /\ merged' => max_latency_ns' >= UNREASONABLE_LATENCY
    BY <1>1, <1>8, <2>2
  <2>5. pc \notin {"create", "exit"} /\ ~merged => max_latency_ns' <= worst' + ArmingCost(s)
    <3>1. ArmingCost(s) \in Nat
      OBVIOUS
    <3>2. pc \notin {"create", "exit"} /\ ~merged => max_latency_ns <= worst + ArmingCost(s)
      BY DEF LatencyInv
    <3> HIDE DEF ArmingCost
    <3> QED
      BY <1>1, <1>8, <2>1, <3>1, <3>2
  <2> QED
    BY <1>1, <2>3, <2>4, <2>5 DEF LatencyInv, OverrunsCount
<1>11. TimingDelayInv'
  <2>1. alarmcount' = Raised
    BY <1>1
  <2>2. Raised >= 5 => Ticks(Raised - 5) <= late + 1
    BY <1>2 DEF TimingDelayInv, ExpiryInv
  <2> QED
    BY <1>1, <1>2, <1>4, <2>1, <2>2 DEF TimingDelayInv
<1> QED
  BY <1>6, <1>7, <1>9, <1>10, <1>11

\* Where do_timer returns.
LEMMA TimingReturns ==
  ASSUME NEW s, NEW from, Timing(s)!Return(from)
  PROVE  /\ pc = from /\ pc' \in {"create", "exit"} /\ ~pending /\ run' = run + 1
BY DEF Timing!Return, Timing!At

\* While no timer is armed little is asked for.
LEMMA TimingUnarmed ==
  ASSUME NEW s, TimingTypes', expiry' = 0, ~pending',
         pc' \notin {"wait", "delete", "start", "arm"}, LatencyInv(s)', TimingDelayInv'
  PROVE  TimingInv(s)'
BY DEF TimingInv, SignalInv, ExpiryInv, FreshInv, InLoop

\* main resets what sigalarm and the verdict go by before every timer, and has no
\* signal in flight whenever it goes on.
LEMMA TimingMain ==
  ASSUME NEW s, TimingInv(s), Timing(s)!Main
  PROVE  TimingInv(s)'
<1> USE Periods, TimingNumbers DEF TimingInv, TimingTypes, ArmingCost, Timing!ABSTIME
<1>1. CASE Timing(s)!CreateTimer
  <2>1. /\ pc = "create" /\ ~pending
        /\ (pc' = "start" /\ run' = run) \/ (pc' \in {"create", "exit"} /\ run' = run + 1)
    BY <1>1, TimingReturns DEF Timing!CreateTimer, Timing!At
  <2>2. expiry = 0
    BY <2>1 DEF SignalInv, InLoop
  <2>3. /\ alarmcount' = 0 /\ max_latency_ns' = 0 /\ late' = 0 /\ worst' = 0
        /\ merged' = FALSE /\ early' = FALSE /\ armlag' = 0
        /\ UNCHANGED <<clock, expiry, pending, start_time>>
    BY <1>1 DEF Timing!CreateTimer, Timing!kernelVars
  <2>4. ret' \in BOOLEAN
    BY <1>1 DEF Timing!CreateTimer
  <2>5. TimingTypes'
    <3>1. 0 \in 0 .. MaxLate /\ 0 \in Nat
      OBVIOUS
    <3>2. pc' \in {"create", "start", "exit"} /\ run' \in Nat
      BY <2>1
    <3> QED
      BY <2>3, <2>4, <3>1, <3>2
  <2>6. SignalInv' /\ ExpiryInv(s)' /\ FreshInv' /\ LatencyInv(s)' /\ TimingDelayInv'
    BY <2>1, <2>2, <2>3 DEF SignalInv, ExpiryInv, FreshInv, LatencyInv, TimingDelayInv, InLoop
  <2> QED
    BY <2>5, <2>6
<1>2. CASE Timing(s)!GetStart
  <2>1. /\ pc = "start" /\ pc' = "arm" /\ ~pending /\ expiry = 0 /\ start_time' = clock
        /\ UNCHANGED <<clock, expiry, pending, run, alarmcount, max_latency_ns, ret, late,
                       worst, merged, early, armlag>>
    BY <1>2
    DEF Timing!GetStart, Timing!At, Timing!kernelVars, Timing!handlerVars, Timing!history,
        SignalInv, InLoop
  <2>2. TimingTypes'
    BY <2>1
  <2>3. SignalInv' /\ ExpiryInv(s)' /\ FreshInv' /\ LatencyInv(s)' /\ TimingDelayInv'
    BY <2>1 DEF SignalInv, ExpiryInv, FreshInv, LatencyInv, TimingDelayInv, InLoop
  <2> QED
    BY <2>2, <2>3
<1>3. CASE Timing(s)!ArmTimer
  <2>1. /\ pc = "arm" /\ ~pending /\ expiry = 0
        /\ UNCHANGED <<clock, pending, alarmcount, max_latency_ns, start_time, late,
                       worst, merged, early>>
    BY <1>3, TimingReturns
    DEF Timing!ArmTimer, Timing!At, Timing!handlerVars, Timing!history, SignalInv, InLoop
  <2>2. ASSUME pc' = "wait", UNCHANGED <<run, ret>>, NEW base \in {start_time, clock},
               base = IF Timing(s)!ABSTIME(run) THEN start_time ELSE clock,
               expiry' = base + PERIOD, armlag' = clock - start_time
        PROVE  TimingInv(s)'
    <3>1. Last' = base /\ base \in Nat /\ InLoop'
      BY <2>2 DEF Last, InLoop
    <3>2. Raised' = 0 /\ Counted' = start_time
      BY <2>1 DEF Raised, Counted, FreshInv
    <3>3. expiry' \in Nat /\ expiry' # 0
      BY <2>2, <3>1
    <3>4. TimingTypes' /\ SignalInv' /\ FreshInv' /\ LatencyInv(s)'
      BY <2>1, <2>2, <3>3 DEF SignalInv, FreshInv, LatencyInv, InLoop
    <3>5. start_time <= base /\ base <= clock /\ clock - start_time <= late /\ ~merged'
      <4>1. start_time <= clock /\ clock - start_time <= late /\ ~merged'
        BY <2>1 DEF FreshInv
      <4>2. base = start_time \/ base = clock
        BY <2>2
      <4> QED
        BY <4>1, <4>2
    <3>6. ExpiryInv(s)'
      BY <2>1, <2>2, <3>1, <3>2, <3>5 DEF ExpiryInv
    <3>7. TimingDelayInv'
      BY <2>1, <2>2, <3>2 DEF FreshInv, TimingDelayInv
    <3> QED
      BY <3>4, <3>6, <3>7
  <2>3. CASE pc' \in {"create", "exit"} /\ run' = run + 1 /\ ret' = TRUE
               /\ expiry' = expiry /\ armlag' = armlag
    <3>1. TimingTypes'
      BY <2>1, <2>3
    <3>2. LatencyInv(s)' /\ TimingDelayInv'
      BY <2>1, <2>3 DEF FreshInv, LatencyInv, TimingDelayInv, InLoop
    <3> QED
      BY <2>1, <2>3, <3>1, <3>2, TimingUnarmed
  <2> QED
    BY <1>3, <2>2, <2>3, TimingReturns DEF Timing!ArmTimer, Timing!At
<1>4. CASE Timing(s)!PrintLatency
  <2>1. /\ pc = "wait" /\ pc' = "delete"
        /\ UNCHANGED <<clock, expiry, pending, run, alarmcount, max_latency_ns, start_time, ret,
                       late, worst, merged, early, armlag>>
    BY <1>4
    DEF Timing!PrintLatency, Timing!At, Timing!kernelVars, Timing!handlerVars, Timing!history
  <2>2. InLoop /\ InLoop' /\ Last' = Last /\ Raised' = Raised /\ Counted' = Counted
    BY <2>1 DEF InLoop, Last, Raised, Counted
  <2>3. TimingTypes' /\ SignalInv' /\ FreshInv' /\ LatencyInv(s)'
    BY <2>1, <2>2 DEF SignalInv, FreshInv, LatencyInv
  <2>4. ExpiryInv(s)' /\ TimingDelayInv'
    BY <2>1, <2>2 DEF ExpiryInv, TimingDelayInv
  <2> QED
    BY <2>3, <2>4
<1>5. CASE Timing(s)!DeleteTimer
  <2>1. /\ pc = "delete" /\ pc' = "verdict" /\ ~pending /\ expiry' = 0
        /\ UNCHANGED <<clock, pending, run, alarmcount, max_latency_ns, start_time, ret,
                       late, worst, merged, early, armlag>>
    BY <1>5 DEF Timing!DeleteTimer, Timing!At, Timing!handlerVars, Timing!history
  <2>2. TimingTypes' /\ LatencyInv(s)' /\ TimingDelayInv'
    BY <2>1 DEF LatencyInv, TimingDelayInv, InLoop
  <2> QED
    BY <2>1, <2>2, TimingUnarmed
<1>6. CASE Timing(s)!Verdict
  <2>1. /\ pc = "verdict" /\ pc' \in {"create", "exit"} /\ ~pending /\ run' = run + 1
        /\ UNCHANGED <<clock, expiry, pending, alarmcount, max_latency_ns, start_time, late,
                       worst, merged, early, armlag>>
    BY <1>6, TimingReturns
    DEF Timing!Verdict, Timing!kernelVars, Timing!handlerVars, Timing!history
  <2>2. ret' \in BOOLEAN /\ expiry = 0
    BY <1>6, <2>1 DEF Timing!Verdict, SignalInv, InLoop
  <2>3. TimingTypes'
    BY <2>1, <2>2
  <2>4. LatencyInv(s)' /\ TimingDelayInv'
    BY <2>1 DEF LatencyInv, TimingDelayInv, InLoop
  <2> QED
    BY <2>1, <2>2, <2>3, <2>4, TimingUnarmed
<1> QED
  BY <1>1, <1>2, <1>3, <1>4, <1>5, <1>6 DEF Timing!Main

\* Every step keeps the invariant.
LEMMA TimingSteps ==
  ASSUME NEW s
  PROVE  TimingInv(s) /\ [Timing(s)!Next]_(Timing(s)!vars) => TimingInv(s)'
<1> SUFFICES ASSUME TimingInv(s), [Timing(s)!Next]_(Timing(s)!vars) PROVE TimingInv(s)'
  OBVIOUS
<1>1. CASE UNCHANGED Timing(s)!vars
  BY <1>1
  DEF Timing!vars, Timing!kernelVars, Timing!handlerVars, Timing!history, TimingInv,
      TimingTypes, SignalInv, ExpiryInv, FreshInv, LatencyInv, TimingDelayInv, InLoop, Last,
      Raised, Counted, ArmingCost, Timing!ABSTIME
<1> QED
  BY <1>1, TimingTick, TimingExpire, TimingHandler, TimingMain DEF Timing!Next

\* The inductive invariant of set-timer-lat, for every period and delay.
THEOREM TimingInvariant == ASSUME NEW s PROVE Timing(s)!Spec => []TimingInv(s)
BY TimingStarts, TimingSteps, PTL DEF Timing!Spec

-------------------------------------------------------------------------------
(* What the invariant says of the properties.                              *)

\* The invariant of set-timer-lat bounds its alarms.
LEMMA TimingBounds ==
  ASSUME NEW s
  PROVE  TimingInv(s) => Timing(s)!TypeOK
<1> SUFFICES ASSUME TimingInv(s) PROVE alarmcount \in 0 .. Timing(s)!MaxAlarms
  BY DEF TimingInv, TimingTypes, Timing!TypeOK
<1>1. alarmcount \in Nat /\ (alarmcount >= 5 => Ticks(alarmcount - 5) <= MaxLate + 1)
  BY Periods DEF TimingInv, TimingTypes, TimingDelayInv
<1>2. Timing(s)!MaxAlarms \in Nat /\ Timing(s)!MaxAlarms >= 5
  BY Periods DEF Timing!MaxAlarms
<1>3. MaxLate + 1 \in Nat /\ alarmcount - 5 \in Int
  BY <1>1, Periods
<1>4. alarmcount >= 5 => alarmcount - 5 <= (MaxLate + 1) \div PERIOD
  BY <1>1, <1>3, PeriodsIn
<1> QED
  BY <1>1, <1>2, <1>4, Periods DEF Timing!MaxAlarms

\* TimingTypes; in particular the alarms of one timer are bounded by its delays.
THEOREM TimingTypesHold == ASSUME NEW s PROVE Timing(s)!Spec => []Timing(s)!TypeOK
BY TimingBounds, TimingInvariant, PTL

\* ... and shows every late alarm.
LEMMA LateAlarmsShow ==
  ASSUME NEW s, OverrunsCount(s)
  PROVE  TimingInv(s) => Timing(s)!LateAlarmFails
BY Periods DEF TimingInv, TimingTypes, SignalInv, LatencyInv, Timing!LateAlarmFails, InLoop

\* No late or lost alarm is missed, on a kernel whose timers fire a tick early
\* too: there an overrun may cost a tick less than a period.
THEOREM NoLateAlarmIsMissed ==
  ASSUME NEW s, OverrunsCount(s)
  PROVE  Timing(s)!Spec => []Timing(s)!LateAlarmFails
BY LateAlarmsShow, TimingInvariant, PTL

\* What is taken for latency is how late an alarm was handled and, for a relative timer
\* alone, how late it was armed.
THEOREM LatencyIsOfDelays ==
  ASSUME NEW s PROVE  Timing(s)!Spec => []Timing(s)!OnlyLatenessFails
<1>1. TimingInv(s) => Timing(s)!OnlyLatenessFails
  BY DEF TimingInv, LatencyInv, Timing!OnlyLatenessFails, ArmingCost, Timing!ABSTIME
<1> QED
  BY <1>1, TimingInvariant, PTL

\* No alarm of one timer is counted for the next.
THEOREM AlarmsStayWithTheirTimer ==
  ASSUME NEW s PROVE  Timing(s)!Spec => []Timing(s)!NoStaleAlarm
<1>1. TimingInv(s) => Timing(s)!NoStaleAlarm
  BY DEF TimingInv, SignalInv, Timing!NoStaleAlarm, InLoop
<1> QED
  BY <1>1, TimingInvariant, PTL

-------------------------------------------------------------------------------
(* alarmtimer-suspend: what sigalarm measures is how late the last expiry    *)
(* was and a period for every expiry that was merged since the timer was     *)
(* armed (CountInv), so a lost alarm shows in the one that follows it         *)
(* (FailInv).  The program waits for few alarms; all others have taken a      *)
(* period of delay each (AwaitedInv), which bounds the alarms and the clock,  *)
(* and shows that no clock is done before the machine has been suspended for *)
(* it.                                                                    *)

\* The clocks of alarmtimer-suspend.
TwoClocks == {8, 9}

\* The states in which the alarms of one clock come.
Running == {"first", "loop", "sleep", "system", "suspended", "delete"}

Armed == expiry # 0

SuspendingTypes ==
  /\ clock \in Nat /\ expiry \in Nat /\ pending \in BOOLEAN
  /\ pc \in {"create", "start", "arm", "exit"} \cup Running
  /\ alarm_clock_id \in Int /\ wake \in Nat /\ alarmcount \in Nat /\ start_time \in Nat
  /\ final_ret \in BOOLEAN /\ merged \in BOOLEAN /\ refused \in BOOLEAN
  /\ late \in 0 .. MaxLate /\ worst \in Nat /\ suspended \subseteq TwoClocks

\* Whoever has left the first loop has a timer; no timer, no signal.
AlarmInv ==
  /\ Armed => pc \in Running
  /\ pc \in Running \ {"first"} => Armed
  /\ pending => Armed
  /\ pc \in {"start", "arm"} \/ (pc = "first" /\ ~Armed) => alarmcount = 0
  /\ pc = "sleep" => alarmcount < 10

\* The last alarm counted was due at the last expiry, or periods before it if
\* expiries were merged; and no longer ago than what the delays account for.
CountInv ==
  /\ pc = "arm" => start_time <= clock /\ clock - start_time <= late
  /\ Armed =>
       /\ Counted <= Last /\ Last <= clock /\ Last - Counted <= late
       /\ clock - expiry <= late
       /\ clock - Counted <= late + (IF pending THEN 0 ELSE PERIOD)
       /\ ~merged => Counted = Last

\* A late alarm has failed the program, and a lost one has or is about to.
FailInv ==
  /\ worst > UNREASONABLE_LAT => final_ret
  /\ merged => final_ret \/ (pending /\ Counted + PERIOD <= Last)
  /\ final_ret => merged \/ worst > UNREASONABLE_LAT

\* The alarms that may have come while the program waited: those that come on top
\* have taken a period of delay each.
Awaited == CASE pc = "first" -> 5 [] pc \in {"sleep", "system"} -> 10 [] OTHER -> 11

AwaitedInv ==
  /\ Armed /\ Raised >= Awaited /\ (pc = "suspended" => pending) =>
       Ticks(Raised - Awaited) + (clock - Last) <= late
  /\ pc = "suspended" /\ ~pending /\ Raised >= 10 =>
       /\ Ticks(Raised - 10) <= late
       /\ Ticks(Raised - 10) + (clock - expiry) <= late
  /\ pc = "loop" /\ alarm_clock_id \notin suspended /\ Raised >= 5 =>
       Ticks(Raised - 5) + (clock - Last) <= late
  /\ ~Armed /\ alarmcount >= 11 => Ticks(alarmcount - 11) <= late

\* How late the test of a clock begins, and the clock then.
Begin == IF alarm_clock_id = 8 THEN MaxLate ELSE 12 * PERIOD + 4 * MaxLate

ClockInv ==
  /\ pc = "create" /\ alarm_clock_id = 8 => clock <= late
  /\ pc = "create" /\ alarm_clock_id # 8 => clock <= 12 * PERIOD + 2 * MaxLate + 2 * late
  /\ pc \in {"start", "arm"} \/ (pc = "first" /\ ~Armed) => clock <= Begin + late
  /\ pc \in {"arm"} \cup Running => start_time <= Begin + late
  /\ pc = "exit" => clock <= 24 * PERIOD + 7 * MaxLate

\* The delays are too short for the alarms of the suspends to come before them.
Prompt == MaxLate < 5 * PERIOD

SuspendInv ==
  /\ alarm_clock_id \in TwoClocks \/ (alarm_clock_id = 10 /\ pc = "exit")
  /\ pc = "suspended" => alarm_clock_id \in suspended
  /\ Prompt /\ ~refused =>
       /\ \A id \in TwoClocks : id < alarm_clock_id => id \in suspended
       /\ pc = "delete" => alarm_clock_id \in suspended
       /\ pc = "exit" => alarm_clock_id = 10

SuspendingInv ==
  /\ SuspendingTypes /\ AlarmInv /\ CountInv /\ FailInv /\ AwaitedInv /\ ClockInv /\ SuspendInv

-------------------------------------------------------------------------------
\* Nothing is armed and nothing has been measured.
LEMMA SuspendingStarts == ASSUME NEW s PROVE Suspending(s)!Init => SuspendingInv
<1> SUFFICES ASSUME Suspending(s)!Init PROVE SuspendingInv
  OBVIOUS
<1>1. 0 \in 0 .. MaxLate /\ 0 \in Nat
  BY Periods
<1>2. SuspendingTypes
  <2>1. pc \in {"create", "start", "arm", "exit"} \cup Running /\ suspended \subseteq TwoClocks
    BY DEF Suspending!Init
  <2>2. /\ clock \in Nat /\ expiry \in Nat /\ alarm_clock_id \in Int /\ wake \in Nat
        /\ alarmcount \in Nat /\ start_time \in Nat /\ late \in 0 .. MaxLate /\ worst \in Nat
    BY <1>1 DEF Suspending!Init
  <2>3. pending \in BOOLEAN /\ final_ret \in BOOLEAN /\ merged \in BOOLEAN /\ refused \in BOOLEAN
    BY DEF Suspending!Init
  <2> QED
    BY <2>1, <2>2, <2>3 DEF SuspendingTypes
<1>3. AlarmInv /\ CountInv /\ FailInv /\ AwaitedInv
  BY Periods DEF Suspending!Init, AlarmInv, CountInv, FailInv, AwaitedInv, Armed, Running
<1>4. ClockInv /\ SuspendInv
  BY DEF Suspending!Init, ClockInv, SuspendInv, Running, TwoClocks
<1> QED
  BY <1>2, <1>3, <1>4 DEF SuspendingInv

\* What is a number.
Natural ==
  /\ {clock, expiry, alarmcount, start_time, late, worst, Raised, Begin} \subseteq Nat
  /\ {Last, Counted} \subseteq Int
  /\ Awaited \in {5, 10, 11}
  /\ pending => Raised = alarmcount + 1
  /\ ~pending => Raised = alarmcount

\* What the types say of the variables, as numbers.
LEMMA SuspendingNumbers ==
  ASSUME SuspendingTypes
  PROVE  Natural
<1>1. Raised \in Nat
  BY DEF SuspendingTypes, Raised
<1>2. Awaited \in {5, 10, 11}
  BY DEF Awaited
<1>3. Begin \in Nat
  BY Periods DEF Begin
<1>4. Last \in Int /\ Counted \in Int
  BY <1>1, Periods DEF SuspendingTypes, Last, Counted
<1>5. clock \in Nat /\ expiry \in Nat /\ alarmcount \in Nat /\ start_time \in Nat /\ late \in Nat
      /\ worst \in Nat /\ pending \in BOOLEAN
  BY Periods DEF SuspendingTypes
<1>6. (pending => Raised = alarmcount + 1) /\ (~pending => Raised = alarmcount)
  BY DEF Raised
<1> QED
  BY <1>1, <1>2, <1>3, <1>4, <1>5, <1>6 DEF Natural

\* A tick of delay is accounted for; one that is none ends at the expiry.
LEMMA SuspendingTick ==
  ASSUME NEW s, SuspendingInv, Suspending(s)!Tick
  PROVE  SuspendingInv'
<1>n. SuspendingTypes /\ Natural
  BY SuspendingNumbers DEF SuspendingInv
<1> USE <1>n, Periods DEF SuspendingInv, Natural
<1>1. /\ clock' = clock + 1 /\ late' \in 0 .. MaxLate /\ late <= late'
      /\ late' = late \/ late' = late + 1
      /\ ~Suspending(s)!Waiting => late' = late + 1
      /\ Armed => clock + 1 <= expiry
      /\ pc # "exit"
      /\ UNCHANGED <<expiry, pending, pc, alarm_clock_id, wake, alarmcount, final_ret, start_time,
                     worst, merged, suspended, refused>>
  BY DEF SuspendingTypes, Suspending!Tick, Suspending!Overdue, Armed, Suspending!handlerVars,
     Suspending!history
<1>2. /\ Raised' = Raised /\ Last' = Last /\ Counted' = Counted /\ Armed' = Armed
      /\ Awaited' = Awaited /\ Begin' = Begin
  BY <1>1 DEF Raised, Last, Armed, Counted, Awaited, Begin
<1>3. SuspendingTypes' /\ AlarmInv' /\ SuspendInv' /\ FailInv'
  <2>1. SuspendingTypes'
    BY <1>1 DEF SuspendingTypes
  <2>2. AlarmInv' /\ FailInv'
    BY <1>1, <1>2 DEF AlarmInv, FailInv
  <2>3. SuspendInv'
    BY <1>1 DEF SuspendInv
  <2> QED
    BY <2>1, <2>2, <2>3
<1>4. CountInv'
  <2>1. pc = "arm" => late' = late + 1
    BY <1>1 DEF Suspending!Waiting
  <2>2. Armed /\ pending => late' = late + 1
    BY <1>1 DEF Suspending!Waiting
  <2>3. Armed => clock' <= expiry /\ Last <= clock' /\ Last - Counted <= late'
                 /\ Counted <= Last /\ clock' - expiry <= late'
    BY <1>1 DEF CountInv
  <2>4. Armed /\ ~pending => clock' - Counted <= late' + PERIOD
    <3>1. Armed => clock + 1 - Counted <= late + PERIOD
      BY <1>1 DEF CountInv, Last
    <3> QED
      BY <1>1, <3>1
  <2>5. Armed /\ pending => clock' - Counted <= late'
    BY <1>1, <2>2 DEF CountInv
  <2> QED
    BY <1>1, <1>2, <2>1, <2>3, <2>4, <2>5 DEF CountInv
<1>5. AwaitedInv'
  <2>1. Armed /\ Raised >= Awaited /\ (pc = "suspended" => pending) => late' = late + 1
    BY <1>1 DEF AlarmInv, Running, Suspending!Waiting, Awaited, Raised
  <2>2. pc = "suspended" /\ ~pending => Armed
    BY DEF AlarmInv, Running
  <2>3. pc = "loop" => late' = late + 1
    BY <1>1 DEF Suspending!Waiting
  <2>4. pc' = "suspended" /\ ~pending' /\ Raised' >= 10 =>
          /\ Ticks(Raised' - 10) <= late'
          /\ Ticks(Raised' - 10) + (clock' - expiry') <= late'
    BY <1>1, <1>2, <2>2 DEF AwaitedInv
  <2>5. Armed' /\ Raised' >= Awaited' /\ (pc' = "suspended" => pending') =>
          Ticks(Raised' - Awaited') + (clock' - Last') <= late'
    BY <1>1, <1>2, <2>1 DEF AwaitedInv
  <2>6. pc' = "loop" /\ alarm_clock_id' \notin suspended' /\ Raised' >= 5 =>
          Ticks(Raised' - 5) + (clock' - Last') <= late'
    BY <1>1, <1>2, <2>3 DEF AwaitedInv
  <2>7. ~Armed' /\ alarmcount' >= 11 => Ticks(alarmcount' - 11) <= late'
    BY <1>1, <1>2 DEF AwaitedInv
  <2> QED
    BY <2>4, <2>5, <2>6, <2>7 DEF AwaitedInv
<1>6. ClockInv'
  <2>1. pc \in {"create", "start", "arm"} \/ (pc = "first" /\ ~Armed) => late' = late + 1
    BY <1>1 DEF Suspending!Waiting, Armed
  <2> QED
    BY <1>1, <1>2, <2>1 DEF ClockInv
<1> QED
  BY <1>3, <1>4, <1>5, <1>6

\* An expiry moves Last on by a period, and Counted too unless it is merged.
LEMMA SuspendingExpire ==
  ASSUME NEW s, SuspendingInv, Suspending(s)!Expire
  PROVE  SuspendingInv'
<1>n. SuspendingTypes /\ Natural
  BY SuspendingNumbers DEF SuspendingInv
<1> USE <1>n, Periods DEF SuspendingInv, Natural
<1>1. /\ Armed /\ Armed' /\ clock >= expiry
      /\ expiry' = expiry + PERIOD /\ pending' = TRUE /\ merged' = (merged \/ pending)
      /\ UNCHANGED <<clock, pc, alarm_clock_id, wake, alarmcount, final_ret, start_time, late,
                     worst, suspended, refused>>
  BY DEF Suspending!Expire, Suspending!Overdue, Suspending!handlerVars, Armed
<1>2. /\ Last' = expiry /\ Last' = Last + PERIOD /\ Awaited' = Awaited /\ Begin' = Begin
      /\ Raised' = alarmcount + 1
  BY <1>1 DEF Last, Awaited, Begin, Raised
<1>3. pc \in Running
  BY <1>1 DEF AlarmInv
<1>4. SuspendingTypes' /\ AlarmInv' /\ ClockInv' /\ SuspendInv'
  <2>1. SuspendingTypes'
    BY <1>1 DEF SuspendingTypes
  <2>2. AlarmInv'
    BY <1>1, <1>3 DEF AlarmInv
  <2>3. ClockInv'
    BY <1>1, <1>2 DEF ClockInv
  <2>4. SuspendInv'
    BY <1>1 DEF SuspendInv
  <2> QED
    BY <2>1, <2>2, <2>3, <2>4
<1>5. CASE pending
  <2>1. Raised' = Raised /\ Counted' = Counted
    BY <1>1, <1>2, <1>5 DEF Counted
  <2>2. Counted <= Last /\ clock - Counted <= late
    BY <1>1, <1>5 DEF CountInv
  <2>3. /\ Counted + PERIOD <= Last + PERIOD /\ Last + PERIOD <= clock
        /\ Last + PERIOD - Counted <= late
        /\ clock - (expiry + PERIOD) <= late
    <3>1. expiry = Last + PERIOD
      BY DEF Last
    <3>2. clock - expiry <= late
      BY <1>1 DEF CountInv
    <3> QED
      BY <1>1, <2>2, <3>1, <3>2
  <2>4. CountInv'
    <3>1. pc' # "arm" /\ merged'
      BY <1>1, <1>3, <1>5 DEF Running
    <3>2. Counted' <= Last'
      BY <1>2, <2>1, <2>3
    <3> QED
      BY <1>1, <1>2, <2>1, <2>2, <2>3, <3>1, <3>2 DEF CountInv
  <2>6. FailInv'
    <3>1. Counted' + PERIOD <= Last'
      BY <1>2, <2>1, <2>3
    <3> QED
      BY <1>1, <3>1 DEF FailInv
  <2>5. AwaitedInv'
    BY <1>1, <1>2, <1>5, <2>1 DEF AwaitedInv
  <2> QED
    BY <1>4, <2>4, <2>5, <2>6
<1>6. CASE ~pending
  <2>1. Raised' = Raised + 1 /\ Counted' = Counted + PERIOD
    <3>1. Raised' = Raised + 1
      BY <1>2, <1>6
    <3>2. Ticks(Raised') = Ticks(Raised) + PERIOD
      BY <3>1
    <3> QED
      BY <1>1, <3>1, <3>2 DEF Counted
  <2>2. CountInv'
    <3>1. /\ Counted + PERIOD <= Last + PERIOD /\ Last + PERIOD <= clock
          /\ Last - Counted <= late /\ clock - (Counted + PERIOD) <= late
          /\ clock - (expiry + PERIOD) <= late /\ (~merged => Counted = Last)
      BY <1>1, <1>6 DEF CountInv, Last
    <3>2. pc' # "arm" /\ (~merged' => ~merged)
      BY <1>1, <1>3 DEF Running
    <3>3. Counted' <= Last' /\ Last' <= clock /\ Last' - Counted' <= late
          /\ clock - Counted' <= late /\ (~merged => Counted' = Last')
      BY <1>2, <2>1, <3>1
    <3> QED
      BY <1>1, <1>2, <3>1, <3>2, <3>3 DEF CountInv
  <2>3. FailInv'
    BY <1>1, <1>6 DEF FailInv
  <2>4. clock - Last' <= late
    BY <1>1, <1>2 DEF CountInv
  <2>5. ASSUME NEW n \in Nat, Raised' >= n, Raised >= n => Ticks(Raised - n) + (clock - Last) <= late
        PROVE  Ticks(Raised' - n) + (clock - Last') <= late
    <3>1. CASE Raised >= n
      <4>0. Raised - n \in Int
        OBVIOUS
      <4>1. Raised' - n = (Raised - n) + 1
        BY <2>1, <4>0
      <4>2. Ticks(Raised' - n) = Ticks(Raised - n) + PERIOD
        BY <4>0, <4>1
      <4> QED
        BY <1>2, <2>5, <3>1, <4>0, <4>2
    <3>2. CASE ~(Raised >= n)
      <4>1. Raised' - n = 0
        BY <2>1, <2>5, <3>2
      <4>2. Ticks(Raised' - n) = 0
        BY <4>1
      <4> QED
        BY <1>2, <2>4, <4>2
    <3> QED
      BY <3>1, <3>2
  <2>6. CASE pc = "suspended"
    <3>1. Awaited = 11
      BY <2>6 DEF Awaited
    <3>2. Raised >= 10 => Ticks(Raised' - 11) + (clock - Last') <= late
      <4>1. Raised' - 11 = Raised - 10
        BY <2>1
      <4> QED
        BY <1>2, <1>6, <2>6, <4>1 DEF AwaitedInv
    <3> QED
      BY <1>1, <1>2, <1>4, <2>1, <2>2, <2>3, <2>6, <3>1, <3>2 DEF AwaitedInv
  <2>7. CASE pc # "suspended"
    <3>1. Raised' >= Awaited => Ticks(Raised' - Awaited) + (clock - Last') <= late
      BY <1>1, <2>5, <2>7 DEF AwaitedInv
    <3>2. pc = "loop" /\ alarm_clock_id \notin suspended /\ Raised' >= 5 =>
            Ticks(Raised' - 5) + (clock - Last') <= late
      BY <2>5, <2>7 DEF AwaitedInv
    <3>3. AwaitedInv'
      BY <1>1, <1>2, <2>7, <3>1, <3>2 DEF AwaitedInv
    <3> QED
      BY <1>4, <2>2, <2>3, <3>3
  <2> QED
    BY <2>6, <2>7
<1> QED
  BY <1>5, <1>6

\* What the handler measures is how late the last expiry was, and a period more
\* for every one that was merged.
LEMMA SuspendingHandler ==
  ASSUME NEW s, SuspendingInv, Suspending(s)!sigalarm
  PROVE  SuspendingInv'
<1>n. SuspendingTypes /\ Natural
  BY SuspendingNumbers DEF SuspendingInv
<1> USE <1>n, Periods DEF SuspendingInv, Natural
<1> DEFINE delta_ns == clock - start_time - PERIOD * (alarmcount + 1)
<1>1. /\ pending /\ pc \notin {"suspended", "exit"} /\ pending' = FALSE
      /\ alarmcount' = alarmcount + 1
      /\ final_ret' = (final_ret \/ delta_ns > UNREASONABLE_LAT)
      /\ pc' = IF pc = "sleep" THEN "system" ELSE pc
      /\ UNCHANGED <<clock, expiry, alarm_clock_id, wake, start_time, late, merged, suspended,
                     refused>>
  BY DEF SuspendingTypes, Suspending!sigalarm, Suspending!timespec_sub
<1>2. Armed /\ Armed' /\ pc \in Running /\ pc' \in Running
  BY <1>1 DEF AlarmInv, Armed, Running
<1>3. /\ clock - Last > worst => worst' = clock - Last
      /\ ~(clock - Last > worst) => worst' = worst
  BY DEF SuspendingTypes, Suspending!sigalarm, Last
<1>4. Raised' = Raised /\ Last' = Last /\ Counted' = Counted /\ Awaited' = Awaited /\ Begin' = Begin
  <2>1. Raised' = Raised /\ Last' = Last /\ Begin' = Begin
    BY <1>1 DEF Last, Raised, Begin
  <2>2. Awaited' = Awaited
    BY <1>1 DEF Awaited
  <2> QED
    BY <1>1, <2>1, <2>2 DEF Counted
<1>5. delta_ns = clock - Counted
  BY <1>1 DEF Counted, Ticks
<1> HIDE DEF delta_ns
<1>6. /\ worst' \in Nat /\ worst' >= clock - Last /\ worst' >= worst
      /\ worst' > UNREASONABLE_LAT => worst > UNREASONABLE_LAT \/ clock - Last > UNREASONABLE_LAT
  BY <1>2, <1>3 DEF CountInv
<1>7. SuspendingTypes'
  <2>1. alarmcount' \in Nat /\ final_ret' \in BOOLEAN /\ pc' \in Running
    BY <1>1, <1>2 DEF SuspendingTypes
  <2> QED
    BY <1>1, <1>6, <2>1 DEF SuspendingTypes
<1>8. AlarmInv'
  <2>1. pc \notin {"start", "arm"}
    BY <1>2 DEF Running
  <2>2. pc' # "sleep" /\ pc' \notin {"start", "arm"}
    BY <1>1, <2>1
  <2> QED
    BY <1>1, <1>2, <2>2 DEF AlarmInv
<1>9. CountInv'
  <2>1. pc' # "arm"
    BY <1>2 DEF Running
  <2> QED
    BY <1>1, <1>2, <1>4, <2>1 DEF CountInv
<1>10. FailInv'
  <2>1. clock - Last <= delta_ns /\ (~merged => delta_ns = clock - Last)
    BY <1>2, <1>5 DEF CountInv
  <2>2. merged => final_ret'
    <3>1. merged /\ ~final_ret => Counted + PERIOD <= Last /\ Last <= clock
      BY <1>2 DEF FailInv, CountInv
    <3>2. merged /\ ~final_ret => delta_ns > UNREASONABLE_LAT
      BY <1>5, <3>1
    <3> QED
      BY <1>1, <3>2
  <2>3. worst' > UNREASONABLE_LAT => final_ret'
    <3>1. clock - Last > UNREASONABLE_LAT => delta_ns > UNREASONABLE_LAT
      BY <1>5, <2>1
    <3>2. worst > UNREASONABLE_LAT => final_ret
      BY DEF FailInv
    <3> QED
      BY <1>1, <1>6, <3>1, <3>2
  <2>4. final_ret' => merged' \/ worst' > UNREASONABLE_LAT
    <3>1. delta_ns > UNREASONABLE_LAT /\ ~merged => worst' > UNREASONABLE_LAT
      BY <1>5, <1>6, <2>1
    <3>2. worst > UNREASONABLE_LAT => worst' > UNREASONABLE_LAT
      BY <1>6
    <3> QED
      BY <1>1, <3>1, <3>2 DEF FailInv
  <2> QED
    BY <1>1, <2>2, <2>3, <2>4 DEF FailInv
<1>11. AwaitedInv'
  <2>1. Raised >= Awaited => Ticks(Raised - Awaited) + (clock - Last) <= late
    BY <1>1, <1>2 DEF AwaitedInv
  <2>2. pc' # "suspended" /\ (pc' = "loop" => pc = "loop")
    BY <1>1
  <2> QED
    BY <1>1, <1>2, <1>4, <2>1, <2>2 DEF AwaitedInv
<1>12. ClockInv'
  <2>1. pc' \notin {"create", "start", "arm", "exit"}
    BY <1>2 DEF Running
  <2> QED
    BY <1>1, <1>2, <1>4, <2>1 DEF ClockInv
<1>13. SuspendInv'
  BY <1>1, <1>2 DEF SuspendInv, Running, SuspendingTypes
<1> QED
  BY <1>7, <1>8, <1>9, <1>10, <1>11, <1>12, <1>13

\* Raised less some are that much time less.
LEMMA Shifts ==
  ASSUME NEW n \in Int
  PROVE  /\ Ticks(n) = Ticks(n - 11) + 11 * PERIOD
         /\ Ticks(n - 10) = Ticks(n - 11) + PERIOD
         /\ Ticks(n - 5) = Ticks(n - 10) + 5 * PERIOD
         /\ Ticks(11) = 11 * PERIOD /\ Ticks(5) = 5 * PERIOD
         /\ {Ticks(n), Ticks(n - 5), Ticks(n - 10), Ticks(n - 11)} \subseteq Int
BY Periods DEF Ticks

\* A step that moves the armed program on and touches neither clock nor alarms.
LEMMA SuspendingMove ==
  ASSUME SuspendingInv, Armed, pc' \in Running,
         pc' = "sleep" => alarmcount < 10,
         UNCHANGED <<clock, expiry, pending, alarm_clock_id, alarmcount, final_ret, start_time,
                     late, worst, merged>>,
         wake' \in Nat, refused' \in BOOLEAN, suspended' \subseteq TwoClocks,
         AwaitedInv', SuspendInv'
  PROVE  SuspendingInv'
<1>1. Raised' = Raised /\ Last' = Last /\ Counted' = Counted /\ Armed' /\ Begin' = Begin
  BY DEF Raised, Last, Counted, Armed, Begin
<1>2. SuspendingTypes'
  BY DEF SuspendingInv, SuspendingTypes
<1>3. pc' \notin {"create", "start", "arm", "exit"} /\ pc \in Running
  BY DEF SuspendingInv, AlarmInv, Running
<1>4. AlarmInv'
  BY <1>1, <1>3 DEF SuspendingInv, AlarmInv
<1>5. CountInv'
  BY <1>1, <1>3 DEF SuspendingInv, CountInv
<1>6. FailInv'
  BY <1>1 DEF SuspendingInv, FailInv
<1>7. ClockInv'
  BY <1>1, <1>3 DEF SuspendingInv, ClockInv
<1> QED
  BY <1>2, <1>4, <1>5, <1>6, <1>7 DEF SuspendingInv

\* The machine resumes with the delays of its alarms accounted for.
LEMMA SuspendingResume ==
  ASSUME NEW s, SuspendingInv, Suspending(s)!Resume \/ Suspending(s)!WakeUp
  PROVE  SuspendingInv'
<1>n. SuspendingTypes /\ Natural
  BY SuspendingNumbers DEF SuspendingInv
<1> USE <1>n, Periods DEF SuspendingInv, Natural
<1>1. /\ pc = "suspended" /\ pc' = "loop"
      /\ UNCHANGED <<clock, expiry, pending, alarm_clock_id, wake, alarmcount, final_ret,
                     start_time, late, worst, merged, suspended, refused>>
  BY DEF Suspending!Resume, Suspending!WakeUp, Suspending!kernelVars, Suspending!handlerVars,
     Suspending!history
<1>2. Armed /\ pc' \in Running
  BY <1>1 DEF AlarmInv, Running
<1>3. Raised' = Raised /\ Last' = Last /\ Armed' = Armed /\ Awaited' = 11 /\ Awaited = 11
  BY <1>1 DEF Raised, Last, Armed, Awaited
<1>4. Raised >= 11 => Ticks(Raised - 11) + (clock - Last) <= late
  <2>1. CASE pending
    BY <1>1, <1>2, <1>3, <2>1 DEF AwaitedInv
  <2>2. CASE ~pending
    <3>1. Raised >= 10 => Ticks(Raised - 10) + (clock - expiry) <= late
      BY <1>1, <2>2 DEF AwaitedInv
    <3>2. Ticks(Raised - 10) = Ticks(Raised - 11) + PERIOD /\ Ticks(Raised - 11) \in Int
      BY Shifts, Raised \in Int
    <3> QED
      BY <3>1, <3>2 DEF Last
  <2> QED
    BY <2>1, <2>2
<1>5. alarm_clock_id \in suspended
  BY <1>1 DEF SuspendInv
<1>6. AwaitedInv'
  BY <1>1, <1>2, <1>3, <1>4, <1>5 DEF AwaitedInv
<1>7. SuspendInv'
  BY <1>1 DEF SuspendInv
<1>8. wake' \in Nat /\ refused' \in BOOLEAN /\ suspended' \subseteq TwoClocks
  BY <1>1 DEF SuspendingTypes
<1> QED
  BY <1>1, <1>2, <1>6, <1>7, <1>8, SuspendingMove

\* The first five alarms; the program leaves their loop with none pending.
LEMMA SuspendingFirst ==
  ASSUME NEW s, SuspendingInv, Suspending(s)!First
  PROVE  SuspendingInv'
<1>n. SuspendingTypes /\ Natural
  BY SuspendingNumbers DEF SuspendingInv
<1> USE <1>n, Periods DEF SuspendingInv, Natural
<1>1. /\ pc = "first" /\ pc' = "loop" /\ ~pending /\ alarmcount >= 5
      /\ UNCHANGED <<clock, expiry, pending, alarm_clock_id, wake, alarmcount, final_ret,
                     start_time, late, worst, merged, suspended, refused>>
  BY DEF Suspending!First, Suspending!At, Suspending!kernelVars, Suspending!handlerVars,
     Suspending!history
<1>2. Armed /\ pc' \in Running
  BY <1>1 DEF AlarmInv, Running
<1>3. Raised' = Raised /\ Last' = Last /\ Awaited' = 11 /\ Awaited = 5
  BY <1>1 DEF Raised, Last, Awaited
<1>4. Raised >= 5 /\ Ticks(Raised - 5) + (clock - Last) <= late
  BY <1>1, <1>2, <1>3 DEF AwaitedInv
<1>5. Ticks(Raised - 11) + (clock - Last) <= late
  <2>1. /\ Ticks(Raised - 10) = Ticks(Raised - 11) + PERIOD /\ Ticks(Raised - 11) \in Int
        /\ Ticks(Raised - 5) = Ticks(Raised - 10) + 5 * PERIOD
    BY Shifts, Raised \in Int
  <2> QED
    BY <1>4, <2>1
<1>6. AwaitedInv'
  BY <1>1, <1>2, <1>3, <1>4, <1>5 DEF AwaitedInv, Armed
<1>7. SuspendInv'
  BY <1>1 DEF SuspendInv
<1>8. wake' \in Nat /\ refused' \in BOOLEAN /\ suspended' \subseteq TwoClocks
  BY <1>1 DEF SuspendingTypes
<1> QED
  BY <1>1, <1>2, <1>6, <1>7, <1>8, SuspendingMove

\* The suspend loop ends once it has suspended: the delays are too short for ten
\* alarms to come before.
LEMMA SuspendingLoop ==
  ASSUME NEW s, SuspendingInv, Suspending(s)!Loop
  PROVE  SuspendingInv'
<1>n. SuspendingTypes /\ Natural
  BY SuspendingNumbers DEF SuspendingInv
<1> USE <1>n, Periods DEF SuspendingInv, Natural
<1>1. /\ pc = "loop" /\ ~pending
      /\ \/ alarmcount < 10 /\ pc' = "sleep"
         \/ alarmcount >= 10 /\ pc' = "delete"
      /\ wake' \in Nat
      /\ UNCHANGED <<clock, expiry, pending, alarm_clock_id, alarmcount, final_ret,
                     start_time, late, worst, merged, suspended, refused>>
  <2>1. clock + SLEEP \in Nat /\ wake \in Nat
    BY DEF SuspendingTypes
  <2> QED
    BY <2>1
    DEF Suspending!Loop, Suspending!At, Suspending!kernelVars, Suspending!handlerVars,
        Suspending!history
<1>2. Armed /\ pc' \in Running
  BY <1>1 DEF AlarmInv, Running
<1>3. Raised' = Raised /\ Raised = alarmcount /\ Last' = Last /\ Awaited = 11
  BY <1>1 DEF Raised, Last, Awaited
<1>4. AwaitedInv'
  <2>1. CASE pc' = "sleep"
    <3>1. Awaited' = 10 /\ Raised < 10
      BY <1>1, <1>3, <2>1 DEF Awaited
    <3> QED
      BY <1>1, <1>2, <1>3, <2>1, <3>1 DEF AwaitedInv, Armed
  <2>2. CASE pc' = "delete"
    <3>1. Awaited' = 11
      BY <2>2 DEF Awaited
    <3> QED
      BY <1>1, <1>2, <1>3, <2>2, <3>1 DEF AwaitedInv, Armed
  <2> QED
    BY <1>1, <2>1, <2>2
<1>5. SuspendInv'
  <2>1. Prompt /\ alarmcount >= 10 => alarm_clock_id \in suspended
    <3> SUFFICES ASSUME Prompt, alarmcount >= 10, alarm_clock_id \notin suspended PROVE FALSE
      OBVIOUS
    <3>1. Ticks(Raised - 5) + (clock - Last) <= late
      BY <1>1, <1>3 DEF AwaitedInv
    <3>2. Ticks(5) <= Ticks(Raised - 5) /\ Ticks(5) = 5 * PERIOD /\ Ticks(Raised - 5) \in Int
      <4>1. 5 <= Raised - 5 /\ Raised - 5 \in Int /\ Raised \in Int
        BY <1>3
      <4>2. Ticks(5) <= Ticks(Raised - 5)
        BY <4>1, TicksOrder
      <4> QED
        BY <4>1, <4>2, Shifts
    <3>3. Last <= clock /\ late <= MaxLate
      BY <1>2 DEF CountInv, SuspendingTypes
    <3> QED
      BY <3>1, <3>2, <3>3 DEF Prompt
  <2> QED
    BY <1>1, <2>1 DEF SuspendInv, Prompt
<1>6. refused' \in BOOLEAN /\ suspended' \subseteq TwoClocks
  BY <1>1 DEF SuspendingTypes
<1> QED
  BY <1>1, <1>2, <1>4, <1>5, <1>6, SuspendingMove

\* The sleep before a suspend.
LEMMA SuspendingSleep ==
  ASSUME NEW s, SuspendingInv, Suspending(s)!Sleep
  PROVE  SuspendingInv'
<1>n. SuspendingTypes /\ Natural
  BY SuspendingNumbers DEF SuspendingInv
<1> USE <1>n, Periods DEF SuspendingInv, Natural
<1>1. /\ pc = "sleep" /\ pc' = "system"
      /\ UNCHANGED <<clock, expiry, pending, alarm_clock_id, wake, alarmcount, final_ret,
                     start_time, late, worst, merged, suspended, refused>>
  BY DEF Suspending!Sleep, Suspending!At, Suspending!kernelVars, Suspending!handlerVars,
     Suspending!history
<1>2. Armed /\ pc' \in Running
  BY <1>1 DEF AlarmInv, Running
<1>3. Raised' = Raised /\ Last' = Last /\ Awaited' = Awaited
  BY <1>1 DEF Raised, Last, Awaited
<1>4. AwaitedInv'
  BY <1>1, <1>2, <1>3 DEF AwaitedInv, Armed
<1>5. SuspendInv'
  BY <1>1 DEF SuspendInv
<1>6. wake' \in Nat /\ refused' \in BOOLEAN /\ suspended' \subseteq TwoClocks
  BY <1>1 DEF SuspendingTypes
<1> QED
  BY <1>1, <1>2, <1>4, <1>5, <1>6, SuspendingMove

\* The machine is suspended with no alarm pending, or refuses.
LEMMA SuspendingSystem ==
  ASSUME NEW s, SuspendingInv, Suspending(s)!System
  PROVE  SuspendingInv'
<1>n. SuspendingTypes /\ Natural
  BY SuspendingNumbers DEF SuspendingInv
<1> USE <1>n, Periods DEF SuspendingInv, Natural
<1>1. /\ pc = "system" /\ ~pending
      /\ \/ /\ pc' = "suspended" /\ refused' = refused
            /\ suspended' = suspended \cup {alarm_clock_id}
         \/ pc' = "delete" /\ refused' = TRUE /\ suspended' = suspended
      /\ UNCHANGED <<clock, expiry, pending, alarm_clock_id, wake, alarmcount, final_ret,
                     start_time, late, worst, merged>>
  BY DEF Suspending!System, Suspending!At, Suspending!kernelVars, Suspending!handlerVars
<1>2. Armed /\ pc' \in Running /\ Last <= clock
  BY <1>1 DEF AlarmInv, Running, CountInv
<1>3. Raised' = Raised /\ Raised = alarmcount /\ Last' = Last /\ Awaited = 10 /\ Awaited' = 11
  BY <1>1 DEF Raised, Last, Awaited
<1>4. Raised >= 10 => Ticks(Raised - 10) + (clock - Last) <= late
  BY <1>1, <1>2, <1>3 DEF AwaitedInv
<1>5. Ticks(Raised - 10) = Ticks(Raised - 11) + PERIOD /\ Ticks(Raised - 11) \in Int
  BY Shifts, Raised \in Int
<1>6. AwaitedInv'
  <2>1. Raised >= 10 => Ticks(Raised - 10) <= late /\ Ticks(Raised - 10) + (clock - expiry) <= late
    BY <1>2, <1>4, <1>5 DEF Last
  <2>2. Raised >= 11 => Ticks(Raised - 11) + (clock - Last) <= late
    BY <1>4, <1>5
  <2> QED
    BY <1>1, <1>2, <1>3, <2>1, <2>2 DEF AwaitedInv, Armed
<1>7. SuspendInv'
  BY <1>1 DEF SuspendInv, TwoClocks
<1>8. wake' \in Nat /\ refused' \in BOOLEAN /\ suspended' \subseteq TwoClocks
  <2>1. alarm_clock_id \in TwoClocks
    BY <1>1 DEF SuspendInv
  <2> QED
    BY <1>1, <2>1 DEF SuspendingTypes
<1> QED
  BY <1>1, <1>2, <1>6, <1>7, <1>8, SuspendingMove

\* What an unarmed program has to keep.
LEMMA SuspendingUnarmed ==
  ASSUME SuspendingInv, SuspendingTypes', expiry' = 0, ~pending',
         pc' \in {"create", "start", "exit"},
         UNCHANGED <<final_ret, merged, worst>>, merged => final_ret,
         pc' = "start" => alarmcount' = 0,
         alarmcount' >= 11 => Ticks(alarmcount' - 11) <= late',
         ClockInv', SuspendInv'
  PROVE  SuspendingInv'
<1>1. ~Armed'
  BY DEF Armed
<1>2. AlarmInv' /\ CountInv'
  BY <1>1 DEF AlarmInv, CountInv, Running
<1>3. FailInv'
  BY DEF SuspendingInv, FailInv
<1>4. AwaitedInv'
  BY <1>1 DEF AwaitedInv
<1> QED
  BY <1>2, <1>3, <1>4 DEF SuspendingInv

\* The timer is deleted: what the test of a clock has taken.
LEMMA SuspendingDelete ==
  ASSUME NEW s, SuspendingInv, Suspending(s)!DeleteTimer
  PROVE  SuspendingInv'
<1>n. SuspendingTypes /\ Natural
  BY SuspendingNumbers DEF SuspendingInv
<1> USE <1>n, Periods DEF SuspendingInv, Natural
<1>1. /\ pc = "delete" /\ ~pending /\ expiry' = 0
      /\ pc' = (IF alarm_clock_id + 1 \in TwoClocks THEN "create" ELSE "exit")
      /\ alarm_clock_id' = alarm_clock_id + 1
      /\ UNCHANGED <<clock, pending, wake, alarmcount, final_ret, start_time, late, worst, merged,
                     suspended, refused>>
  BY DEF Suspending!DeleteTimer, Suspending!At, Suspending!handlerVars, Suspending!history,
     Suspending!AlarmClocks, TwoClocks
<1>2. Armed /\ Raised = alarmcount /\ Awaited = 11 /\ pc \in Running
  BY <1>1 DEF AlarmInv, Running, Raised, Awaited
<1>3. \/ alarm_clock_id = 8 /\ pc' = "create" /\ alarm_clock_id' = 9
      \/ alarm_clock_id = 9 /\ pc' = "exit" /\ alarm_clock_id' = 10
  BY <1>1 DEF SuspendInv, TwoClocks
<1>4. SuspendingTypes'
  BY <1>1, <1>3 DEF SuspendingTypes
<1>5. Last <= clock /\ clock - Counted <= late + PERIOD /\ (~merged => Counted = Last)
  BY <1>1, <1>2 DEF CountInv
<1>6. alarmcount >= 11 => Ticks(alarmcount - 11) + (clock - Last) <= late
  BY <1>1, <1>2 DEF AwaitedInv
<1>7. /\ Ticks(alarmcount) = Ticks(alarmcount - 11) + 11 * PERIOD
      /\ Ticks(alarmcount - 11) \in Int /\ Ticks(11) = 11 * PERIOD
  BY Shifts, alarmcount \in Int
<1>8. Ticks(alarmcount) <= 11 * PERIOD + late
  <2>1. CASE alarmcount >= 11
    BY <1>5, <1>6, <1>7, <2>1
  <2>2. CASE ~(alarmcount >= 11)
    <3>1. alarmcount <= 11 /\ alarmcount \in Int /\ 11 \in Int
      BY <2>2
    <3>2. Ticks(alarmcount) <= Ticks(11)
      BY <3>1, TicksOrder
    <3> QED
      BY <1>7, <3>2
  <2> QED
    BY <2>1, <2>2
<1>9. start_time <= Begin + late /\ late <= MaxLate
  BY <1>2 DEF ClockInv, SuspendingTypes
<1>10. clock <= Begin + 12 * PERIOD + MaxLate + 2 * late
  <2>1. Counted = start_time + Ticks(alarmcount)
    BY <1>2 DEF Counted
  <2> QED
    BY <1>5, <1>7, <1>8, <1>9, <2>1
<1>11. ClockInv'
  <2>1. CASE alarm_clock_id = 8
    <3>1. Begin = MaxLate
      BY <2>1 DEF Begin
    <3>2. clock <= 12 * PERIOD + 2 * MaxLate + 2 * late
      BY <1>10, <3>1
    <3> QED
      BY <1>1, <1>3, <2>1, <3>2 DEF ClockInv, Running
  <2>2. CASE alarm_clock_id = 9
    <3>1. Begin = 12 * PERIOD + 4 * MaxLate
      BY <2>2 DEF Begin
    <3>2. clock <= 24 * PERIOD + 7 * MaxLate
      BY <1>9, <1>10, <3>1
    <3> QED
      BY <1>1, <1>3, <2>2, <3>2 DEF ClockInv, Running
  <2> QED
    BY <1>3, <2>1, <2>2
<1>12. SuspendInv'
  BY <1>1, <1>3 DEF SuspendInv, TwoClocks
<1>13. merged => final_ret
  BY <1>1 DEF FailInv
<1>14. alarmcount' >= 11 => Ticks(alarmcount' - 11) <= late'
  BY <1>1, <1>5, <1>6, <1>7
<1> QED
  BY <1>1, <1>3, <1>4, <1>11, <1>12, <1>13, <1>14, SuspendingUnarmed

\* timer_create gives a timer and a fresh count, or ends the program.
LEMMA SuspendingCreate ==
  ASSUME NEW s, SuspendingInv, Suspending(s)!CreateTimer
  PROVE  SuspendingInv'
<1>n. SuspendingTypes /\ Natural
  BY SuspendingNumbers DEF SuspendingInv
<1> USE <1>n, Periods DEF SuspendingInv, Natural
<1>1. /\ pc = "create" /\ ~pending /\ alarmcount' = 0 /\ late' = 0
      /\ \/ pc' = "start" /\ refused' = refused
         \/ pc' = "exit" /\ refused' = TRUE
      /\ UNCHANGED <<clock, expiry, pending, alarm_clock_id, wake, final_ret, start_time, worst,
                     merged, suspended>>
  BY DEF Suspending!CreateTimer, Suspending!At, Suspending!kernelVars
<1>2. expiry = 0
  BY <1>1 DEF AlarmInv, Armed, Running
<1>3. 0 \in 0 .. MaxLate /\ late <= MaxLate
  BY DEF SuspendingTypes
<1>4. SuspendingTypes'
  <2>1. pc' \in {"start", "exit"} /\ refused' \in BOOLEAN
    BY <1>1 DEF SuspendingTypes
  <2> QED
    BY <1>1, <1>3, <2>1 DEF SuspendingTypes
<1>5. ClockInv'
  <2>1. clock <= Begin
    BY <1>1, <1>3 DEF ClockInv, Begin
  <2>2. clock <= 24 * PERIOD + 7 * MaxLate
    BY <2>1 DEF Begin
  <2>3. Begin' = Begin
    BY <1>1 DEF Begin
  <2> QED
    BY <1>1, <2>1, <2>2, <2>3 DEF ClockInv, Running
<1>6. SuspendInv'
  BY <1>1 DEF SuspendInv
<1>7. merged => final_ret
  BY <1>1 DEF FailInv
<1> QED
  BY <1>1, <1>2, <1>4, <1>5, <1>6, <1>7, SuspendingUnarmed

\* start_time is read.
LEMMA SuspendingGetStart ==
  ASSUME NEW s, SuspendingInv, Suspending(s)!GetStart
  PROVE  SuspendingInv'
<1>n. SuspendingTypes /\ Natural
  BY SuspendingNumbers DEF SuspendingInv
<1> USE <1>n, Periods DEF SuspendingInv, Natural
<1>1. /\ pc = "start" /\ pc' = "arm" /\ ~pending /\ start_time' = clock
      /\ UNCHANGED <<clock, expiry, pending, alarm_clock_id, wake, alarmcount, final_ret, late,
                     worst, merged, suspended, refused>>
  BY DEF Suspending!GetStart, Suspending!At, Suspending!kernelVars, Suspending!handlerVars,
     Suspending!history
<1>2. ~Armed /\ ~Armed' /\ alarmcount = 0
  BY <1>1 DEF AlarmInv, Armed, Running
<1>3. SuspendingTypes' /\ AlarmInv' /\ SuspendInv'
  BY <1>1, <1>2 DEF SuspendingTypes, AlarmInv, SuspendInv, Running
<1>4. CountInv' /\ AwaitedInv'
  BY <1>1, <1>2 DEF CountInv, AwaitedInv
<1>5. FailInv'
  BY <1>1 DEF FailInv
<1>6. ClockInv'
  <2>1. Begin' = Begin
    BY <1>1 DEF Begin
  <2> QED
    BY <1>1, <1>2, <2>1 DEF ClockInv, Running
<1> QED
  BY <1>3, <1>4, <1>5, <1>6

\* The timer is armed for a period after start_time, or fails to be.
LEMMA SuspendingArm ==
  ASSUME NEW s, SuspendingInv, Suspending(s)!ArmTimer
  PROVE  SuspendingInv'
<1>n. SuspendingTypes /\ Natural
  BY SuspendingNumbers DEF SuspendingInv
<1> USE <1>n, Periods DEF SuspendingInv, Natural
<1>1. /\ pc = "arm" /\ pc' = "first" /\ ~pending
      /\ expiry' = start_time + PERIOD \/ expiry' = expiry
      /\ UNCHANGED <<clock, pending, alarm_clock_id, wake, alarmcount, final_ret, start_time, late,
                     worst, merged, suspended, refused>>
  BY DEF Suspending!ArmTimer, Suspending!At, Suspending!handlerVars, Suspending!history
<1>2. ~Armed /\ expiry = 0 /\ alarmcount = 0 /\ pc' \in Running
  BY <1>1 DEF AlarmInv, Armed, Running
<1>3. expiry' \in Nat
  BY <1>1, <1>2
<1>4. SuspendingTypes' /\ SuspendInv'
  BY <1>1, <1>2, <1>3 DEF SuspendingTypes, SuspendInv
<1>5. AlarmInv'
  BY <1>1, <1>2 DEF AlarmInv, Running
<1>6. FailInv'
  BY <1>1 DEF FailInv
<1>7. Begin' = Begin
  BY <1>1 DEF Begin
<1>8. ClockInv'
  BY <1>1, <1>2, <1>7 DEF ClockInv, Running
<1>9. start_time <= clock /\ clock - start_time <= late
  BY <1>1 DEF CountInv
<1>10. CountInv' /\ AwaitedInv'
  <2>1. CASE expiry' = start_time + PERIOD
    <3>1. Last' = start_time
      BY <2>1 DEF Last
    <3>2. Counted' = start_time /\ Raised' = 0
      <4>1. Raised' = 0
        BY <1>1, <1>2 DEF Raised
      <4> QED
        BY <1>1, <4>1 DEF Counted
    <3>3. clock - (start_time + PERIOD) <= late /\ clock - start_time <= late + PERIOD
      BY <1>9
    <3>4. CountInv'
      BY <1>1, <1>9, <2>1, <3>1, <3>2, <3>3 DEF CountInv
    <3>5. AwaitedInv'
      BY <1>1, <1>2, <3>2 DEF AwaitedInv, Awaited
    <3> QED
      BY <3>4, <3>5
  <2>2. CASE expiry' = expiry
    <3>1. ~Armed'
      BY <1>2, <2>2 DEF Armed
    <3> QED
      BY <1>1, <1>2, <3>1 DEF CountInv, AwaitedInv
  <2> QED
    BY <1>1, <2>1, <2>2
<1> QED
  BY <1>4, <1>5, <1>6, <1>8, <1>10

\* Every step keeps the invariant.
LEMMA SuspendingSteps ==
  ASSUME NEW s
  PROVE  SuspendingInv /\ [Suspending(s)!Next]_(Suspending(s)!vars) => SuspendingInv'
<1> SUFFICES ASSUME SuspendingInv, [Suspending(s)!Next]_(Suspending(s)!vars) PROVE SuspendingInv'
  OBVIOUS
<1>1. CASE UNCHANGED Suspending(s)!vars
  BY <1>1
  DEF Suspending!vars, Suspending!kernelVars, Suspending!handlerVars, Suspending!history,
      SuspendingInv, SuspendingTypes, AlarmInv, CountInv, FailInv, AwaitedInv, ClockInv,
      SuspendInv, Armed, Last, Raised, Counted, Awaited, Begin
<1>2. CASE Suspending(s)!Main
  BY <1>2, SuspendingCreate, SuspendingGetStart, SuspendingArm, SuspendingFirst,
     SuspendingLoop, SuspendingSleep, SuspendingSystem, SuspendingDelete
  DEF Suspending!Main
<1> QED
  BY <1>1, <1>2, SuspendingTick, SuspendingExpire, SuspendingResume, SuspendingHandler
  DEF Suspending!Next

\* The inductive invariant of alarmtimer-suspend.
THEOREM SuspendingInvariant == ASSUME NEW s PROVE Suspending(s)!Spec => []SuspendingInv
BY SuspendingStarts, SuspendingSteps, PTL DEF Suspending!Spec

-------------------------------------------------------------------------------
(* What the invariant says of the properties.                              *)

\* The invariant of alarmtimer-suspend bounds its alarms and its time.
LEMMA SuspendingBounds ==
  ASSUME NEW s
  PROVE  SuspendingInv => Suspending(s)!TypeOK
<1> SUFFICES ASSUME SuspendingInv PROVE Suspending(s)!TypeOK
  OBVIOUS
<1>q. MaxLate \div PERIOD \in Nat
  <2>1. MaxLate \in Nat /\ PERIOD \in Nat /\ PERIOD > 0
    BY Periods
  <2> QED
    BY ONLY <2>1
<1>n. SuspendingTypes /\ Natural
  BY SuspendingNumbers DEF SuspendingInv
<1> USE <1>n, Periods DEF SuspendingInv, Natural
<1>0. late <= MaxLate
  BY DEF SuspendingTypes
<1>1. alarmcount >= 11 => PERIOD * (alarmcount - 11) <= MaxLate
  <2>1. CASE ~Armed
    BY <1>0, <2>1 DEF AwaitedInv, Ticks
  <2>2. CASE Armed
    <3> SUFFICES ASSUME alarmcount >= 11 PROVE Ticks(alarmcount - 11) <= MaxLate
      BY DEF Ticks
    <3>1. Raised \in Int /\ alarmcount <= Raised /\ alarmcount \in Int /\ alarmcount - 11 \in Int
          /\ Raised - 11 \in Int /\ alarmcount - 11 <= Raised - 11
      OBVIOUS
    <3>2. Ticks(alarmcount - 11) <= Ticks(Raised - 11)
      BY <3>1, TicksOrder
    <3>3. /\ Ticks(Raised - 10) = Ticks(Raised - 11) + PERIOD
          /\ Ticks(Raised - 5) = Ticks(Raised - 10) + 5 * PERIOD
          /\ Ticks(Raised - 11) \in Int /\ Ticks(Raised - 10) \in Int
      BY <3>1, Shifts
    <3>4. Last <= clock
      BY <2>2 DEF CountInv
    <3>5. Ticks(Raised - 11) <= late
      <4>1. CASE pc = "suspended" /\ ~pending
        BY <3>3, <4>1 DEF AwaitedInv
      <4>2. CASE ~(pc = "suspended" /\ ~pending)
        <5>1. Ticks(Raised - Awaited) + (clock - Last) <= late
          BY <2>2, <3>1, <4>2 DEF AwaitedInv
        <5> QED
          BY <3>3, <3>4, <5>1
      <4> QED
        BY <4>1, <4>2
    <3>6. Ticks(alarmcount - 11) \in Int
      BY <3>1
    <3> QED
      BY <1>0, <3>2, <3>3, <3>5, <3>6
  <2> QED
    BY <2>1, <2>2
<1>3. alarmcount \in 0 .. 11 + MaxLate \div PERIOD
  <2>1. MaxLate \in Nat /\ alarmcount - 11 \in Int
    BY Periods
  <2>2. alarmcount >= 11 => Ticks(alarmcount - 11) <= MaxLate
    BY <1>1 DEF Ticks
  <2>3. alarmcount >= 11 => alarmcount - 11 <= MaxLate \div PERIOD
    BY <2>1, <2>2, PeriodsIn
  <2> QED
    BY <2>3, <1>q
<1>4. clock <= 24 * PERIOD + 7 * MaxLate
  <2>1. Begin <= 12 * PERIOD + 4 * MaxLate
    BY DEF Begin
  <2>2. CASE pc \notin Running \/ (pc = "first" /\ ~Armed)
    BY <1>0, <2>1, <2>2 DEF ClockInv, SuspendInv, TwoClocks, SuspendingTypes
  <2>3. CASE pc \in Running /\ Armed
    <3>1. clock - Counted <= late + PERIOD /\ Last <= clock
      BY <2>3 DEF CountInv
    <3>2. start_time <= Begin + late
      BY <2>3 DEF ClockInv
    <3>3. /\ Ticks(Raised) = Ticks(Raised - 11) + 11 * PERIOD
          /\ Ticks(Raised - 11) \in Int /\ Ticks(11) = 11 * PERIOD
          /\ Ticks(Raised - 10) = Ticks(Raised - 11) + PERIOD
          /\ Ticks(Raised - 5) = Ticks(Raised - 10) + 5 * PERIOD
      BY Shifts, Raised \in Int
    <3>4. Ticks(Raised) <= 11 * PERIOD + late
      <4>1. CASE Raised >= 11
        <5>1. CASE pc = "suspended" /\ ~pending
          BY <3>3, <4>1, <5>1 DEF AwaitedInv
        <5>2. CASE ~(pc = "suspended" /\ ~pending)
          <6>1. Ticks(Raised - Awaited) + (clock - Last) <= late
            BY <2>3, <4>1, <5>2 DEF AwaitedInv
          <6> QED
            BY <3>1, <3>3, <6>1
        <5> QED
          BY <5>1, <5>2
      <4>2. CASE ~(Raised >= 11)
        <5>1. Raised <= 11 /\ Raised \in Int /\ 11 \in Int
          BY <4>2
        <5>2. Ticks(Raised) <= Ticks(11)
          BY <5>1, TicksOrder
        <5> QED
          BY <3>3, <5>2
      <4> QED
        BY <4>1, <4>2
    <3>5. Counted = start_time + Ticks(Raised)
      BY DEF Counted
    <3> QED
      BY <1>0, <2>1, <3>1, <3>2, <3>3, <3>4, <3>5
  <2>4. pc \in Running \ {"first"} => Armed
    BY DEF AlarmInv
  <2> QED
    BY <2>2, <2>3, <2>4
<1>5. clock \in 0 .. MaxClock - 1
  BY <1>4, Periods
<1>6. alarm_clock_id \in TwoClocks \cup {10}
  BY DEF SuspendInv
<1> QED
  BY <1>3, <1>5, <1>6
  DEF Suspending!TypeOK, Suspending!AlarmClocks, SuspendingTypes, Running, TwoClocks

\* SuspendingTypes, the number of alarms and the time the program takes: the bound on the
\* clock is never met, so the clock of the model never stands still for it.
THEOREM SuspendingTypesHold ==
  ASSUME NEW s
  PROVE  Suspending(s)!Spec => []Suspending(s)!TypeOK
BY SuspendingBounds, SuspendingInvariant, PTL

\* ... and shows every late resume.
LEMMA LateResumesShow ==
  ASSUME NEW s
  PROVE  SuspendingInv => Suspending(s)!LateResumeFails
BY DEF SuspendingInv, AlarmInv, FailInv, Suspending!LateResumeFails, Running

\* No late resume and no alarm lost in a suspend is missed.
THEOREM NoLateResumeIsMissed ==
  ASSUME NEW s PROVE  Suspending(s)!Spec => []Suspending(s)!LateResumeFails
BY LateResumesShow, SuspendingInvariant, PTL

\* Nothing but a late or a lost alarm fails the program.
THEOREM ArmingIsNoLateResume ==
  ASSUME NEW s PROVE  Suspending(s)!Spec => []Suspending(s)!OnlyLateResumeFails
<1>1. SuspendingInv => Suspending(s)!OnlyLateResumeFails
  BY DEF SuspendingInv, FailInv, Suspending!OnlyLateResumeFails
<1> QED
  BY <1>1, SuspendingInvariant, PTL

\* Whenever the machine is suspended an alarm is to come.
THEOREM TheMachineWakesUp ==
  ASSUME NEW s PROVE  Suspending(s)!Spec => []Suspending(s)!AlarmIsSet
<1>1. SuspendingInv => Suspending(s)!AlarmIsSet
  BY DEF SuspendingInv, AlarmInv, Suspending!AlarmIsSet, Armed, Running
<1> QED
  BY <1>1, SuspendingInvariant, PTL

\* A clock is done with when the machine has been suspended for it.
LEMMA AllSuspended ==
  ASSUME NEW s, Prompt
  PROVE  SuspendingInv => Suspending(s)!BothClocksSuspend
<1> SUFFICES ASSUME SuspendingInv, pc = "exit", ~refused PROVE suspended = TwoClocks
  BY DEF Suspending!BothClocksSuspend, Suspending!AlarmClocks, TwoClocks
<1>1. \A id \in TwoClocks : id < 10 => id \in suspended
  BY DEF SuspendingInv, SuspendInv
<1>2. 8 \in suspended /\ 9 \in suspended
  BY <1>1 DEF TwoClocks
<1>3. suspended \subseteq TwoClocks
  BY DEF SuspendingInv, SuspendingTypes
<1> QED
  BY <1>2, <1>3 DEF TwoClocks

\* A run in which nothing is refused has suspended the machine on both clocks,
\* unless the program is held up for five periods.
THEOREM NothingRefusedAllSuspended ==
  ASSUME NEW s, Prompt
  PROVE  Suspending(s)!Spec => []Suspending(s)!BothClocksSuspend
BY AllSuspended, SuspendingInvariant, PTL

-------------------------------------------------------------------------------
(* What the programs that average have in common.                          *)

Times(n, x) == n * x

\* Products with a number of sleeps are numbers, grow with what is multiplied, ...
LEMMA TimesInt == ASSUME NEW n \in Nat, NEW x \in Int PROVE Times(n, x) \in Int
BY DEF Times

LEMMA TimesOrder ==
  ASSUME NEW n \in Nat, NEW x \in Int, NEW y \in Int, x <= y
  PROVE  Times(n, x) <= Times(n, y)
<1>1. y - x \in Nat /\ n * (y - x) \in Nat /\ n * y = n * x + n * (y - x)
  OBVIOUS
<1> QED
  BY <1>1 DEF Times

\* ... are sums of products, ...
LEMMA TimesSum ==
  ASSUME NEW n \in Nat, NEW x \in Int, NEW y \in Int
  PROVE  Times(n, x + y) = Times(n, x) + Times(n, y)
BY DEF Times

\* ... add up one by one ...
LEMMA TimesNext ==
  ASSUME NEW n \in Nat, NEW x \in Int
  PROVE  Times(n + 1, x) = Times(n, x) + x /\ Times(0, x) = 0
BY DEF Times

\* ... and are no less than what is multiplied.
LEMMA TimesAtLeast ==
  ASSUME NEW n \in Nat \ {0}, NEW x \in Nat
  PROVE  Times(n, x) >= x
<1>1. n - 1 \in Nat /\ (n - 1) * x \in Nat /\ n * x = (n - 1) * x + x
  OBVIOUS
<1> QED
  BY <1>1 DEF Times

\* A mean is above a limit when the sum is as large as if all were above it.
LEMMA MeanAbove ==
  ASSUME NEW n \in Nat \ {0}, NEW sum \in Int, NEW lim \in Int
  PROVE  sum \div n > lim <=> sum >= Times(n, lim + 1)
<1> DEFINE q == sum \div n
<1>1. q \in Int /\ Times(n, q) <= sum /\ sum < Times(n, q + 1)
  BY DEF Times
<1> HIDE DEF q
<1>2. n \in Nat /\ lim + 1 \in Int /\ q + 1 \in Int
  BY <1>1
<1>3. \A x, y \in Int : x <= y => Times(n, x) <= Times(n, y)
  BY <1>2, TimesOrder
<1>4. \A x \in Int : Times(n, x) \in Int
  BY <1>2, TimesInt
<1>5. CASE q > lim
  <2>1. Times(n, lim + 1) <= Times(n, q)
    BY <1>1, <1>2, <1>3, <1>5
  <2> QED
    BY <1>1, <1>2, <1>4, <1>5, <2>1 DEF q
<1>6. CASE q <= lim
  <2>1. Times(n, q + 1) <= Times(n, lim + 1)
    BY <1>1, <1>2, <1>3, <1>6
  <2> QED
    BY <1>1, <1>2, <1>4, <1>6, <2>1 DEF q
<1> QED
  BY <1>1, <1>5, <1>6

-------------------------------------------------------------------------------
(* nsleep-lat: while no sleep has ended early, the longest latency is part of *)
(* the sum; and the sum is at most that latency for every sleep.              *)

Supported == (1 .. NrClocks) \ Unsupported

\* The sum of latencies that is too large.
TooMuch == Times(Sleeps, UNRESONABLE_LATENCY + 1)

AveragingTypes ==
  /\ pc \in {"test", "rel", "abs", "exit"} /\ clockid \in Nat \ {0} /\ length \in 1 .. Lengths
  /\ i \in 0 .. Sleeps /\ latency \in Int /\ worst \in Nat /\ early \in BOOLEAN
  /\ exitcode \in {0, 1} /\ (pc # "exit" => exitcode = 0)

SumInv ==
  /\ pc \in {"rel", "abs"} => latency <= Times(i, worst) /\ (~early => latency >= 0)
  /\ pc = "rel" /\ ~early => worst <= latency
  /\ pc = "abs" /\ ~early => worst <= latency \/ worst < TooMuch
  /\ pc = "test" /\ ~early => worst < TooMuch
  /\ exitcode = 1 => \E gap \in Gaps : worst + gap > UNRESONABLE_LATENCY

\* The clocks before this one are done, and the lengths before this one on it.
PlaceInv ==
  /\ pc \in {"rel", "abs"} => clockid \in Supported
  /\ pc = "exit" /\ exitcode = 0 => clockid > NrClocks
  /\ slept \subseteq Supported \X (1 .. Lengths)
  /\ \A c \in Supported, l \in 1 .. Lengths :
       <<c, l>> \in slept <=> c < clockid \/ (c = clockid /\ l < length)

AveragingInv == AveragingTypes /\ SumInv /\ PlaceInv

\* The constants of nsleep-lat, and the sum that is too large for them.
LEMMA AveragingNumbers ==
  /\ Sleeps \in Nat \ {0} /\ Lengths \in Nat \ {0} /\ NrClocks \in Nat
  /\ UNRESONABLE_LATENCY \in Nat /\ SleepLatencies \subseteq Int /\ Gaps \subseteq Nat /\ Gaps # {}
  /\ TooMuch \in Int /\ TooMuch > 0
<1>1. /\ Sleeps \in Nat \ {0} /\ Lengths \in Nat \ {0} /\ NrClocks \in Nat
      /\ UNRESONABLE_LATENCY \in Nat /\ SleepLatencies \subseteq Int /\ Gaps \subseteq Nat /\ Gaps # {}
  BY AlarmsAssumption DEF AlarmsAssumption, Averaging!NsleepLatAssumption
<1>2. Sleeps \in Nat /\ Sleeps # 0 /\ UNRESONABLE_LATENCY + 1 \in Nat
  BY <1>1
<1>3. TooMuch \in Int /\ TooMuch >= UNRESONABLE_LATENCY + 1
  BY <1>1, <1>2, TimesInt, TimesAtLeast DEF TooMuch
<1> QED
  BY <1>1, <1>3

\* The sum that Large takes for too large.
LEMMA LargeSums ==
  ASSUME NEW sum \in Int
  PROVE  Averaging!Large(sum) <=> sum >= TooMuch
<1>1. Sleeps \in Nat \ {0} /\ UNRESONABLE_LATENCY \in Int
  BY AveragingNumbers
<1> QED
  BY <1>1, MeanAbove DEF Averaging!Large, TooMuch

\* Nothing has been slept.
LEMMA AveragingStarts == Averaging!Init => AveragingInv
<1> SUFFICES ASSUME Averaging!Init PROVE AveragingInv
  OBVIOUS
<1>1. AveragingTypes
  <2>1. 1 \in 1 .. Lengths /\ 0 \in 0 .. Sleeps /\ 1 \in Nat \ {0}
    BY AveragingNumbers
  <2>2. clockid \in Nat \ {0} /\ length \in 1 .. Lengths /\ i \in 0 .. Sleeps
    BY <2>1 DEF Averaging!Init
  <2>3. latency \in Int /\ worst \in Nat
    BY DEF Averaging!Init
  <2>4. pc = "test" /\ early \in BOOLEAN /\ exitcode = 0
    BY Zenon DEF Averaging!Init
  <2> QED
    BY <2>2, <2>3, <2>4, Zenon DEF AveragingTypes
<1>2. SumInv
  BY AveragingNumbers DEF Averaging!Init, SumInv
<1>3. PlaceInv
  BY AveragingNumbers DEF Averaging!Init, PlaceInv, Supported
<1> QED
  BY <1>1, <1>2, <1>3 DEF AveragingInv

\* A sleep adds its latency to the sum.
LEMMA AveragingSlept ==
  ASSUME AveragingInv, pc \in {"rel", "abs"}, pc' = pc, UNCHANGED <<clockid, length, exitcode, slept>>,
         NEW l \in SleepLatencies, NEW gap \in Nat, Averaging!Slept(l, gap)
  PROVE  AveragingInv'
<1> USE AveragingNumbers
<1> DEFINE s == l + gap
<1>1. /\ i \in 0 .. Sleeps /\ i < Sleeps /\ i' = i + 1 /\ latency \in Int /\ worst \in Nat
      /\ l \in Int /\ s \in Int /\ latency' = latency + s
      /\ worst' = (IF s > worst THEN s ELSE worst) /\ early' = (early \/ l < 0)
      /\ early \in BOOLEAN
  <2>1. latency' = latency + l + gap /\ latency \in Int /\ l \in Int
    BY DEF AveragingInv, AveragingTypes, Averaging!Slept
  <2>2. latency' = latency + s
    BY <2>1
  <2> QED
    BY <2>1, <2>2 DEF AveragingInv, AveragingTypes, Averaging!Slept
<1>2. ~early' => ~early /\ l >= 0 /\ s >= 0
  <2>1. ~early' => ~early /\ ~(l < 0)
    BY <1>1, Zenon
  <2> QED
    BY <1>1, <2>1
<1> HIDE DEF s
<1>3. worst' \in Nat /\ worst' >= worst /\ worst' >= s /\ (worst' = s \/ worst' = worst)
  BY <1>1
<1>4. latency' <= Times(i', worst')
  <2>1. i \in Nat /\ latency <= Times(i, worst)
    BY <1>1 DEF AveragingInv, SumInv
  <2>2. Times(i, worst) <= Times(i, worst')
    BY <1>1, <1>3, <2>1, TimesOrder
  <2>3. Times(i + 1, worst') = Times(i, worst') + worst'
    BY <1>3, <2>1, TimesNext
  <2>4. Times(i, worst) \in Int /\ Times(i, worst') \in Int
    BY <1>1, <1>3, <2>1, TimesInt
  <2> QED
    BY <1>1, <1>3, <2>1, <2>2, <2>3, <2>4
<1>5. ~early' => latency' >= 0 /\ latency' >= latency /\ latency' >= s
  BY <1>1, <1>2 DEF AveragingInv, SumInv
<1>6. AveragingTypes'
  BY <1>1, <1>3 DEF AveragingInv, AveragingTypes
<1>7. SumInv'
  <2>1. pc = "rel" /\ ~early' => worst' <= latency'
    BY <1>1, <1>2, <1>3, <1>5 DEF AveragingInv, SumInv
  <2>2. pc = "abs" /\ ~early' => worst' <= latency' \/ worst' < TooMuch
    BY <1>1, <1>2, <1>3, <1>5 DEF AveragingInv, SumInv
  <2>3. exitcode' = 0
    BY DEF AveragingInv, AveragingTypes
  <2>4. UNCHANGED TooMuch
    BY DEF TooMuch, Times
  <2> QED
    BY <1>4, <1>5, <2>1, <2>2, <2>3, <2>4 DEF SumInv
<1>8. PlaceInv'
  BY DEF AveragingInv, PlaceInv
<1> QED
  BY <1>6, <1>7, <1>8 DEF AveragingInv

\* The next clock, or its first sleep; or all are done.
LEMMA AveragingTest == ASSUME AveragingInv, Averaging!Test PROVE AveragingInv'
<1> USE AveragingNumbers
<1>1. /\ pc = "test" /\ i' = 0 /\ latency' = 0 /\ worst' = 0 /\ early' = FALSE
      /\ UNCHANGED <<exitcode, slept>>
      /\ \/ clockid \in Unsupported /\ pc' = "test" /\ clockid' = clockid + 1 /\ length' = 1
         \/ clockid \in Supported /\ pc' = "rel" /\ UNCHANGED <<clockid, length>>
         \/ clockid > NrClocks /\ pc' = "exit" /\ UNCHANGED <<clockid, length>>
  BY DEF Averaging!Test, Averaging!Goto, Supported
<1>2. AveragingTypes'
  <2>1. 1 \in 1 .. Lengths /\ 0 \in 0 .. Sleeps
    OBVIOUS
  <2>2. clockid' \in Nat \ {0} /\ length' \in 1 .. Lengths /\ pc' \in {"test", "rel", "exit"}
    BY <1>1, <2>1 DEF AveragingInv, AveragingTypes
  <2>3. exitcode' = 0
    BY <1>1 DEF AveragingInv, AveragingTypes
  <2>4. i' \in 0 .. Sleeps /\ latency' \in Int /\ worst' \in Nat
    BY <1>1, <2>1
  <2>5. early' \in BOOLEAN /\ pc' \in {"test", "rel", "abs", "exit"} /\ exitcode' \in {0, 1}
    BY <1>1, <2>2, <2>3, Zenon
  <2> QED
    BY <2>2, <2>3, <2>4, <2>5, Zenon DEF AveragingTypes
<1>3. SumInv'
  <2>1. Times(0, 0) = 0
    BY DEF Times
  <2>2. exitcode' = 0
    BY <1>1 DEF AveragingInv, AveragingTypes
  <2> QED
    BY <1>1, <2>1, <2>2 DEF SumInv, TooMuch, Times
<1>4. PlaceInv'
  <2>1. clockid \in Nat /\ length \in 1 .. Lengths
    BY DEF AveragingInv, AveragingTypes
  <2>2. ASSUME clockid \in Unsupported, clockid' = clockid + 1, length' = 1,
               NEW c \in Supported, NEW l \in 1 .. Lengths
        PROVE  <<c, l>> \in slept' <=> c < clockid' \/ (c = clockid' /\ l < length')
    <3>1. <<c, l>> \in slept <=> c < clockid \/ (c = clockid /\ l < length)
      BY DEF AveragingInv, PlaceInv
    <3>2. c # clockid /\ c \in Nat
      BY <2>2 DEF Supported
    <3> QED
      BY <1>1, <2>1, <2>2, <3>1, <3>2
  <2> QED
    BY <1>1, <2>1, <2>2 DEF AveragingInv, PlaceInv
<1> QED
  BY <1>2, <1>3, <1>4 DEF AveragingInv

\* The mean of the relative sleeps: with what passes before the clock is read, it is
\* at most what every sleep took at most.
LEMMA AveragingRelDone == ASSUME AveragingInv, Averaging!RelDone PROVE AveragingInv'
<1> USE AveragingNumbers
<1>1. PICK gap \in Gaps :
        /\ i = Sleeps /\ pc = "rel" /\ UNCHANGED <<clockid, length, worst, early, slept>>
        /\ \/ Averaging!Large(latency + gap) /\ pc' = "exit" /\ exitcode' = 1
              /\ UNCHANGED <<i, latency>>
           \/ ~Averaging!Large(latency + gap) /\ pc' = "abs" /\ exitcode' = exitcode
              /\ i' = 0 /\ latency' = 0
  BY DEF Averaging!RelDone, Averaging!Goto
<1>2. /\ gap \in Nat /\ latency \in Int /\ latency + gap \in Int /\ worst \in Nat
      /\ exitcode = 0 /\ latency <= Times(Sleeps, worst) /\ clockid \in Supported
  BY <1>1 DEF AveragingInv, AveragingTypes, SumInv, PlaceInv
<1>3. AveragingTypes'
  BY <1>1 DEF AveragingInv, AveragingTypes
<1>4. PlaceInv'
  BY <1>1, <1>2 DEF AveragingInv, PlaceInv
<1>5. CASE Averaging!Large(latency + gap)
  <2>1. latency + gap >= TooMuch
    BY <1>2, <1>5, LargeSums
  <2>2. worst + gap > UNRESONABLE_LATENCY
    <3> SUFFICES ASSUME worst + gap <= UNRESONABLE_LATENCY PROVE FALSE
      BY <1>2
    <3>1. Sleeps \in Nat /\ Sleeps # 0
      OBVIOUS
    <3>2. Times(Sleeps, worst + gap) <= Times(Sleeps, UNRESONABLE_LATENCY)
      BY <1>2, <3>1, TimesOrder
    <3>3. Times(Sleeps, worst + gap) = Times(Sleeps, worst) + Times(Sleeps, gap)
      BY <1>2, <3>1 DEF Times
    <3>4. TooMuch = Times(Sleeps, UNRESONABLE_LATENCY) + Times(Sleeps, 1)
      BY <3>1 DEF TooMuch, Times
    <3>5. Times(Sleeps, gap) >= gap /\ Times(Sleeps, 1) >= 1
      BY <1>2, <3>1, TimesAtLeast
    <3>6. /\ Times(Sleeps, worst) \in Int /\ Times(Sleeps, gap) \in Int
          /\ Times(Sleeps, 1) \in Int /\ Times(Sleeps, UNRESONABLE_LATENCY) \in Int
      BY <1>2, <3>1, TimesInt
    <3> QED
      BY <1>2, <2>1, <3>2, <3>3, <3>4, <3>5, <3>6
  <2>3. pc' = "exit" /\ exitcode' = 1
    BY <1>1, <1>5
  <2>4. SumInv'
    BY <1>1, <2>2, <2>3 DEF SumInv
  <2> QED
    BY <1>3, <1>4, <2>4 DEF AveragingInv
<1>6. CASE ~Averaging!Large(latency + gap)
  <2>1. latency + gap < TooMuch
    BY <1>2, <1>6, LargeSums
  <2>2. ~early => worst < TooMuch
    BY <1>1, <1>2, <2>1 DEF AveragingInv, SumInv
  <2>3. /\ pc' = "abs" /\ exitcode' = 0 /\ i' = 0 /\ latency' = 0 /\ worst' = worst
        /\ early' = early
    BY <1>1, <1>2, <1>6
  <2>4. Times(0, worst) = 0 /\ TooMuch' = TooMuch
    BY <1>2 DEF TooMuch, Times
  <2>5. SumInv'
    BY <2>2, <2>3, <2>4 DEF SumInv
  <2> QED
    BY <1>3, <1>4, <2>5 DEF AveragingInv
<1> QED
  BY <1>5, <1>6

\* The mean of the absolute sleeps, and the next length or clock.
LEMMA AveragingAbsDone == ASSUME AveragingInv, Averaging!AbsDone PROVE AveragingInv'
<1> USE AveragingNumbers
<1>1. /\ i = Sleeps /\ pc = "abs" /\ UNCHANGED <<i, latency, worst, early>>
      /\ \/ Averaging!Large(latency) /\ pc' = "exit" /\ exitcode' = 1
            /\ UNCHANGED <<clockid, length, slept>>
         \/ /\ ~Averaging!Large(latency) /\ pc' = "test" /\ exitcode' = exitcode
            /\ slept' = slept \cup {<<clockid, length>>}
            /\ length' = (IF length < Lengths THEN length + 1 ELSE 1)
            /\ clockid' = clockid + (IF length < Lengths THEN 0 ELSE 1)
  BY DEF Averaging!AbsDone, Averaging!Goto
<1>2. /\ latency \in Int /\ worst \in Nat /\ clockid \in Nat \ {0} /\ length \in 1 .. Lengths
      /\ exitcode = 0 /\ latency <= Times(Sleeps, worst) /\ clockid \in Supported
      /\ clockid \in Nat
  BY <1>1 DEF AveragingInv, AveragingTypes, SumInv, PlaceInv
<1>3. AveragingTypes'
  BY <1>1, <1>2 DEF AveragingInv, AveragingTypes
<1>4. CASE Averaging!Large(latency)
  <2>1. latency >= TooMuch
    BY <1>2, <1>4, LargeSums
  <2>2. worst > UNRESONABLE_LATENCY
    <3> SUFFICES ASSUME worst + 0 <= UNRESONABLE_LATENCY PROVE FALSE
      BY <1>2
    <3>1. Sleeps \in Nat /\ Sleeps # 0
      OBVIOUS
    <3>2. Times(Sleeps, worst + 1) <= TooMuch
      BY <1>2, <3>1, TimesOrder DEF TooMuch
    <3>3. Times(Sleeps, worst + 1) = Times(Sleeps, worst) + Times(Sleeps, 1)
      BY <1>2, <3>1 DEF Times
    <3>4. Times(Sleeps, 1) >= 1 /\ Times(Sleeps, worst) \in Int /\ Times(Sleeps, 1) \in Int
      BY <1>2, <3>1 DEF Times
    <3> QED
      BY <1>2, <2>1, <3>2, <3>3, <3>4
  <2>3. \E gap \in Gaps : worst + gap > UNRESONABLE_LATENCY
    <3>1. PICK gap \in Gaps : gap \in Nat
      OBVIOUS
    <3>2. worst + gap > UNRESONABLE_LATENCY
      BY <1>2, <2>2, <3>1
    <3> QED
      BY <3>2
  <2>4. pc' = "exit" /\ exitcode' = 1 /\ UNCHANGED <<clockid, length, slept>>
    BY <1>1, <1>4
  <2>5. SumInv' /\ PlaceInv'
    BY <1>1, <2>3, <2>4 DEF SumInv, PlaceInv, AveragingInv
  <2> QED
    BY <1>3, <2>5 DEF AveragingInv
<1>5. CASE ~Averaging!Large(latency)
  <2>1. latency < TooMuch
    BY <1>2, <1>5, LargeSums
  <2>2. ~early => worst < TooMuch
    BY <1>1, <1>2, <2>1 DEF AveragingInv, SumInv
  <2>3. /\ pc' = "test" /\ exitcode' = 0 /\ slept' = slept \cup {<<clockid, length>>}
        /\ length' = (IF length < Lengths THEN length + 1 ELSE 1)
        /\ clockid' = clockid + (IF length < Lengths THEN 0 ELSE 1)
    BY <1>1, <1>2, <1>5
  <2>4. SumInv'
    BY <1>1, <2>2, <2>3 DEF SumInv, TooMuch, Times
  <2>5. slept' \subseteq Supported \X (1 .. Lengths)
    BY <1>2, <2>3 DEF AveragingInv, PlaceInv
  <2>6. ASSUME NEW c \in Supported, NEW l \in 1 .. Lengths
        PROVE  <<c, l>> \in slept' <=> c < clockid' \/ (c = clockid' /\ l < length')
    <3>1. <<c, l>> \in slept <=> c < clockid \/ (c = clockid /\ l < length)
      BY DEF AveragingInv, PlaceInv
    <3>2. <<c, l>> \in slept' <=> <<c, l>> \in slept \/ (c = clockid /\ l = length)
      BY <2>3
    <3>3. c \in Nat /\ l \in Nat /\ l <= Lengths
      BY DEF Supported
    <3>4. CASE length < Lengths
      BY <1>2, <2>3, <3>1, <3>2, <3>3, <3>4
    <3>5. CASE ~(length < Lengths)
      BY <1>2, <2>3, <3>1, <3>2, <3>3, <3>5
    <3> QED
      BY <3>4, <3>5
  <2>7. PlaceInv'
    BY <2>3, <2>5, <2>6 DEF PlaceInv
  <2> QED
    BY <1>3, <2>4, <2>7 DEF AveragingInv
<1> QED
  BY <1>4, <1>5

\* Every step keeps the invariant.
LEMMA AveragingSteps == AveragingInv /\ [Averaging!Next]_(Averaging!vars) => AveragingInv'
<1> SUFFICES ASSUME AveragingInv, [Averaging!Next]_(Averaging!vars) PROVE AveragingInv'
  OBVIOUS
<1>1. CASE UNCHANGED Averaging!vars
  BY <1>1 DEF Averaging!vars, AveragingInv, AveragingTypes, SumInv, PlaceInv, TooMuch, Times
<1>2. CASE Averaging!RelSleep
  <2>1. PICK l \in SleepLatencies : Averaging!Slept(l, 0)
    BY <1>2 DEF Averaging!RelSleep
  <2> QED
    BY <1>2, <2>1, AveragingSlept DEF Averaging!RelSleep, Averaging!Goto
<1>3. CASE Averaging!AbsSleep
  <2>1. PICK l \in SleepLatencies, gap \in Gaps : Averaging!Slept(l, gap)
    BY <1>3 DEF Averaging!AbsSleep
  <2>2. gap \in Nat
    BY AveragingNumbers
  <2> QED
    BY <1>3, <2>1, <2>2, AveragingSlept DEF Averaging!AbsSleep, Averaging!Goto
<1> QED
  BY <1>1, <1>2, <1>3, AveragingTest, AveragingRelDone, AveragingAbsDone
  DEF Averaging!Next, Averaging!Main

\* A sum that is not too large has no part that is.
LEMMA LateSleepsShow == AveragingInv => Averaging!LateSleepFails
BY DEF AveragingInv, SumInv, TooMuch, Times, Averaging!LateSleepFails

\* A sleep so late that the mean of all is too large fails the program.
THEOREM NoLateSleepIsMissed == Averaging!Spec => []Averaging!LateSleepFails
BY LateSleepsShow, AveragingStarts, AveragingSteps, PTL DEF Averaging!Spec

\* A sum that is too large has a part that is.
LEMMA OnlyLateSleepsShow == AveragingInv => Averaging!OnlyLatenessFails
BY DEF AveragingInv, SumInv, Averaging!OnlyLatenessFails

\* The program fails only if some sleep, or the read after it, was late.
THEOREM SmallDelaysPass == Averaging!Spec => []Averaging!OnlyLatenessFails
BY OnlyLateSleepsShow, AveragingStarts, AveragingSteps, PTL DEF Averaging!Spec

\* When there is no clock left, all have been slept on.
LEMMA AllSlept == AveragingInv => Averaging!PassMeansAllSlept
<1> SUFFICES ASSUME AveragingInv, pc = "exit", exitcode = 0
             PROVE  slept = Supported \X (1 .. Lengths)
  BY DEF Averaging!PassMeansAllSlept, Supported
<1>1. clockid \in Nat /\ clockid > NrClocks /\ NrClocks \in Nat
  BY AveragingNumbers DEF AveragingInv, AveragingTypes, PlaceInv
<1>2. \A c \in Supported, l \in 1 .. Lengths : <<c, l>> \in slept
  <2>1. ASSUME NEW c \in Supported PROVE c < clockid
    BY <1>1 DEF Supported
  <2> QED
    BY <2>1 DEF AveragingInv, PlaceInv
<1> QED
  BY <1>2 DEF AveragingInv, PlaceInv

\* A pass has slept every length on every clock that can be slept on.
THEOREM AveragingSleepsAll == Averaging!Spec => []Averaging!PassMeansAllSlept
BY AllSlept, AveragingStarts, AveragingSteps, PTL DEF Averaging!Spec

-------------------------------------------------------------------------------
(* mqueue-lat: what the receives took together lies between what they took   *)
(* with the longest latency once and with the longest latency every time.     *)

ReceivingTypes ==
  /\ pc \in {"open", "receive", "exit"} /\ i \in 0 .. Receives /\ clock \in Int /\ worst \in Nat
  /\ exitcode \in {0, 1} /\ (pc # "exit" => exitcode = 0)
  /\ cause \in {"none", "set", "message", "error"} /\ (cause = "error" => pc = "exit")

TimeInv ==
  /\ cause = "none" => clock >= Times(i, TARGET_TIMEOUT) + worst
  /\ cause \in {"none", "message"} => clock <= Times(i, TARGET_TIMEOUT + worst)
  /\ pc = "exit" /\ cause # "error" => i = Receives /\ (exitcode = 1 <=> Receiving!TooLong)

ReceivingInv == ReceivingTypes /\ TimeInv

\* The constants of mqueue-lat.
LEMMA ReceivingNumbers ==
  /\ Receives \in Nat \ {0} /\ Receives \in Nat /\ TARGET_TIMEOUT \in Nat
  /\ UNRESONABLE_LATENCY \in Nat /\ ReceiveLatencies \subseteq Nat /\ Settings \subseteq Int
BY AlarmsAssumption DEF AlarmsAssumption, Receiving!MqueueLatAssumption

\* Nothing has been received.
LEMMA ReceivingStarts == Receiving!Init => ReceivingInv
<1> SUFFICES ASSUME Receiving!Init PROVE ReceivingInv
  OBVIOUS
<1>1. /\ pc = "open" /\ i = 0 /\ clock = 0 /\ exitcode = 0 /\ worst = 0 /\ cause = "none"
      /\ 0 \in 0 .. Receives
  BY ReceivingNumbers DEF Receiving!Init
<1>2. ReceivingTypes
  BY <1>1 DEF ReceivingTypes
<1>3. Times(0, TARGET_TIMEOUT) = 0 /\ Times(0, TARGET_TIMEOUT + 0) = 0
  BY ReceivingNumbers DEF Times
<1>4. TimeInv
  BY <1>1, <1>3 DEF TimeInv
<1> QED
  BY <1>2, <1>4 DEF ReceivingInv

\* A receive that times out takes its timeout and its latency.
LEMMA ReceivingTimesOut == ASSUME ReceivingInv, Receiving!TimesOut PROVE ReceivingInv'
<1> USE ReceivingNumbers
<1>1. PICK l \in ReceiveLatencies :
        /\ pc = "receive" /\ pc' = "receive" /\ i < Receives /\ i' = i + 1
        /\ clock' = clock + (TARGET_TIMEOUT + l) /\ worst' = (IF l > worst THEN l ELSE worst)
        /\ UNCHANGED <<exitcode, cause>>
  BY DEF Receiving!TimesOut, Receiving!Received, Receiving!Goto
<1>2. i \in Nat /\ i \in 0 .. Receives /\ clock \in Int /\ worst \in Nat /\ l \in Nat
  BY DEF ReceivingInv, ReceivingTypes
<1>3. /\ worst' \in Nat /\ worst' >= worst /\ worst' >= l /\ worst + l >= worst'
      /\ i' \in 0 .. Receives /\ clock' \in Int
  BY <1>1, <1>2
<1>4. ReceivingTypes'
  BY <1>1, <1>3 DEF ReceivingInv, ReceivingTypes
<1>5. cause = "none" => clock' >= Times(i', TARGET_TIMEOUT) + worst'
  <2>1. cause = "none" => clock >= Times(i, TARGET_TIMEOUT) + worst
    BY DEF ReceivingInv, TimeInv
  <2>2. /\ Times(i + 1, TARGET_TIMEOUT) = Times(i, TARGET_TIMEOUT) + TARGET_TIMEOUT
        /\ Times(i, TARGET_TIMEOUT) \in Int
    BY <1>2 DEF Times
  <2> QED
    BY <1>1, <1>2, <1>3, <2>1, <2>2
<1>6. cause \in {"none", "message"} => clock' <= Times(i', TARGET_TIMEOUT + worst')
  <2>0. PICK w \in Nat : w = worst' /\ w >= worst /\ w >= l
    BY <1>3
  <2> DEFINE a == TARGET_TIMEOUT + worst
             b == TARGET_TIMEOUT + w
  <2>1. cause \in {"none", "message"} => clock <= Times(i, a)
    BY DEF ReceivingInv, TimeInv
  <2>2. a \in Int /\ b \in Int /\ a <= b /\ TARGET_TIMEOUT + l <= b
    <3>1. w >= worst /\ w >= l /\ TARGET_TIMEOUT \in Int /\ worst \in Int /\ l \in Int /\ w \in Int
      BY <1>2, <2>0
    <3> QED
      BY <3>1
  <2> HIDE DEF a, b
  <2>3. /\ Times(i, a) <= Times(i, b) /\ Times(i + 1, b) = Times(i, b) + b
        /\ Times(i, a) \in Int /\ Times(i, b) \in Int
    BY <1>2, <2>2, TimesOrder, TimesNext, TimesInt
  <2>4. cause \in {"none", "message"} => clock' <= Times(i', b)
    BY <1>1, <1>2, <2>1, <2>2, <2>3
  <2> QED
    BY <2>0, <2>4 DEF b
<1>7. TimeInv'
  BY <1>1, <1>5, <1>6 DEF TimeInv
<1> QED
  BY <1>4, <1>7 DEF ReceivingInv

\* A receive that something else has ended: a message takes no time, and a clock that
\* was set may take any.
LEMMA ReceivingCutShort ==
  ASSUME ReceivingInv, Receiving!ClockIsSet \/ Receiving!Message
  PROVE  ReceivingInv'
<1> USE ReceivingNumbers
<1>1. /\ pc = "receive" /\ pc' = "receive" /\ i < Receives /\ i' = i + 1
      /\ UNCHANGED <<exitcode, worst>> /\ cause = "none"
  BY DEF Receiving!ClockIsSet, Receiving!Message, Receiving!Received, Receiving!Goto
<1>2. i \in Nat /\ i \in 0 .. Receives /\ clock \in Int /\ worst \in Nat
  BY DEF ReceivingInv, ReceivingTypes
<1>3. i' \in 0 .. Receives
  BY <1>1, <1>2
<1>4. CASE Receiving!ClockIsSet
  <2>1. PICK s \in Settings :
          clock' = clock + (IF s < TARGET_TIMEOUT THEN TARGET_TIMEOUT - s ELSE 0)
    BY <1>4 DEF Receiving!ClockIsSet, Receiving!Received
  <2>2. clock' \in Int
    BY <1>2, <2>1
  <2>3. cause' = "set"
    BY <1>4 DEF Receiving!ClockIsSet
  <2> QED
    BY <1>1, <1>3, <2>2, <2>3 DEF ReceivingInv, ReceivingTypes, TimeInv
<1>5. CASE Receiving!Message
  <2> DEFINE a == TARGET_TIMEOUT + worst
  <2>1. clock' = clock /\ cause' = "message"
    BY <1>2, <1>5 DEF Receiving!Message, Receiving!Received
  <2>2. a \in Nat /\ clock <= Times(i, a)
    BY <1>1, <1>2 DEF ReceivingInv, TimeInv
  <2>3. a' = a
    BY <1>1
  <2> HIDE DEF a
  <2>4. Times(i + 1, a) = Times(i, a) + a /\ Times(i, a) \in Int
    BY <1>2, <2>2, TimesNext, TimesInt
  <2>5. clock' <= Times(i', a)
    BY <1>1, <1>2, <2>1, <2>2, <2>4
  <2>6. clock' <= Times(i', TARGET_TIMEOUT + worst')
    BY <1>1, <2>5 DEF a
  <2> QED
    BY <1>1, <1>2, <1>3, <2>1, <2>6 DEF ReceivingInv, ReceivingTypes, TimeInv
<1> QED
  BY <1>4, <1>5

\* Every step keeps the invariant.
LEMMA ReceivingSteps == ReceivingInv /\ [Receiving!Next]_(Receiving!vars) => ReceivingInv'
<1> SUFFICES ASSUME ReceivingInv, [Receiving!Next]_(Receiving!vars) PROVE ReceivingInv'
  OBVIOUS
<1>1. CASE UNCHANGED Receiving!vars
  BY <1>1 DEF Receiving!vars, ReceivingInv, ReceivingTypes, TimeInv, Receiving!TooLong
<1>2. CASE Receiving!Open
  BY <1>2 DEF Receiving!Open, Receiving!Goto, ReceivingInv, ReceivingTypes, TimeInv
<1>3. CASE Receiving!Fails
  BY <1>3 DEF Receiving!Fails, Receiving!Goto, ReceivingInv, ReceivingTypes, TimeInv
<1>4. CASE Receiving!Verdict
  <2>1. /\ i = Receives /\ pc = "receive" /\ pc' = "exit"
        /\ exitcode' = (IF Receiving!TooLong THEN 1 ELSE 0)
        /\ UNCHANGED <<i, clock, worst, cause>>
    BY <1>4 DEF Receiving!Verdict, Receiving!Goto
  <2>2. Receiving!TooLong' <=> Receiving!TooLong
    BY <2>1 DEF Receiving!TooLong
  <2>3. exitcode' \in {0, 1} /\ (exitcode' = 1 <=> Receiving!TooLong')
    BY <2>1, <2>2
  <2>4. ReceivingTypes'
    BY <2>1, <2>3 DEF ReceivingInv, ReceivingTypes
  <2>5. TimeInv'
    BY <2>1, <2>3 DEF ReceivingInv, TimeInv
  <2> QED
    BY <2>4, <2>5 DEF ReceivingInv
<1> QED
  BY <1>1, <1>2, <1>3, <1>4, ReceivingTimesOut, ReceivingCutShort
  DEF Receiving!Next, Receiving!Main

\* What is too long for all receives together.
LEMMA TooLongSums ==
  ASSUME ReceivingInv
  PROVE  /\ Receiving!TooLong <=>
              clock >= Times(Receives, TARGET_TIMEOUT) + Times(Receives, UNRESONABLE_LATENCY + 1)
         /\ Times(Receives, TARGET_TIMEOUT) \in Int
         /\ Times(Receives, UNRESONABLE_LATENCY + 1) \in Int
<1> USE ReceivingNumbers
<1>1. clock \in Int /\ TARGET_TIMEOUT + UNRESONABLE_LATENCY \in Int
      /\ UNRESONABLE_LATENCY + 1 \in Int
  BY DEF ReceivingInv, ReceivingTypes
<1>2. Receiving!TooLong <=> clock >= Times(Receives, (TARGET_TIMEOUT + UNRESONABLE_LATENCY) + 1)
  BY <1>1, MeanAbove DEF Receiving!TooLong
<1>3. (TARGET_TIMEOUT + UNRESONABLE_LATENCY) + 1 = TARGET_TIMEOUT + (UNRESONABLE_LATENCY + 1)
  OBVIOUS
<1>4. Times(Receives, TARGET_TIMEOUT + (UNRESONABLE_LATENCY + 1))
        = Times(Receives, TARGET_TIMEOUT) + Times(Receives, UNRESONABLE_LATENCY + 1)
  BY <1>1 DEF Times
<1> QED
  BY <1>1, <1>2, <1>3, <1>4, TimesInt

\* A time that is not too long has no receive that is.
LEMMA LateReceivesShow == ReceivingInv => Receiving!LateReceiveFails
<1> USE ReceivingNumbers
<1> SUFFICES ASSUME ReceivingInv, pc = "exit", cause = "none",
                    worst >= Receives * (UNRESONABLE_LATENCY + 1)
             PROVE  exitcode = 1
  BY DEF Receiving!LateReceiveFails
<1>1. /\ clock >= Times(Receives, TARGET_TIMEOUT) + worst
      /\ exitcode = 1 <=> Receiving!TooLong
  BY DEF ReceivingInv, TimeInv
<1>2. worst >= Times(Receives, UNRESONABLE_LATENCY + 1)
  BY DEF Times
<1>3. worst \in Int /\ clock \in Int
  BY DEF ReceivingInv, ReceivingTypes
<1>4. /\ Times(Receives, TARGET_TIMEOUT) \in Int
      /\ Times(Receives, UNRESONABLE_LATENCY + 1) \in Int
  BY TooLongSums
<1>5. clock >= Times(Receives, TARGET_TIMEOUT) + Times(Receives, UNRESONABLE_LATENCY + 1)
  BY <1>1, <1>2, <1>3, <1>4
<1> QED
  BY <1>1, <1>5, TooLongSums

\* A receive so late that the mean of all is too large fails the program, if nothing
\* cut one short.
THEOREM NoLateReceiveIsMissed == Receiving!Spec => []Receiving!LateReceiveFails
BY LateReceivesShow, ReceivingStarts, ReceivingSteps, PTL DEF Receiving!Spec

\* A time that is too long has a receive that is.
LEMMA OnlyLateReceivesShow == ReceivingInv => Receiving!OnlyLatenessFails
<1> USE ReceivingNumbers
<1> SUFFICES ASSUME ReceivingInv, exitcode = 1, worst <= UNRESONABLE_LATENCY,
                    cause \notin {"error", "set"}
             PROVE  FALSE
  BY DEF Receiving!OnlyLatenessFails, ReceivingInv, ReceivingTypes
<1>1. pc = "exit" /\ cause \in {"none", "message"} /\ cause # "error"
      /\ worst \in Nat /\ clock \in Int
  BY DEF ReceivingInv, ReceivingTypes
<1>2. clock <= Times(Receives, TARGET_TIMEOUT + worst) /\ Receiving!TooLong
  BY <1>1 DEF ReceivingInv, TimeInv
<1>3. Times(Receives, TARGET_TIMEOUT + worst)
        = Times(Receives, TARGET_TIMEOUT) + Times(Receives, worst)
  BY <1>1 DEF Times
<1>4. worst + 1 <= UNRESONABLE_LATENCY + 1 /\ worst + 1 \in Int /\ UNRESONABLE_LATENCY + 1 \in Int
  BY <1>1
<1>5. Times(Receives, worst + 1) <= Times(Receives, UNRESONABLE_LATENCY + 1)
  BY <1>4, TimesOrder
<1>6. Times(Receives, worst + 1) = Times(Receives, worst) + Times(Receives, 1)
  BY <1>1 DEF Times
<1>7. Times(Receives, 1) >= 1 /\ Times(Receives, worst) \in Int /\ Times(Receives, 1) \in Int
  BY <1>1, TimesAtLeast, TimesInt
<1>8. /\ clock >= Times(Receives, TARGET_TIMEOUT) + Times(Receives, UNRESONABLE_LATENCY + 1)
      /\ Times(Receives, TARGET_TIMEOUT) \in Int
      /\ Times(Receives, UNRESONABLE_LATENCY + 1) \in Int
  BY <1>2, TooLongSums
<1> QED
  BY <1>1, <1>2, <1>3, <1>5, <1>6, <1>7, <1>8

\* The program fails only for a receive later than the limit, for an error, or because
\* the clock it does not measure by was set.
THEOREM SmallReceiveDelaysPass == Receiving!Spec => []Receiving!OnlyLatenessFails
BY OnlyLateReceivesShow, ReceivingStarts, ReceivingSteps, PTL DEF Receiving!Spec

-------------------------------------------------------------------------------
(* The suite: a behaviour is one of a program in a set-up, and an invariant  *)
(* of the program is one of the suite in that set-up.                      *)

SuiteInv ==
  /\ \A s \in Timings : setup = s => TimingInv(s)
  /\ setup \in Suspensions => SuspendingInv
  /\ setup = "averaging" => AveragingInv
  /\ setup = "receiving" => ReceivingInv

\* The invariant of the suite holds at the start: it is that of the program chosen.
LEMMA SuiteStarts == Init => SuiteInv
<1> SUFFICES ASSUME Init PROVE SuiteInv
  OBVIOUS
<1> USE DEF Timings, Suspensions
<1>1. CASE \E s \in Timings : setup = s /\ Timing(s)!Init
  BY <1>1, TimingStarts DEF SuiteInv
<1>2. CASE \E s \in Suspensions : setup = s /\ Suspending(s)!Init
  BY <1>2, SuspendingStarts DEF SuiteInv
<1>3. CASE setup = "averaging" /\ Averaging!Init
  BY <1>3, AveragingStarts DEF SuiteInv
<1>4. CASE setup = "receiving" /\ Receiving!Init
  BY <1>4, ReceivingStarts DEF SuiteInv
<1> QED
  BY <1>1, <1>2, <1>3, <1>4, Zenon DEF Init

\* Every step of the suite is a step of the program chosen, and keeps its invariant.
LEMMA SuiteSteps == SuiteInv /\ [Next]_vars => SuiteInv'
<1> SUFFICES ASSUME SuiteInv, [Next]_vars PROVE SuiteInv'
  OBVIOUS
<1>1. ASSUME NEW s \in Timings, SetTimerLat(s), Timing(s)!Next PROVE SuiteInv'
  <2>1. setup = s /\ setup' = s /\ TimingInv(s)'
    BY <1>1, TimingSteps DEF SetTimerLat, SuiteInv
  <2> QED
    BY <2>1 DEF SuiteInv, Timings, Suspensions
<1>2. ASSUME NEW s \in Suspensions, AlarmtimerSuspend(s), Suspending(s)!Next PROVE SuiteInv'
  <2>1. setup = s /\ setup' = s /\ SuspendingInv'
    BY <1>2, SuspendingSteps DEF AlarmtimerSuspend, SuiteInv
  <2> QED
    BY <2>1 DEF SuiteInv, Timings, Suspensions
<1>3. CASE NsleepLat("averaging") /\ Averaging!Next
  <2>1. setup = "averaging" /\ setup' = "averaging" /\ AveragingInv'
    BY <1>3, AveragingSteps DEF NsleepLat, SuiteInv
  <2> QED
    BY <2>1 DEF SuiteInv, Timings, Suspensions
<1>4. CASE MqueueLat("receiving") /\ Receiving!Next
  <2>1. setup = "receiving" /\ setup' = "receiving" /\ ReceivingInv'
    BY <1>4, ReceivingSteps DEF MqueueLat, SuiteInv
  <2> QED
    BY <2>1 DEF SuiteInv, Timings, Suspensions
<1>5. CASE UNCHANGED vars
  <2> USE <1>5 DEF vars, commonVars, timerVars, latVars, suspendVars, meanVars, nsleepVars
  <2>1. setup' = setup
    OBVIOUS
  <2>2. ASSUME NEW s \in Timings, setup = s PROVE TimingInv(s)'
    BY <2>2, TimingSteps
    DEF SuiteInv, Timing!vars, Timing!kernelVars, Timing!handlerVars, Timing!history
  <2>3. setup \in Suspensions => SuspendingInv'
    BY SuspendingSteps
    DEF SuiteInv, Suspending!vars, Suspending!kernelVars, Suspending!handlerVars,
        Suspending!history
  <2>4. setup = "averaging" => AveragingInv'
    BY AveragingSteps DEF SuiteInv, Averaging!vars
  <2>5. setup = "receiving" => ReceivingInv'
    BY ReceivingSteps DEF SuiteInv, Receiving!vars
  <2> QED
    BY <2>1, <2>2, <2>3, <2>4, <2>5 DEF SuiteInv
<1> QED
  BY <1>1, <1>2, <1>3, <1>4, <1>5, Zenon DEF Next

\* Types, and the bounds on alarms and on the clock, in every set-up.
THEOREM SuiteTypes == Spec => []TypeOK
<1>1. SuiteInv => TypeOK
  BY TimingBounds, SuspendingBounds DEF SuiteInv, TypeOK
<1> QED
  BY <1>1, SuiteStarts, SuiteSteps, PTL DEF Spec

\* No alarm, resume, sleep or receive is so late or lost that a program must not
\* pass, and passes.
THEOREM SuiteMissesNoLateAlarm == Spec => []LateAlarmFails
<1>1. ASSUME SuiteInv, NEW s \in Timings, setup = s,
             s \in FiresEarly => UNREASONABLE_LATENCY < PERIOD
      PROVE  Timing(s)!LateAlarmFails
  BY <1>1, LateAlarmsShow DEF SuiteInv, OverrunsCount
<1>2. ASSUME SuiteInv, NEW s \in Suspensions, setup = s PROVE Suspending(s)!LateResumeFails
  BY <1>2, LateResumesShow DEF SuiteInv
<1>3. SuiteInv => LateAlarmFails
  BY <1>1, <1>2, LateSleepsShow, LateReceivesShow DEF SuiteInv, LateAlarmFails
<1> QED
  BY <1>3, SuiteStarts, SuiteSteps, PTL DEF Spec

\* Nothing but lateness fails the programs; in set-timer-lat the arming of a relative timer
\* counts as such.
THEOREM SuiteFailsOnlyForLateness == Spec => []OnlyLatenessFails
<1>1. ASSUME SuiteInv, NEW s \in Timings, setup = s PROVE Timing(s)!OnlyLatenessFails
  BY <1>1
  DEF SuiteInv, TimingInv, LatencyInv, Timing!OnlyLatenessFails, ArmingCost, Timing!ABSTIME
<1>2. ASSUME SuiteInv, NEW s \in Suspensions, setup = s PROVE Suspending(s)!OnlyLateResumeFails
  BY <1>2 DEF SuiteInv, SuspendingInv, FailInv, Suspending!OnlyLateResumeFails
<1>3. SuiteInv => OnlyLatenessFails
  BY <1>1, <1>2, OnlyLateSleepsShow, OnlyLateReceivesShow DEF SuiteInv, OnlyLatenessFails
<1> QED
  BY <1>3, SuiteStarts, SuiteSteps, PTL DEF Spec

\* A pass has slept all lengths on all clocks, and suspended on both.
THEOREM SuiteTriesAll == Spec => []PassMeansAllTried
<1>1. ASSUME SuiteInv, NEW s \in Suspensions, setup = s, MaxLate < 5 * PERIOD
      PROVE  Suspending(s)!BothClocksSuspend
  BY <1>1, AllSuspended DEF SuiteInv, Prompt
<1>2. SuiteInv => PassMeansAllTried
  BY <1>1, AllSlept DEF SuiteInv, PassMeansAllTried
<1> QED
  BY <1>2, SuiteStarts, SuiteSteps, PTL DEF Spec

\* No signal and no expiry of a deleted timer reaches the next.
THEOREM SuiteHasNoStaleAlarm == Spec => []NoStaleAlarm
<1>1. SuiteInv => NoStaleAlarm
  BY DEF SuiteInv, NoStaleAlarm, TimingInv, SignalInv, Timing!NoStaleAlarm, InLoop
<1> QED
  BY <1>1, SuiteStarts, SuiteSteps, PTL DEF Spec

\* The machine is suspended only with an alarm to come.
THEOREM SuiteWakesUp == Spec => []AlarmIsSet
<1>1. SuiteInv => AlarmIsSet
  BY DEF SuiteInv, AlarmIsSet, SuspendingInv, AlarmInv, Suspending!AlarmIsSet, Armed, Running
<1> QED
  BY <1>1, SuiteStarts, SuiteSteps, PTL DEF Spec
===============================================================================
