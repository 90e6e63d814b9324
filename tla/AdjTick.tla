-------------------------------- MODULE AdjTick --------------------------------
(***************************************************************************)
(* adjtick.c: the kernel's tick is moved in steps through 10 % around its   *)
(* nominal length, and after each step the rate of CLOCK_MONOTONIC against  *)
(* CLOCK_MONOTONIC_RAW must be what the tick makes it.  What an ntpd that is *)
(* still there has changed shows in the frequency and the offset that are   *)
(* read back, if it has not gone back to 0 by then.                        *)
(*                                                                         *)
(* Rates are in parts of MILLION.                                          *)
(***************************************************************************)
EXTENDS MonotonicAndRaw

CONSTANTS
  MILLION,
  SYSTICK,     \* the nominal tick, in microseconds: 10000 (scaled down)
  TOLERANCE,   \* 100 (scaled down)
  SLEEP,       \* nanoseconds in sleep(15)
  Faults,      \* by how much the rate of the clock may be off what tick and freq say
  Freqs,       \* what an ntpd may set the frequency to
  Slews        \* what an offset of its may add to the rate while it is slewed

max      == SYSTICK \div 10
interval == max \div 4

llabs(val) == IF val < 0 THEN -val ELSE val

\* What the constants may be.  A nominal tick below 40 would not move; in a sleep a ppm
\* is some nanoseconds; and the clock goes forward.
AdjTickAssumption ==
  /\ GapsAssumption
  /\ {MILLION, SYSTICK, TOLERANCE, SLEEP, interval} \subseteq Nat \ {0}
  /\ 2 * MILLION <= SLEEP
  /\ {Faults, Freqs, Slews} \subseteq SUBSET Int
  /\ \A f \in Freqs, o \in Slews, e \in Faults : 2 * llabs(f + o + e) <= MILLION

VARIABLES
  tx_tick, freq,   \* the kernel's tick and frequency
  tx_offset,       \* the offset that it slews, as what that adds to the rate
  fault,
  privileged,      \* adjtimex may change them
  pc, tick,
  first, second,   \* the two readings
  exitcode,
  tested,          \* history: <<tick, freq, offset>> in effect where the verdict was [OK]
  moved,           \* history: what freq and offset added to the rate in the last sleep
  disturbed        \* history: an ntpd has come since the tick was set

kernelVars == <<tx_tick, freq, tx_offset, fault, privileged, clock, gain>>
vars == <<kernelVars, pc, tick, first, second, exitcode, tested, moved, disturbed>>

Init ==
  /\ tx_tick \in {SYSTICK, SYSTICK + max} /\ freq \in Freqs /\ tx_offset \in Slews
  /\ fault \in Faults /\ privileged \in BOOLEAN /\ clock = 0 /\ gain = 0
  /\ pc = "start" /\ tick = SYSTICK - max /\ first = Reading(None) /\ second = Reading(None)
  /\ exitcode = 0 /\ tested = {} /\ moved = 0 /\ disturbed = FALSE

Goto(from, to) == pc = from /\ pc' = to

\* No CLOCK_MONOTONIC_RAW: nothing is done.
Start ==
  /\ \/ Goto("start", "tick") /\ exitcode' = exitcode
     \/ Goto("start", "exit") /\ exitcode' = 255
  /\ UNCHANGED <<kernelVars, tick, first, second, tested, moved, disturbed>>

\* check_tick_adj: adjtimex sets the tick and clears frequency and offset.  (It also
\* sets STA_PLL, without which the offset of 0 would not be heeded, here and in Reset.)
SetTick ==
  /\ Goto("tick", "first")
  /\ IF privileged THEN tx_tick' = tick /\ freq' = 0 /\ tx_offset' = 0
     ELSE UNCHANGED <<tx_tick, freq, tx_offset>>
  /\ clock' = 0 /\ gain' = 0 /\ disturbed' = FALSE
  /\ UNCHANGED <<fault, privileged, tick, first, second, exitcode, tested, moved>>

\* An ntpd that was not killed, any number of times.  It may also take back what it has
\* changed, and an offset runs out by itself.
Ntpd ==
  /\ pc \notin {"start", "exit"}
  /\ freq' \in Freqs /\ tx_offset' \in Slews
  /\ disturbed' = (disturbed \/ pc \in {"first", "sleep", "second", "check"})
  /\ UNCHANGED <<tx_tick, fault, privileged, clock, gain, pc, tick, first, second, exitcode,
                 tested, moved>>

\* get_ppm_drift: a reading, sleep(15), a reading.
First ==
  /\ Goto("first", "sleep")
  /\ \E p \in Pairs : first' = Reading(p) /\ clock' = clock + p.t
  /\ UNCHANGED <<tx_tick, freq, tx_offset, fault, privileged, gain, tick, second, exitcode,
                 tested, moved, disturbed>>

\* What a tick makes of the rate.
ppm(t) == (t * MILLION) \div SYSTICK - MILLION

\* A rate that changes in the sleep counts as its mean.
Sleep ==
  /\ Goto("sleep", "second")
  /\ Run(SLEEP, ppm(tx_tick) + freq + tx_offset + fault, MILLION)
  /\ moved' = freq + tx_offset
  /\ UNCHANGED <<tx_tick, freq, tx_offset, fault, privileged, tick, first, second, exitcode,
                 tested, disturbed>>

Second ==
  /\ Goto("second", "check")
  /\ \E p \in Pairs : second' = Reading(p) /\ clock' = clock + p.t
  /\ UNCHANGED <<tx_tick, freq, tx_offset, fault, privileged, gain, tick, first, exitcode,
                 tested, moved, disturbed>>

eppm == ((second.mon - first.mon) * MILLION) \div (second.raw - first.raw) - MILLION

\* Mutant: the frequency and the offset are not read back.
Unexpected_Tick == tx_tick # tick

\* "make sure ntpd is not running": the tick is not the one that was set, or frequency
\* or offset are not 0.
Unexpected == tx_offset # 0 \/ freq # 0 \/ tx_tick # tick

\* [ERROR] or [FAILED] end the loop, [OK] leads to the next tick.
Check ==
  /\ pc = "check"
  /\ IF Unexpected \/ llabs(eppm - ppm(tick)) > TOLERANCE
     THEN pc' = "reset" /\ exitcode' = 1 /\ UNCHANGED <<tick, tested>>
     ELSE /\ pc' = IF tick + interval < SYSTICK + max THEN "tick" ELSE "reset"
          /\ tick' = tick + interval /\ tested' = tested \cup {<<tx_tick, freq, tx_offset>>}
          /\ exitcode' = exitcode
  /\ UNCHANGED <<kernelVars, first, second, moved, disturbed>>

\* Reset things to zero.
Reset ==
  /\ Goto("reset", "exit")
  /\ IF privileged THEN tx_tick' = SYSTICK /\ freq' = 0 /\ tx_offset' = 0
     ELSE UNCHANGED <<tx_tick, freq, tx_offset>>
  /\ UNCHANGED <<fault, privileged, clock, gain, tick, first, second, exitcode, tested, moved,
                 disturbed>>

Next ==
  \/ Start \/ SetTick \/ Ntpd \/ First \/ Sleep \/ Second \/ Check \/ Reset
  \/ pc = "exit" /\ UNCHANGED vars

Spec == Init /\ [][Next]_vars

-------------------------------------------------------------------------------
(* Properties.                                                             *)

\* How far the estimate may be off at a rate: by the windows of the readings, and because
\* the rate was the clock's in the time slept only, which is not all of the span.
span == second.raw - first.raw
Off(rate) ==
  Uncertainty(first, second, span, MILLION) + (llabs(rate) * (span - SLEEP)) \div span + 1

\* Whatever has failed on the way, the tick is the nominal one at the end, and
\* frequency and offset are 0.
ThingsAreSetBack ==
  pc = "exit" /\ privileged /\ exitcode # 255 => tx_tick = SYSTICK /\ freq = 0 /\ tx_offset = 0

\* The ticks of the loop.
Ticks == {t \in SYSTICK - max .. SYSTICK + max - 1 : (t - SYSTICK + max) % interval = 0}

\* A tick that the loop has left behind was in effect, and nothing else, when it was
\* found right; a pass means that all were; and a sound clock that no ntpd has touched
\* since the tick was set passes, if the windows of the readings can tell.
VerdictIsRight ==
  /\ \A t \in Ticks : t < tick => <<t, 0, 0>> \in tested
  /\ pc = "exit" =>
    /\ exitcode = 0 => privileged /\ \A t \in Ticks : t < tick
    /\ exitcode = 1 /\ privileged /\ ~disturbed /\ fault = 0 => Off(ppm(tick)) > TOLERANCE

\* A clock that does not follow the tick fails, be it a fault of its own or the work of
\* an ntpd that was gone again when it was looked for: one that passes was off by no
\* more than the tolerance and what the readings of the last tick hide.
FaultFails ==
  pc = "exit" /\ exitcode = 0 =>
    llabs(fault + moved) <= TOLERANCE + Off(ppm(tick - interval) + fault + moved)

\* "+/- 10%", "in 4 steps each side": both ends are tested.
BothSidesAreTested ==
  pc = "exit" /\ exitcode = 0 => \A t \in {SYSTICK - max, SYSTICK + max} : <<t, 0, 0>> \in tested
===============================================================================
