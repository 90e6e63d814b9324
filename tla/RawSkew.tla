-------------------------------- MODULE RawSkew --------------------------------
(***************************************************************************)
(* raw_skew.c: the frequency that adjtimex reports is compared with how far *)
(* CLOCK_MONOTONIC gets ahead of CLOCK_MONOTONIC_RAW in two minutes.        *)
(*                                                                         *)
(* freq is in units of 1 / 2^SHIFT ppm, as in struct timex; rates are in    *)
(* parts of NSEC_PER_SEC, KPPM to the ppm.                                  *)
(***************************************************************************)
EXTENDS MonotonicAndRaw

CONSTANTS
  NSEC_PER_SEC,  \* 10^9 (scaled down for TLC)
  KPPM,          \* 1000 (scaled down)
  SHIFT,         \* 16 (scaled down)
  SLEEP,         \* seconds of sleep: 120 (scaled down)
  Freqs,         \* frequencies the kernel may run at
  Faults,        \* by how much the rate of its clock may be off
  Ntpd           \* TRUE: the frequency may be changed before and after the sleep

\* Round towards 0, as the macro and C's division do.
shift_right(x, s) == IF x < 0 THEN -((-x) \div 2 ^ s) ELSE x \div 2 ^ s
Quotient(a, b)    == IF a < 0 THEN -((-a) \div b) ELSE a \div b
llabs(val)        == IF val < 0 THEN -val ELSE val

\* A frequency as a rate.
Rate(f) == shift_right(f * KPPM, SHIFT)

\* What the constants may be.  The two clocks run at about the same rate: the kernel
\* takes 500 ppm.
RawSkewAssumption ==
  /\ GapsAssumption
  /\ {NSEC_PER_SEC, KPPM, SHIFT, 2 ^ SHIFT} \subseteq Nat \ {0} /\ SLEEP \in Nat \ {0, 1}
  /\ Freqs \subseteq Int /\ Faults \subseteq Int /\ Ntpd \in BOOLEAN
  /\ \A f \in Freqs, e \in Faults : 2 * llabs(Rate(f) + e) <= NSEC_PER_SEC

VARIABLES
  freq, fault,     \* the kernel's frequency as adjtimex reports it, and its fault
  pc,
  tx1_freq,
  first, second,   \* the two readings
  exitcode,
  changed          \* history: the frequency was changed on the way

kernelVars == <<freq, fault, clock, gain>>
vars == <<kernelVars, pc, tx1_freq, first, second, exitcode, changed>>

Init ==
  /\ freq \in Freqs /\ fault \in Faults /\ clock = 0 /\ gain = 0
  /\ pc = "first" /\ tx1_freq = 0 /\ exitcode = 0 /\ changed = FALSE
  /\ first = Reading(None) /\ second = Reading(None)

Goto(from, to) == pc = from /\ pc' = to

\* No CLOCK_MONOTONIC_RAW: nothing is done.  Or adjtimex and the first pair.
First ==
  /\ \/ Goto("first", "exit") /\ exitcode' = 255 /\ UNCHANGED <<clock, tx1_freq, first>>
     \/ /\ Goto("first", "sleep") /\ tx1_freq' = freq /\ exitcode' = exitcode
        /\ \E p \in Pairs : first' = Reading(p) /\ clock' = clock + p.t
  /\ UNCHANGED <<freq, fault, gain, second, changed>>

\* sleep(120)
Sleep ==
  /\ Goto("sleep", "second")
  /\ Run(SLEEP * NSEC_PER_SEC, Rate(freq) + fault, NSEC_PER_SEC)
  /\ UNCHANGED <<freq, fault, tx1_freq, first, second, exitcode, changed>>

\* An ntpd changes the frequency.
ChangeFreq ==
  /\ Ntpd /\ pc \in {"sleep", "second"} /\ \E f \in Freqs \ {freq} : freq' = f
  /\ changed' = TRUE
  /\ UNCHANGED <<fault, clock, gain, pc, tx1_freq, first, second, exitcode>>

\* The second pair, and adjtimex: from here on freq is what it reports.
Second ==
  /\ Goto("second", "verdict")
  /\ \E p \in Pairs : second' = Reading(p) /\ clock' = clock + p.t
  /\ UNCHANGED <<freq, fault, gain, tx1_freq, first, exitcode, changed>>

\* The estimate; delta is how far RAW is ahead.
delta(r) == r.raw - r.mon
eppm == -Quotient((delta(second) - delta(first)) * NSEC_PER_SEC, second.mon - first.mon)

\* The average of the two reported frequencies is overwritten with the first.
ppm == Rate(tx1_freq)

\* Mutant: only a clock that is too fast fails.
Verdict_OneSided ==
  /\ Goto("verdict", "exit")
  /\ exitcode' = IF eppm - ppm > KPPM THEN 1 ELSE 0
  /\ UNCHANGED <<kernelVars, tx1_freq, first, second, changed>>

Verdict ==
  /\ Goto("verdict", "exit")
  /\ exitcode' = IF llabs(eppm - ppm) > KPPM THEN 1 ELSE 0
  /\ UNCHANGED <<kernelVars, tx1_freq, first, second, changed>>

Main == First \/ Sleep \/ Second \/ Verdict
Next == Main \/ ChangeFreq \/ (pc = "exit" /\ UNCHANGED vars)

Spec == Init /\ [][Next]_vars

-------------------------------------------------------------------------------
(* Properties.                                                             *)

\* How far the estimate may be off at a rate: by the windows of the readings, and
\* because it is a share of CLOCK_MONOTONIC's time and the rate one of RAW's, that is
\* of the time slept.
span == second.mon - first.mon
Distorted(rate) == (llabs(rate) * llabs(span - SLEEP * NSEC_PER_SEC)) \div span
Off(rate) == Uncertainty(first, second, span, NSEC_PER_SEC) + Distorted(rate) + 1

\* A clock that runs at the rate reported passes, if the windows of the two
\* readings can tell a ppm.
NoFalseAlarm ==
  pc = "exit" /\ exitcode = 1 /\ ~changed /\ fault = 0 => Off(Rate(freq)) > KPPM

\* One that is off by more than a ppm and what the windows hide fails, fast or
\* slow, whichever sign the frequency has.
FaultIsFound ==
  pc = "exit" /\ exitcode = 0 /\ ~changed =>
    llabs(fault) <= KPPM + Off(Rate(freq) + fault)

\* "Avg the two actual freq samples adjtimex gave us": what the clock ran at is
\* compared with the average of both.
Average == shift_right(((tx1_freq + freq) * KPPM) \div 2, SHIFT)

JudgedByAverage ==
  pc = "exit" /\ exitcode # 255 => (exitcode = 1 <=> llabs(eppm - Average) > KPPM)
===============================================================================
