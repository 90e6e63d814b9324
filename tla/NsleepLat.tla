------------------------------- MODULE NsleepLat -------------------------------
(***************************************************************************)
(* nsleep-lat.c: for every clock and for lengths from 10 ns to 1 s, the     *)
(* mean latency of ten relative sleeps, and then of ten absolute ones.      *)
(***************************************************************************)
EXTENDS Integers

CONSTANTS
  NrClocks,     \* how many clock ids main does not skip
  Unsupported,  \* the ones of them that cannot be read or slept on
  Lengths,      \* the lengths are numbered 1 .. Lengths
  count,        \* sleeps of each kind: 10 (scaled down)
  UNRESONABLE_LATENCY,
  Latencies,    \* by how much a sleep may end late; below 0, early
  Gaps          \* nanoseconds that may pass between a sleep and a read

\* What the constants may be.
NsleepLatAssumption ==
  /\ {NrClocks, UNRESONABLE_LATENCY} \subseteq Nat /\ {Lengths, count} \subseteq Nat \ {0}
  /\ Latencies \subseteq Int /\ Latencies # {} /\ Gaps \subseteq Nat /\ Gaps # {}

VARIABLES
  pc, clockid, length,
  i, latency,       \* sleeps done, and by how much they all were late
  exitcode,
  worst, early,     \* history: the longest latency in this test; a sleep ended early
  slept             \* history: <<clockid, length>> tested

vars == <<pc, clockid, length, i, latency, exitcode, worst, early, slept>>

Init ==
  /\ pc = "test" /\ clockid = 1 /\ length = 1 /\ i = 0 /\ latency = 0 /\ exitcode = 0
  /\ worst = 0 /\ early = FALSE /\ slept = {}

Goto(from, to) == pc = from /\ pc' = to

\* Mutant: the first clock that is not supported ends the program.
Test_Break ==
  /\ \/ clockid \in Unsupported /\ Goto("test", "exit") /\ UNCHANGED <<clockid, length>>
     \/ clockid \in (1 .. NrClocks) \ Unsupported /\ Goto("test", "rel")
        /\ UNCHANGED <<clockid, length>>
     \/ clockid > NrClocks /\ Goto("test", "exit") /\ UNCHANGED <<clockid, length>>
  /\ i' = 0 /\ latency' = 0 /\ worst' = 0 /\ early' = FALSE
  /\ UNCHANGED <<exitcode, slept>>

\* clock_gettime or the first sleep fails: [UNSUPPORTED] and the next clock; or
\* all clocks are done.
Test ==
  /\ \/ clockid \in Unsupported /\ Goto("test", "test") /\ clockid' = clockid + 1 /\ length' = 1
     \/ clockid \in (1 .. NrClocks) \ Unsupported /\ Goto("test", "rel")
        /\ UNCHANGED <<clockid, length>>
     \/ clockid > NrClocks /\ Goto("test", "exit") /\ UNCHANGED <<clockid, length>>
  /\ i' = 0 /\ latency' = 0 /\ worst' = 0 /\ early' = FALSE
  /\ UNCHANGED <<exitcode, slept>>

\* One of the ten sleeps, of which an absolute one is followed by a read.
Slept(l, gap) ==
  /\ i < count /\ i' = i + 1
  /\ latency' = latency + l + gap
  /\ worst' = IF l + gap > worst THEN l + gap ELSE worst
  /\ early' = (early \/ l < 0)

RelSleep ==
  /\ Goto("rel", "rel") /\ \E l \in Latencies : Slept(l, 0)
  /\ UNCHANGED <<clockid, length, exitcode, slept>>

AbsSleep ==
  /\ Goto("abs", "abs") /\ \E l \in Latencies, gap \in Gaps : Slept(l, gap)
  /\ UNCHANGED <<clockid, length, exitcode, slept>>

\* The mean latency is too large.
Large(sum) == sum \div count > UNRESONABLE_LATENCY

\* Large rel latency: [FAILED].  The ten are timed together, with what passes
\* before the read at their end.
RelDone ==
  /\ i = count
  /\ \E gap \in Gaps :
       \/ Large(latency + gap) /\ Goto("rel", "exit") /\ exitcode' = 1
          /\ UNCHANGED <<i, latency>>
       \/ ~Large(latency + gap) /\ Goto("rel", "abs") /\ exitcode' = exitcode
          /\ i' = 0 /\ latency' = 0
  /\ UNCHANGED <<clockid, length, worst, early, slept>>

\* Large abs latency: [FAILED]; or the next length, or the next clock.
AbsDone ==
  /\ i = count
  /\ \/ Large(latency) /\ Goto("abs", "exit") /\ exitcode' = 1
        /\ UNCHANGED <<clockid, length, slept>>
     \/ ~Large(latency) /\ Goto("abs", "test") /\ exitcode' = exitcode
        /\ slept' = slept \cup {<<clockid, length>>}
        /\ length' = (IF length < Lengths THEN length + 1 ELSE 1)
        /\ clockid' = clockid + (IF length < Lengths THEN 0 ELSE 1)
  /\ UNCHANGED <<i, latency, worst, early>>

Main == Test \/ RelSleep \/ AbsSleep \/ RelDone \/ AbsDone
Next == Main \/ (pc = "exit" /\ UNCHANGED vars)

Spec == Init /\ [][Next]_vars

-------------------------------------------------------------------------------
(* Properties.                                                             *)

\* No matter what the others took, a sleep that is so late that the mean of ten
\* is too large fails the program, unless some other ended early.
LateSleepFails ==
  pc = "test" /\ ~early => worst < count * (UNRESONABLE_LATENCY + 1)

\* Only late sleeps fail it: one at least was later than the limit, be it that
\* it ended late or that the read after the sleeps was held up.
OnlyLatenessFails ==
  exitcode = 1 => \E gap \in Gaps : worst + gap > UNRESONABLE_LATENCY

\* A pass has slept all lengths on all clocks that can be slept on.
PassMeansAllSlept ==
  pc = "exit" /\ exitcode = 0 => slept = ((1 .. NrClocks) \ Unsupported) \X (1 .. Lengths)
===============================================================================
