--------------------------- MODULE ConsistentOffsets ---------------------------
(***************************************************************************)
(* consistent-offsets.c: the offset of a clock from CLOCK_MONOTONIC, read   *)
(* between two reads of that, may not move from one reading to the next by  *)
(* more than a margin, which is a multiple of the time that two readings    *)
(* took when the program started.                                          *)
(***************************************************************************)
EXTENDS Integers

CONSTANTS
  maxclocks,   \* the clocks tested are 0 .. maxclocks - 1
  FACTOR,      \* from the first reading's time to the margin: 1000 (scaled down)
  runtime,     \* -t, in nanoseconds here
  NAP,         \* nanoseconds in usleep
  Delays,      \* nanoseconds that may pass between two reads
  Jumps        \* by how much the clock under test may be set while it is tested

\* What the constants may be.
OffsetsAssumption ==
  /\ {maxclocks, runtime} \subseteq Nat /\ {FACTOR, NAP} \subseteq Nat \ {0}
  /\ Delays \subseteq Nat /\ Delays # {} /\ Jumps \subseteq Int

VARIABLES
  offset,         \* of the clock under test
  pc, clockid,
  margin,
  sleep,          \* which of the two test_offsets of the clock
  elapsed,        \* mono - start
  off1, exitcode,
  last, prev,     \* history: the offsets at the last two readings, with their windows
  jumped          \* history: a clock was set while it was tested

vars == <<offset, pc, clockid, margin, sleep, elapsed, off1, exitcode, last, prev, jumped>>

llabs(val) == IF val < 0 THEN -val ELSE val

\* diff_timespec(mono, testclk, bound), with the two delays between the reads.
Off(d) == offset + d[1] - (d[1] + d[2]) \div 2
Seen(d) == [offset |-> offset, window |-> d[1] + d[2]]

Init ==
  /\ offset = 0 /\ pc = "margin" /\ clockid = 0 /\ margin = 0 /\ sleep = FALSE
  /\ elapsed = 0 /\ off1 = 0 /\ exitcode = 0 /\ jumped = FALSE
  /\ last = Seen(<<0, 0>>) /\ prev = Seen(<<0, 0>>)

Goto(from, to) == pc = from /\ pc' = to

\* The clock under test is set.
Jump ==
  /\ ~jumped /\ pc = "while" /\ jumped' = TRUE
  /\ \E j \in Jumps : offset' = offset + j
  /\ UNCHANGED <<pc, clockid, margin, sleep, elapsed, off1, exitcode, last, prev>>

\* Three reads give the margin.
Margin ==
  /\ Goto("margin", "start")
  /\ \E d \in Delays \X Delays : margin' = (d[1] + d[2]) * FACTOR
  /\ UNCHANGED <<offset, clockid, sleep, elapsed, off1, exitcode, last, prev, jumped>>

\* The first reading of test_offsets, or no clock is left.
Start ==
  /\ \/ clockid < maxclocks /\ Goto("start", "while")
        /\ \E d \in Delays \X Delays :
             /\ off1' = Off(d) /\ elapsed' = d[1] + d[2]
             /\ last' = Seen(d) /\ prev' = Seen(d)
     \/ clockid = maxclocks /\ Goto("start", "exit") /\ UNCHANGED <<elapsed, off1, last, prev>>
  /\ UNCHANGED <<offset, clockid, margin, sleep, exitcode, jumped>>

\* The time to go on to the next round.
Spent(d) == elapsed + d[1] + d[2] + (IF sleep THEN NAP ELSE 0)

Moved(off2) == llabs(off2 - off1) > margin

\* while (1): the offset has moved, -1 for the program; or it is time to break,
\* for the second test of this clock or the next clock; or another round.
Read ==
  /\ \E d \in Delays \X Delays :
       /\ last' = Seen(d) /\ prev' = last
       /\ \/ Moved(Off(d)) /\ Goto("while", "exit") /\ exitcode' = 255
             /\ UNCHANGED <<clockid, sleep, elapsed, off1>>
          \/ ~Moved(Off(d)) /\ elapsed > runtime /\ Goto("while", "start")
             /\ off1' = Off(d) /\ sleep' = ~sleep
             /\ clockid' = clockid + (IF sleep THEN 1 ELSE 0)
             /\ UNCHANGED <<elapsed, exitcode>>
          \/ ~Moved(Off(d)) /\ elapsed <= runtime /\ Goto("while", "while")
             /\ off1' = Off(d) /\ elapsed' = Spent(d)
             /\ UNCHANGED <<clockid, sleep, exitcode>>
  /\ UNCHANGED <<offset, margin, jumped>>

Main == Margin \/ Start \/ Read
Next == Main \/ Jump \/ (pc = "exit" /\ UNCHANGED vars)

Spec == Init /\ [][Next]_vars

-------------------------------------------------------------------------------
(* Properties.                                                             *)

\* A clock that nobody sets passes, however the reads are delayed, as long as
\* no reading takes longer than the margin.
NoFalseAlarm ==
  ~jumped /\ last.window <= margin /\ prev.window <= margin => exitcode = 0

\* A clock that is set by more than the margin and what the two readings around
\* it can hide fails.
FaultIsFound ==
  exitcode = 0 => llabs(last.offset - prev.offset) <= margin + last.window + prev.window

\* "gives too many false positives": a clock that nobody sets can fail.
NoFalsePositives == ~jumped => exitcode = 0
===============================================================================
