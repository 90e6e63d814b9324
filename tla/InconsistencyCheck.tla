-------------------------- MODULE InconsistencyCheck --------------------------
(***************************************************************************)
(* inconsistency-check.c: consistency_test fills a list with samples of one *)
(* clock, looks for a pair out of order, and repeats until the clock itself *)
(* says that the time is up.  main does so for one clock or for all.        *)
(*                                                                         *)
(* tv_sec is a long, which has WORD values.  It is kept as its bit pattern, *)
(* so that the casts to unsigned long cost nothing and differences wrap     *)
(* around.                                                                 *)
(***************************************************************************)
EXTENDS Timespec, FiniteSets

CONSTANTS
  WORD,            \* how many values a long has
  CALLS_PER_LOOP,  \* samples in the list
  runtime,         \* -t, an int
  userclock,       \* -c, or 0
  maxclocks,       \* userclock + 1 with -c, or NR_CLOCKIDS
  Absent,          \* clock ids that clock_gettime refuses or main skips
  Start,           \* tv_sec of the clocks when the program starts
  StepsBack,       \* how many times the clock under test steps back
  MaxTicks         \* how many times it moves forward

\* What the constants may be.
InconsistencyAssumption ==
  /\ WORD \in Nat \ {0} /\ CALLS_PER_LOOP \in Nat \ {0}
  /\ runtime \in -(WORD \div 2) .. WORD \div 2 - 1
  /\ userclock \in Nat /\ maxclocks \in Nat /\ Start \in 0 .. WORD - 1
  /\ StepsBack \in Nat /\ MaxTicks \in Nat

VARIABLES
  clock,            \* the clock under test
  ticks, steps,     \* how often it has moved forward and stepped back
  pc, clockid,      \* where the program is, and at which clock
  list, i, inconsistent, now, then,
  exitcode, verdicts,
  elapsed           \* history: seconds the test of this clock has really taken

clockVars == <<clock, ticks, steps, elapsed>>
vars == <<clockVars, pc, clockid, list, i, inconsistent, now, then, exitcode, verdicts>>

Calls == 0 .. CALLS_PER_LOOP - 1
Words == 0 .. WORD - 1
Instants == [tv_sec : Words, tv_nsec : 0 .. NSEC_PER_SEC - 1]

Unsigned(n) == n % WORD

Init ==
  /\ clock = [tv_sec |-> Start, tv_nsec |-> 0] /\ ticks = 0 /\ steps = 0 /\ elapsed = 0
  /\ pc = "next" /\ clockid = userclock
  /\ list = [c \in Calls |-> clock]
  /\ i = 0 /\ inconsistent = 0 /\ now = 0 /\ then = 0
  /\ exitcode = 0 /\ verdicts = {}

-------------------------------------------------------------------------------
(* The clock under test.                                                   *)

\* It moves to the next nanosecond or to the next second.
Tick ==
  /\ pc # "exit" /\ ticks < MaxTicks /\ ticks' = ticks + 1
  /\ LET c == timespec_add(clock, 1)
     IN  /\ clock' = [c EXCEPT !.tv_sec = Unsigned(@)]
         /\ elapsed' = elapsed + (c.tv_sec - clock.tv_sec)
  /\ UNCHANGED <<steps, pc, clockid, list, i, inconsistent, now, then, exitcode, verdicts>>

\* It is set back, or is faulty.
StepBack ==
  /\ pc # "exit" /\ steps < StepsBack /\ steps' = steps + 1
  /\ \E c \in Instants : ~in_order(clock, c) /\ clock' = c
  /\ UNCHANGED <<ticks, elapsed, pc, clockid, list, i, inconsistent, now, then, exitcode,
                 verdicts>>

-------------------------------------------------------------------------------
(* consistency_test.                                                       *)

Goto(from, to) == pc = from /\ pc' = to

\* Mutant: then is taken once, for the first clock.
NextClock_KeepsThen ==
  /\ IF clockid >= maxclocks
     THEN Goto("next", "exit") /\ UNCHANGED <<clockid, list, now, then, elapsed>>
     ELSE IF clockid \in Absent
     THEN Goto("next", "next") /\ clockid' = clockid + 1 /\ UNCHANGED <<list, now, then, elapsed>>
     ELSE /\ Goto("next", "while")
          /\ list' = [list EXCEPT ![0] = clock]
          /\ now' = clock.tv_sec /\ elapsed' = 0
          /\ then' = IF clockid = userclock THEN clock.tv_sec ELSE then
          /\ UNCHANGED clockid
  /\ UNCHANGED <<clock, ticks, steps, i, inconsistent, exitcode, verdicts>>

\* The next clock: skipped, or its test begins with a first sample.
NextClock ==
  /\ IF clockid >= maxclocks
     THEN Goto("next", "exit") /\ UNCHANGED <<clockid, list, now, then, elapsed>>
     ELSE IF clockid \in Absent
     THEN Goto("next", "next") /\ clockid' = clockid + 1 /\ UNCHANGED <<list, now, then, elapsed>>
     ELSE /\ Goto("next", "while")
          /\ list' = [list EXCEPT ![0] = clock]
          /\ now' = clock.tv_sec /\ then' = clock.tv_sec /\ elapsed' = 0
          /\ UNCHANGED clockid
  /\ UNCHANGED <<clock, ticks, steps, i, inconsistent, exitcode, verdicts>>

\* while (seconds == -1 || now - then < seconds), all unsigned: another batch,
\* or [OK] and the next clock.
Runs == runtime = -1 \/ Unsigned(now - then) < Unsigned(runtime)

TestTime ==
  /\ \/ Runs /\ Goto("while", "fill")
        /\ i' = 0 /\ inconsistent' = 0 /\ UNCHANGED <<clockid, verdicts>>
     \/ ~Runs /\ Goto("while", "next")
        /\ verdicts' = verdicts \cup {"OK"} /\ clockid' = clockid + 1
        /\ UNCHANGED <<i, inconsistent>>
  /\ UNCHANGED <<clockVars, list, now, then, exitcode>>

\* Mutant: one sample too many.
Fill_TooFar ==
  /\ Goto("fill", IF i < CALLS_PER_LOOP THEN "fill" ELSE "check")
  /\ list' = [list EXCEPT ![i] = clock]
  /\ i' = i + 1
  /\ UNCHANGED <<clockVars, clockid, inconsistent, now, then, exitcode, verdicts>>

Fill ==
  /\ Goto("fill", IF i + 1 < CALLS_PER_LOOP THEN "fill" ELSE "check")
  /\ list' = [list EXCEPT ![i] = clock]
  /\ i' = i + 1
  /\ UNCHANGED <<clockVars, clockid, inconsistent, now, then, exitcode, verdicts>>

\* Mutant: the seconds are compared as signed.
Signed(n) == IF n >= WORD \div 2 THEN n - WORD ELSE n

last_inconsistent_Signed ==
  LET s(c) == [list[c] EXCEPT !.tv_sec = Signed(@)]
      bad  == {c \in Calls : c + 1 \in Calls /\ ~in_order(s(c), s(c + 1))}
  IN  IF bad = {} THEN 0 ELSE CHOOSE c \in bad : \A d \in bad : d <= c

\* The last pair out of order, 0 if there is none.
last_inconsistent ==
  LET bad == {c \in Calls : c + 1 \in Calls /\ ~in_order(list[c], list[c + 1])}
  IN  IF bad = {} THEN 0 ELSE CHOOSE c \in bad : \A d \in bad : d <= c

\* Check for inconsistencies: if (inconsistent), dump, [FAILED] and out.
Check ==
  /\ Goto("check", IF last_inconsistent # 0 THEN "exit" ELSE "while")
  /\ inconsistent' = last_inconsistent
  /\ IF last_inconsistent # 0
     THEN exitcode' = 1 /\ verdicts' = verdicts \cup {"FAILED"} /\ now' = now
     ELSE now' = list[0].tv_sec /\ UNCHANGED <<exitcode, verdicts>>
  /\ UNCHANGED <<clockVars, clockid, list, i, then>>

Next ==
  \/ Tick \/ StepBack
  \/ NextClock \/ TestTime \/ Fill \/ Check
  \/ pc = "exit" /\ UNCHANGED vars

Spec == Init /\ [][Next]_vars

-------------------------------------------------------------------------------
(* Properties.                                                             *)

\* Type invariant.
TypeOK ==
  /\ clock \in Instants /\ ticks \in 0 .. MaxTicks /\ steps \in 0 .. StepsBack
  /\ elapsed \in Nat
  /\ pc \in {"next", "while", "fill", "check", "exit"} /\ clockid \in Nat
  /\ list \in [Calls -> Instants] /\ i \in 0 .. CALLS_PER_LOOP /\ inconsistent \in Calls
  /\ now \in Words /\ then \in Words
  /\ exitcode \in {0, 1} /\ verdicts \subseteq {"OK", "FAILED"}

\* "use unsigned to avoid false positives on 2038 rollover": a clock that only
\* moves forward passes, also over the second where a signed tv_sec goes
\* negative.
NoFalseAlarm == steps = 0 => "FAILED" \notin verdicts /\ exitcode = 0

\* On a clock that only moves forward a test lasts at least the seconds asked
\* for before it says [OK].
HealthyRunIsLongEnough ==
  steps = 0 /\ pc = "while" /\ ~Runs => elapsed >= runtime

\* A step back inside a batch, after its first pair, always fails the test.
LaterStepBackFails ==
  pc = "while" /\ inconsistent = 0 /\ i = CALLS_PER_LOOP =>
     \A c \in Calls \ {0} : c + 1 \in Calls => in_order(list[c], list[c + 1])

\* "Check for inconsistencies": a batch that is passed over is in order.
EveryStepBackFails ==
  pc = "while" /\ inconsistent = 0 /\ i = CALLS_PER_LOOP =>
     \A c \in Calls : c + 1 \in Calls => in_order(list[c], list[c + 1])

\* "-t: Number of seconds to run": no verdict of [OK] comes before that.
RunIsLongEnough == pc = "while" /\ ~Runs => elapsed >= runtime
===============================================================================
