------------------------------- MODULE Nanosleep -------------------------------
(***************************************************************************)
(* nanosleep.c: for every clock and for lengths from 10 ns to 10 s, an      *)
(* absolute and a relative clock_nanosleep, each of which must not return   *)
(* before its target as the clock itself tells the time.  One action is one *)
(* system call.  Time is counted in nanoseconds; MaxLate of them may pass   *)
(* in one nanosleep_test while the program is not asleep.                   *)
(***************************************************************************)
EXTENDS Integers

CONSTANTS
  NrClocks,     \* how many clock ids main does not skip
  NoClock,      \* the ones of them clock_gettime refuses
  NoSleep,      \* the ones of them that cannot be slept on
  FIRST,        \* length of the first sleep
  FACTOR,       \* from one length to the next
  LAST,         \* length of the longest sleep
  Early,        \* how much too early the kernel may end a sleep
  MaxLate,      \* nanoseconds of delay in one nanosleep_test
  StepsBack     \* TRUE: the clock may be set back, once in a nanosleep_test

\* What the constants may be.
NanosleepAssumption ==
  /\ NrClocks \in Nat /\ FIRST \in Nat \ {0} /\ FACTOR \in Nat \ {0, 1} /\ LAST \in Nat /\ FIRST <= LAST
  /\ Early \in Nat /\ MaxLate \in Nat /\ StepsBack \in BOOLEAN

VARIABLES
  clock,              \* the clock under test
  wake,               \* when the kernel is to end the sleep
  pc, clockid, length,
  target,
  exitcode,
  late,               \* nanoseconds of delay in this nanosleep_test
  early,              \* history: by how much this test's sleeps ended too early
  back,               \* history: where in this test the clock was set back
  slept               \* history: <<clockid, length>> tested

history == <<early, back, slept>>
vars == <<clock, wake, pc, clockid, length, target, exitcode, late, history>>

Init ==
  /\ clock = 0 /\ wake = 0 /\ pc = "abs" /\ clockid = 1 /\ length = FIRST
  /\ target = 0 /\ exitcode = 0 /\ late = 0
  /\ early = 0 /\ back = "none" /\ slept = {}

-------------------------------------------------------------------------------
(* The clock under test.                                                   *)

Asleep == pc \in {"absleep", "relsleep"} /\ clock < wake

Tick ==
  /\ pc # "exit" /\ clockid <= NrClocks /\ clock' = clock + 1
  /\ Asleep \/ late < MaxLate
  /\ late' = IF Asleep THEN late ELSE late + 1
  /\ UNCHANGED <<wake, pc, clockid, length, target, exitcode, history>>

\* It is set back.  An absolute sleep goes by the new time unless it is over already
\* ("abread", whether clock_nanosleep has returned or not), a relative one lasts no
\* longer for it.
StepBack ==
  /\ StepsBack /\ back = "none" /\ pc # "exit" /\ clockid <= NrClocks
  /\ pc = "absleep" => clockid \notin NoSleep
  /\ clock > 0 /\ clock' = clock - 1
  /\ IF pc = "absleep" /\ ~Asleep
     THEN back' = "abread" /\ wake' = wake - 1
     ELSE back' = pc /\ wake' = IF pc = "relsleep" THEN wake - 1 ELSE wake
  /\ UNCHANGED <<pc, clockid, length, target, exitcode, late, early, slept>>

-------------------------------------------------------------------------------
(* nanosleep_test.                                                         *)

Goto(from, to) == pc = from /\ pc' = to

\* The while and the for loop: the next length, or the next clock.
NextClock == length' = FIRST /\ clockid' = clockid + 1

NextLength ==
  IF length * FACTOR <= LAST
  THEN length' = length * FACTOR /\ clockid' = clockid
  ELSE NextClock

\* First check abs time: clock_gettime and target.
GetTarget ==
  /\ clockid <= NrClocks /\ clockid \notin NoClock /\ Goto("abs", "absleep")
  /\ target' = clock + length
  /\ wake' = IF clockid \in NoSleep THEN clock ELSE target'
  /\ late' = 0 /\ early' = 0 /\ back' = "none"
  /\ UNCHANGED <<clock, clockid, length, exitcode, slept>>

\* Mutant: a clock that is not supported ends both loops.
NotSupported_Break ==
  /\ clockid <= NrClocks
  /\ \/ clockid \in NoClock /\ Goto("abs", "abs")
     \/ clockid \in NoSleep /\ Goto("absleep", "abs")
  /\ clockid' = NrClocks + 1 /\ length' = FIRST
  /\ UNCHANGED <<clock, wake, target, exitcode, late, history>>

\* Mutant: a clock that cannot be read is tried again.
NotSupported_Retries ==
  /\ clockid <= NrClocks
  /\ \/ clockid \in NoClock /\ Goto("abs", "abs") /\ UNCHANGED <<clockid, length>>
     \/ clockid \in NoSleep /\ Goto("absleep", "abs") /\ NextClock
  /\ UNCHANGED <<clock, wake, target, exitcode, late, history>>

\* clock_gettime or clock_nanosleep fails: [UNSUPPORTED], goto next.
NotSupported ==
  /\ clockid <= NrClocks
  /\ \/ clockid \in NoClock /\ Goto("abs", "abs")
     \/ clockid \in NoSleep /\ Goto("absleep", "abs")
  /\ NextClock
  /\ UNCHANGED <<clock, wake, target, exitcode, late, history>>

\* The kernel ends the sleep, on time or too early.
WakeUp ==
  /\ clockid \notin NoSleep
  /\ Goto("absleep", "abread") \/ Goto("relsleep", "relread")
  /\ clock >= wake - Early
  /\ early' = early + (IF clock < wake THEN wake - clock ELSE 0)
  /\ UNCHANGED <<clock, wake, clockid, length, target, exitcode, late, back, slept>>

\* Mutant: equal times are not in order.
in_order_Strict(a, b) == a < b

\* returns 1 if a <= b, 0 otherwise
in_order(a, b) == a <= b

\* clock_gettime; a target that lies ahead has been missed: [FAILED].
CheckAbs ==
  /\ IF in_order(target, clock)
     THEN Goto("abread", "rel") /\ exitcode' = exitcode
     ELSE Goto("abread", "exit") /\ exitcode' = 1
  /\ UNCHANGED <<clock, wake, clockid, length, target, late, history>>

\* Mutant: the length is not added to the relative target.
GetRelTarget_NoLength ==
  /\ Goto("rel", "relstart")
  /\ target' = clock
  /\ UNCHANGED <<clock, wake, clockid, length, exitcode, late, history>>

\* Second check reltime: clock_gettime and target ...
GetRelTarget ==
  /\ Goto("rel", "relstart")
  /\ target' = clock + length
  /\ UNCHANGED <<clock, wake, clockid, length, exitcode, late, history>>

\* ... and the sleep, which counts from when it is called.
RelSleep ==
  /\ Goto("relstart", "relsleep")
  /\ wake' = clock + length
  /\ UNCHANGED <<clock, clockid, length, target, exitcode, late, history>>

CheckRel ==
  /\ IF in_order(target, clock)
     THEN /\ Goto("relread", "abs") /\ NextLength /\ exitcode' = exitcode
          /\ slept' = slept \cup {<<clockid, length>>}
     ELSE /\ Goto("relread", "exit") /\ exitcode' = 1
          /\ UNCHANGED <<clockid, length, slept>>
  /\ UNCHANGED <<clock, wake, target, late, early, back>>

\* All clocks are done: ksft_exit_pass.
Pass ==
  /\ clockid > NrClocks /\ Goto("abs", "exit")
  /\ UNCHANGED <<clock, wake, clockid, length, target, exitcode, late, history>>

Main ==
  \/ GetTarget \/ NotSupported \/ WakeUp \/ CheckAbs \/ GetRelTarget \/ RelSleep
  \/ CheckRel \/ Pass

Next == Tick \/ StepBack \/ Main \/ (pc = "exit" /\ UNCHANGED vars)

Spec == Init /\ [][Next]_vars

\* Time passes and the program runs when it can.
FairSpec == Spec /\ WF_vars(Tick) /\ WF_vars(Main)

-------------------------------------------------------------------------------
(* Properties.                                                             *)

\* The lengths of the loop are the least set that it is closed in.
Closed(S) == FIRST \in S /\ \A n \in S : n * FACTOR <= LAST => n * FACTOR \in S
Lengths == {n \in FIRST .. LAST : \A S \in SUBSET (FIRST .. LAST) : Closed(S) => n \in S}
Supported == 1 .. NrClocks \ (NoClock \cup NoSleep)

\* Type invariant.
TypeOK ==
  /\ clock \in Nat /\ wake \in Nat /\ target \in Nat
  /\ pc \in {"abs", "absleep", "abread", "rel", "relstart", "relsleep", "relread", "exit"}
  /\ clockid \in 1 .. NrClocks + 1 /\ length \in Lengths /\ exitcode \in {0, 1}
  /\ late \in 0 .. MaxLate /\ slept \subseteq Supported \X Lengths
  /\ early \in 0 .. 2 * Early
  /\ back \in {"none", "abs", "absleep", "abread", "rel", "relstart", "relsleep", "relread"}

\* Where the clock may not be set back: after an absolute sleep until the clock is
\* read, and from the reading that a relative sleep is to be judged by to the last.
Exposed == {"abread", "relstart", "relsleep", "relread"}

\* [FAILED] is a fault of the kernel: the program only fails if a sleep of the test
\* really ended too early, however it is delayed between reading the clock and going to
\* sleep, and even if the clock is set back before or during an absolute sleep; but not
\* if that happens where it is exposed.
FailureIsReal == exitcode = 1 => early > 0 \/ back \in Exposed

\* A sleep that ends too early fails the program, unless the program itself was
\* held up at least as long: what both sleeps of a test that passed were too short
\* by is no more than its delays.
EarlyWakeFails ==
  pc = "abs" \/ (pc = "exit" /\ exitcode = 0) => early <= late

\* A pass means that every length was slept on every clock that can be slept on.
PassMeansAllSlept ==
  pc = "exit" /\ exitcode = 0 => slept = Supported \X Lengths

\* The program ends.
Ends == <>(pc = "exit")
===============================================================================
