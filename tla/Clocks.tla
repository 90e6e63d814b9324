-------------------------------- MODULE Clocks --------------------------------
(***************************************************************************)
(* The programs that read a clock over and over and judge it:               *)
(* inconsistency-check, nanosleep, threadtest, raw_skew and                 *)
(* consistent-offsets.  One behaviour is a run of one of them, which Init   *)
(* chooses.                                                                *)
(***************************************************************************)
EXTENDS Integers

\* The constants of the programs, where they say what each is.
CONSTANTS
  NSEC_PER_SEC, runtime,                                \* inconsistency-check, threadtest
  WORD, CALLS_PER_LOOP, userclock, maxclocks, Absent, StepsBack, MaxTicks,
  ThreadCount, MAX_THREADS, LISTSIZE, Independent, MaxSec,
  NrClocks, NoClock, NoSleep, FIRST, FACTOR, LAST, Early, MaxLate, \* nanosleep
  KPPM, SHIFT, SLEEP, Freqs, Faults, Gaps, Ntpd,                   \* raw_skew
  NAP, Delays, Jumps                                               \* consistent-offsets

\* Those of a name that another program has.
CONSTANTS
  FirstSecond,                         \* Start of inconsistency-check
  SleepsStepBack,                      \* StepsBack of nanosleep
  SECOND,                              \* NSEC_PER_SEC of raw_skew
  OffsetClocks, MarginFactor, OffsetTime  \* maxclocks, FACTOR, runtime of consistent-offsets

VARIABLES
  setup,  \* the program, a constant of the behaviour
  clock, pc, clockid, exitcode, elapsed, list, i,
  ticks, steps, inconsistent, now, then, verdicts,
  faulty, count, list_lock, print_lock, done, slot, idx, mpc, ret, out,
  wake, length, target, late, early, back, slept,
  freq, fault, gain, tx1_freq, first, second, changed,
  offset, margin, sleep, off1, last, prev, jumped

\* The variables that more than one program has, and those of each.
commonVars == <<clock, pc, clockid, exitcode, elapsed, list, i>>
checkVars  == <<ticks, steps, inconsistent, now, then, verdicts>>
threadVars == <<faulty, count, list_lock, print_lock, done, slot, idx, mpc, ret, out>>
sleepVars  == <<wake, length, target, late, early, back, slept>>
skewVars   == <<freq, fault, gain, tx1_freq, first, second, changed>>
offsetVars == <<offset, margin, sleep, off1, last, prev, jumped>>
vars == <<setup, commonVars, checkVars, threadVars, sleepVars, skewVars, offsetVars>>

Checking == INSTANCE InconsistencyCheck WITH Start <- FirstSecond
Threading == INSTANCE ThreadTest WITH Runtime <- runtime
Sleeping == INSTANCE Nanosleep WITH StepsBack <- SleepsStepBack
Skewed   == INSTANCE RawSkew WITH NSEC_PER_SEC <- SECOND
Offsets  == INSTANCE ConsistentOffsets WITH
  maxclocks <- OffsetClocks, FACTOR <- MarginFactor, runtime <- OffsetTime

\* What the constants may be.  The clock that inconsistency-check tests stays within
\* the seconds of an unsigned long: until 2106 where that has 32 bits.  Beyond them
\* its going on is a step back to the program.
ASSUME ClocksAssumption ==
  /\ NSEC_PER_SEC \in Nat \ {0} /\ Checking!InconsistencyAssumption
  /\ FirstSecond + MaxTicks \div NSEC_PER_SEC < WORD
  /\ Threading!ThreadTestAssumption /\ Sleeping!NanosleepAssumption
  /\ Skewed!RawSkewAssumption /\ Offsets!OffsetsAssumption

-------------------------------------------------------------------------------
(* A step of one program leaves the variables of the others alone.          *)

InconsistencyCheck ==
  setup = "checking" /\ UNCHANGED <<setup, threadVars, sleepVars, skewVars, offsetVars>>
ThreadTest ==
  /\ setup = "threads"
  /\ UNCHANGED <<setup, clockid, exitcode, checkVars, sleepVars, skewVars, offsetVars>>
Nanosleep ==
  /\ setup = "sleeping"
  /\ UNCHANGED <<setup, elapsed, list, i, checkVars, threadVars, skewVars, offsetVars>>
RawSkew ==
  /\ setup = "skewed"
  /\ UNCHANGED <<setup, clockid, elapsed, list, i, checkVars, threadVars, sleepVars, offsetVars>>
ConsistentOffsets ==
  /\ setup = "offsets"
  /\ UNCHANGED <<setup, clock, list, i, checkVars, threadVars, sleepVars, skewVars>>

\* What the variables of the others are.
NoList   == list = <<>> /\ i = 0
NoCheck  == ticks = 0 /\ steps = 0 /\ inconsistent = 0 /\ now = 0 /\ then = 0 /\ verdicts = {}
NoThread == /\ faulty = FALSE /\ count = 0 /\ list_lock = 0 /\ print_lock = 0 /\ done = FALSE
            /\ slot = 0 /\ idx = 0 /\ mpc = "none" /\ ret = 0 /\ out = {}
NoNap    == /\ wake = 0 /\ length = 1 /\ target = 0 /\ late = 0 /\ early = 0 /\ back = "none"
            /\ slept = {}
NoSkew   == /\ freq = 0 /\ fault = 0 /\ gain = 0 /\ tx1_freq = 0 /\ first = 0 /\ second = 0
            /\ changed = FALSE
NoOffset == /\ offset = 0 /\ margin = 0 /\ sleep = FALSE /\ off1 = 0 /\ last = 0 /\ prev = 0
            /\ jumped = FALSE

Init ==
  \/ setup = "checking" /\ Checking!Init /\ NoThread /\ NoNap /\ NoSkew /\ NoOffset
  \/ /\ setup = "threads" /\ Threading!Init
     /\ clockid = 0 /\ exitcode = 0 /\ NoCheck /\ NoNap /\ NoSkew /\ NoOffset
  \/ /\ setup = "sleeping" /\ Sleeping!Init
     /\ elapsed = 0 /\ NoList /\ NoCheck /\ NoThread /\ NoSkew /\ NoOffset
  \/ /\ setup = "skewed" /\ Skewed!Init
     /\ clockid = 0 /\ elapsed = 0 /\ NoList /\ NoCheck /\ NoThread /\ NoNap /\ NoOffset
  \/ /\ setup = "offsets" /\ Offsets!Init
     /\ clock = 0 /\ NoList /\ NoCheck /\ NoThread /\ NoNap /\ NoSkew

Next ==
  \/ InconsistencyCheck /\ Checking!Next
  \/ ThreadTest /\ Threading!Next
  \/ Nanosleep /\ Sleeping!Next
  \/ RawSkew /\ Skewed!Next
  \/ ConsistentOffsets /\ Offsets!Next

Spec == Init /\ [][Next]_vars

\* The fairness of nanosleep and threadtest.  inconsistency-check with -t and
\* consistent-offsets end only if their clocks move, and are not asked to.
FairSpec ==
  /\ Spec
  /\ WF_vars(Nanosleep /\ Sleeping!Tick)
  /\ WF_vars(Nanosleep /\ Sleeping!Main)
  /\ WF_vars(ThreadTest /\ Threading!Main)
  /\ \A t \in Threading!Threads : WF_vars(ThreadTest /\ Threading!Thread(t))

-------------------------------------------------------------------------------
(* Properties, each made of those of the programs that can tell.           *)

\* Type invariant.
TypeOK ==
  /\ setup = "checking" => Checking!TypeOK
  /\ setup = "threads" => Threading!TypeOK
  /\ setup = "sleeping" => Sleeping!TypeOK

\* A sound clock passes: inconsistency-check over the rollover of 2038, threadtest
\* in any interleaving of its threads, raw_skew where its pairs are tight enough, and
\* consistent-offsets where no reading takes longer than the margin.
NoFalseAlarm ==
  /\ setup = "checking" => Checking!NoFalseAlarm
  /\ setup = "threads" => Threading!NoFalseAlarm
  /\ setup = "skewed" => Skewed!NoFalseAlarm
  /\ setup = "offsets" => Offsets!NoFalseAlarm

\* On a sound clock the test of inconsistency-check lasts as long as asked for.
HealthyRunIsLongEnough == setup = "checking" => Checking!HealthyRunIsLongEnough

\* A clock that is wrong by more than a program can overlook fails: one that
\* steps back in a batch, runs at another rate than reported, or is set.
FaultIsFound ==
  /\ setup = "checking" => Checking!LaterStepBackFails
  /\ setup = "threads" => Threading!StepBackIsFound
  /\ setup = "skewed" => Skewed!FaultIsFound
  /\ setup = "offsets" => Offsets!FaultIsFound

\* nanosleep fails only if a sleep has ended early or the clock was set back where the
\* program is exposed to that, not for being held up.
FailureIsReal == setup = "sleeping" => Sleeping!FailureIsReal

\* It passes an early end of a sleep only if it was held up for as long.
EarlyWakeFails == setup = "sleeping" => Sleeping!EarlyWakeFails

\* If it passes, it has slept every length on every clock that can be slept on.
PassMeansAllSlept == setup = "sleeping" => Sleeping!PassMeansAllSlept

\* Whatever the threads of threadtest share, they are a sampler that loses no sample
\* and drops no batch unjudged; with -i one with a batch for every thread.
RefinesSampler ==
  /\ setup = "threads" => Threading!Abstract!Init
  /\ [][setup = "threads" =>
          Threading!Abstract!Next \/ UNCHANGED Threading!Abstract!vars]_vars

\* nanosleep and threadtest end.
Ends ==
  /\ setup = "sleeping" => <>(setup = "sleeping" /\ pc = "exit")
  /\ setup = "threads" => <>(mpc = "exit")
===============================================================================
