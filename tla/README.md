# Verification of timetests

timetests is a collection of small C programs that test the timekeeping of a
Linux kernel.  Most of a program is a few system calls and a verdict, and what
can be wrong with it is the verdict: an alarm that is raised on a sound kernel, a
fault that is seen and then lost on the way to the exit status, a machine that is
left with a leap second armed or its frequency changed.  These modules model the
programs one by one, together with as much of the kernel as they drive, and state
what a verdict means and what a program leaves behind.

Modules are TLA+, checked with TLC; the eight modules with theorems
(named `...Proofs`) are checked with TLAPS.
`PROJECT.json` lists the runs, the source lines behind each definition, the
mutants that show that each property can fail, the hazards and the findings.

## Inventory

The programs share no code: each has its own copy of the helpers for timespecs.
They interact in three ways: `runall.sh` runs them one after the other on one
kernel, so each inherits frequency, tick, TAI offset, clocksource, NTP status and
clock from the one before; some run others through `system()` and judge by the
wait status; and an `ntpd`, if any is left, changes the same kernel state.

| program | state | operations | hard about it | should hold |
|---|---|---|---|---|
| threadtest | one list or one per thread, `listcount`, `done`, two locks | sample, scan a full batch, dump, main's wait and join | threads over a list; `done` written by threads and by main | no false alarm; a full, stable list is scanned; step backs are found; a flag becomes a failure; it ends |
| leap-a-day | `next_leap`, `error_found`, a timer, the kernel's leap state | arm, wait, watch, handle the timer's signal, clean up | ctrl-c anywhere; delays around midnight; other users of the status; old kernels | no leap after exit; no false error; each iteration sees its leap |
| leapcrash | `next_leap`, a count, the kernel's leap state | set the clock, hammer STA_INS, clean up | the same, on kernels that keep a set-up leap | each round leaps once; no leap after exit; it ends |
| set-timer-lat | `alarmcount`, `max_latency_ns`, `start_time`, a timer | arm, wait for five alarms, judge | asynchronous handler; merged signals; stale alarms | late or lost alarms fail, and only they and the late arming of a relative timer do |
| alarmtimer-suspend | the same, `final_ret` | the same, then suspend until ten alarms have come | a suspend racing the last alarm; slow resumes | the machine is always woken; slow resumes fail, and only they |
| inconsistency-check | a batch of samples, a start second | fill, scan, loop until the time is up | wrap-around of seconds; time limit read from the clock under test | no false alarm at a rollover; step backs fail |
| nanosleep | clock id, length | absolute and relative sleep | delays between reading the clock and sleeping; clock set back | early wake-ups fail; failures are real |
| change_skew, skew_consistency | the kernel's frequency, a child | set a skew, run checks, set it back | failing or killed checks, ntpd, failing fork | change_skew puts the frequency back, and its [OK] means checked; skew_consistency does neither |
| clocksource-switch | the current clocksource, a child | validate, switch under a test, restore | a test failing in the child; early exits | sane before switching; restored unless that very write fails; a pass means that all passed alone |
| set-2038 | the clock | set edge times, run checks, restore | times refused or truncated; any step failing | the verdict is right; the clock is restored |
| ntp-converge | NTP state, two files, ntpd, a logger | clear, inject an offset, run ntpd and the logger, clean up | two children and a kill by name | the experiment starts from the offset asked for; nothing is left |
| raw_skew, adjtick | pairs of readings of two clocks, frequency, tick | tightest of three pairs, sleep, compare | preemption between readings; ntpd; fixed point | a sound clock passes if its readings are tight enough, one that is off by more than they hide fails; tick put back |
| nsleep-lat, mqueue-lat | sums of latencies | sleep or receive, and average | a mean hides outliers; two clocks | what is late enough fails, and only lateness fails |
| consistent-offsets | the offset of a clock | read between two reads, compare with the one before | a margin from one measurement; false positives, as the script says | a clock that is set fails, one that is not passes if no reading is slower than the margin |
| valid-adjtimex, adj-setoffset, set-tai | adjtimex's tables | set and read back | early returns; clamping; other users | a pass means all were taken or refused as they should be; the frequency is reset |
| drift-log.py, graph-log.py | a log | query, print, plot | floats, text | - |
| runall.sh | the kernel's settings | run all, in order | what one program leaves to the next; daemons that survive | the machine is settled at the end; no program fails for another one |

## Modules

| module | models |
|---|---|
| `Timespec` | seconds and nanoseconds: `timespec_add` with its carry, `in_order` |
| `NtpKernel`, `NtpKernelProofs` | external: the kernel's leap second state machine and the adjtimex calls that drive it, before and after the fix that `leapcrash.c:46` names; lemmas about midnights and those calls |
| `Processes` | external: what `exit`, `wait` and `system` make of an exit status, to the byte |
| `MonotonicAndRaw` | the sampling that raw_skew.c and adjtick.c share: the tightest of three pairs of readings |
| `Sampler` | what threadtest promises: batches of samples that are judged and dropped, without threads, locks and lists |
| `ThreadTest` | threadtest.c and the refinement mapping to `Sampler` |
| `ThreadTestProofs` | proofs: its safety properties; that it implements `Sampler` |
| `LeapADay` (`MCLeapADay` for a run without -i), `LeapADayProofs` | leap-a-day.c over `NtpKernel`; proofs |
| `LeapCrash`, `LeapCrashProofs` | leapcrash.c over `NtpKernel`; proofs |
| `SetTimerLat`, `AlarmtimerSuspend` | set-timer-lat.c, alarmtimer-suspend.c |
| `InconsistencyCheck` | inconsistency-check.c over `Timespec` |
| `Nanosleep` | nanosleep.c |
| `ChangeSkew`, `SkewConsistency` | change_skew.c, skew_consistency.c over `Processes` |
| `ClocksourceSwitch` | clocksource-switch.c over `Processes` |
| `Set2038` | set-2038.c over `Processes` |
| `NtpConverge` | ntp-converge.c |
| `NsleepLat`, `MqueueLat` | nsleep-lat.c, mqueue-lat.c |
| `RawSkew`, `AdjTick` | raw_skew.c, adjtick.c over `MonotonicAndRaw` |
| `ConsistentOffsets` | consistent-offsets.c |
| `ValidAdjtimex`, `AdjSetoffset`, `SetTai` | valid-adjtimex.c, adj-setoffset.c, set-tai.c |
| `Contracts` | for each program of the script, the settings of the kernel it needs, clears, may clear and leaves |
| `RunAll` | runall.sh over `Contracts` |
| `SetBack` (`MCSetBack` for TLC), `SetBackProofs` | a suite: the nine programs that change the machine, with constants; proofs about each and about the suite |
| `Alarms` (`MCAlarms` for TLC), `AlarmsProofs` | a suite: the four programs that measure how late they are woken (`SetTimerLat`, `AlarmtimerSuspend`, `NsleepLat`, `MqueueLat`), with constants; proofs about each and about the suite |
| `Clocks` (`MCClocks` for TLC), `ClocksProofs` | a suite: the five programs that read a clock over and over and judge it (`InconsistencyCheck`, `ThreadTest`, `Nanosleep`, `RawSkew`, `ConsistentOffsets`), with constants; proofs about each and about the suite |
| `Leap` (`MCLeap` for TLC), `LeapProofs` | a suite: leap-a-day in five set-ups, and leapcrash, with constants; proofs about the suite |

A suite does not compose programs: the programs never run at the same time on the
same state.  It declares the variables of its programs and a variable `setup`
that Init chooses and no step changes, and takes one instance of a program's
module for every set-up, that is, for every choice of that module's constants
worth telling apart.  A behaviour is a behaviour of one instance.  A property of
the suite is made of the programs' properties of the same meaning, each under
the set-ups it is about; the assumptions of the modules on their constants
(`LeapADayAssumption` and so on) are assumed by the suite for every instance.
Each suite has constants of its own.  Those of `SetBack`, `Alarms` and `Clocks` are the
tables, sizes and limits of their programs, and for each thing that can go wrong around
them (`ForkFails`, `CallsFail`, `Refuses`, `FiresEarly`, ...) the set of the set-ups in
which it may; `Leap` has a record of leap-a-day's constants for each set-up (`Days`), for
its set-ups differ in all of them, and assumes what each is for (`LeapAssumption`).
`Switching(s)`, `Dating(s)`, `Converging(s)`, `Timing(s)`, `Suspending(s)` and
`Leaping(s)` are the instances of a program in the set-up *s*.

Conventions.  A program counter `pc` names the point between two system calls (in
`ThreadTest`, between two accesses to shared data), and one action is the code
from there to the next such point.  A signal handler is an action of its own that
may come at every point where signals are delivered; where the program could not
move without handling it, the actions of main wait for `~pending`.  Time is a
variable moved by `Tick`: freely while the program sleeps, and a bounded number
of times (`late <= MaxLate`) while it does not, which stands for preemption
between any two calls.  A printed verdict is kept where a property asks for it.
Definitions called `X_Something` are mutants of `X` and are used in no behaviour.

Two compositions go beyond a suite.  `RunAll` runs the programs in the order of
the script over a small state, the set of settings that are off; what a program
does to it is its contract.  `MCSetBack` checks, as `KeepsContract` within
`MachineIsRestored`, that the detailed models of the programs that touch the
frequency, the tick, the offset, the leap flags, the clocksource or the date leave no
more than their contract says.  And `ThreadTest` implements `Sampler`: a batch is the filled part
of a list, `listcount` entries less one while a thread is between taking its slot
and writing to it (`Samples`), and an inconsistency is found once a thread goes to
dump the list or [FAILED] is out.

### From code to model

* **threadtest.**  `list[0]` is `global_list`; with -i thread *t* has `list[t]`.
  `LockList` is the lock, the test of `listcount` and the branch; `TakeSlot` is
  the `listcount++` inside the argument of `clock_gettime` and `ReadClock` the
  store, so that a thread may be preempted between them.  `ScanPair` is one
  iteration of the scan, `SetDone` main's `done = 1`.  `done` is read and written
  without a lock; the model takes each access as atomic and seen at once.
  `pthread_create` succeeds.
* **leap-a-day.**  Half a second is the unit, the length of the program's short
  sleeps; the clock is a `Timespec` whose nanoseconds run 0, 1.  `clear_time_state` is
  its three calls, each an action, and `then` says where it was called from: ctrl-c
  may come before any of them.  adjtimex is privileged.  An ntpd may rewrite the status
  at any time from the validation of the flag to the recheck three seconds before the
  leap, as often as it likes (`Interfere`).
* **set-timer-lat, alarmtimer-suspend.**  One pending signal per timer: a second
  expiry merges.  That is how a lost alarm turns into latency, which is counted
  against `alarmcount`.  `armlag` is how long after reading `start_time` a timer was armed:
  a relative timer counts from there, but the handler counts from `start_time`.
* **nanosleep.**  The clock may be set back once in every `nanosleep_test`, at any point
  of it (`StepBack`); `Exposed` names the points between two readings that are compared.
* **inconsistency-check.**  `tv_sec` is one of the `WORD` values of a long, so
  the rollover of 2038 happens within a few ticks; `now - then < seconds` is the
  unsigned comparison that C makes of it.
* **skew_consistency, clocksource-switch.**  A child that returns the result of
  `system()` from main passes on its low byte only: `Exited(256) = 0`.
  `tx.freq` and, where fork fails, `status` are uninitialised in the code and any
  value in the model; so is whether the byte after the name read into `orig_clk`
  is 0 (`Terminated`).  Every write of a clocksource may fail in the set-ups of
  `CallsFail`, the last one that goes back to the original too, the result of which the
  code ignores: `refused` remembers that.
* **set-2038.**  A time is the edge it is counted from and the seconds since;
  `time_t` is the cast that truncates on 32 bits.
* **ntp-converge.**  `timeval` is the split of nanoseconds into a timeval with
  its borrow.  ntpd passes from forked to running in a step of its own, since
  `killall` finds only what runs under that name.  Neither fork is checked: with a
  pid of -1, `waitpid` waits for the child that runs ntpd, or for nobody.
* **raw_skew, adjtick.**  A round of readings is told by its two delays, since the
  clocks do not drift apart while they are read; `Chosen` folds three rounds with
  the comparison of the loop, in which a window of 0 counts as none.  `Run` moves
  both clocks by what the rate makes of the sleep.  In adjtick an ntpd may set frequency and
  offset as often as it likes, and take back what it has set before they are read back;
  an offset is what slewing it adds to the rate (`Slews`), and a rate that changes during
  the sleep is its mean (`moved`).  Rates, frequency and their
  fixed point keep the code's units (`KPPM`, `SHIFT`), scaled down.
* **nsleep-lat, mqueue-lat.**  A sleep is its latency, below 0 where it ends
  early; what passes between two calls is a choice of its own.  A receive ends at a deadline on a
  clock that may be set, and counts by one that may not.
* **consistent-offsets.**  A reading is the true offset, shifted by how unevenly
  its two delays lie around it.
* **valid-adjtimex, adj-setoffset, set-tai.**  A step is one turn of a loop over a
  table, with the kernel sound, or wrong in one of the ways the program looks for.
  valid-adjtimex clears the time state with one call, which clears a leap second on a
  kernel with the fix that `adj-setoffset.c:50` names, or if STA_PLL was on; else the leap
  is `"stuck"`.
* **runall.sh.**  Seven settings, each nominal or off.  A daemon that is left
  moves frequency, tick and slew at any time.  What a program makes nominal on some
  kernels only (`MayClear`: valid-adjtimex a leap second, change_skew an offset, which is
  heeded if STA_PLL is on) may stay off.  A program fails for a fault of its
  own, may fail where a setting it needs is off, and may then end early and leave
  more.

## Runs

Passing runs.  Bounds are named constants of the modules; for a suite they are
given where it instantiates them.

| run | set-up | shows |
|---|---|---|
| `tt_shared` | | two threads of three asked for (`MAX_THREADS`), batches of three, two seconds of clock.  The clock is sound or `faulty`, chosen at the start: a sound one raises no alarm; a faulty one may step back at any point, which is found within a second, is never blamed on main's own `done`, and the program ends.  `RefinesSampler`: it implements `Sampler` |
| `leap` | ctrlc | old kernel, ctrl-c at every point, an ntpd clearing flags before the recheck, three iterations (insert, delete, insert) |
| | late | the eight seconds between arming and midnight with -s allow for 15 half seconds of delay; with 16 `NoFalseError` fails, so the margin is exact |
| | buggy | kernels with the bug the program looks for never pass |
| | waiting | without -s, started eleven, six and five seconds before the end of the day, the first of which is the longest wait in which the clock stays synchronised; started within the last two seconds or so, the flag comes too late for the kernel |
| | ending | the watch loop ends, and so does a program that runs out of timers |
| | crash | leapcrash: three rounds on an old kernel, ctrl-c |
| `alarms` | slow | a supported clock, an unsupported one and an unsupported alarm clock; delays of more than a period, so signals merge |
| | eager | early timers and long delays: nothing of one timer reaches the next |
| | suspending | delays of a whole period, spurious and slow resumes, refused suspends, on both clocks |
| | unarmed | timer_settime fails: the program never suspends a machine that nothing would wake (it waits for ever instead, see below) |
| | averaging | nsleep-lat: two clocks of three unsupported; late, very late and early sleeps, so that means round and cancel |
| | receiving | mqueue-lat: late receives, a message, an error, CLOCK_REALTIME set either way |
| `clocks` | checking | inconsistency-check on all clocks of a machine with one absent, over the sign bit of a second of `WORD` = 8 values, with one step back at any point or none |
| | threads | threadtest -i: as `tt_shared` with a list and a batch for every thread, of two samples, and a second of clock |
| | sleeping | nanosleep on an absent clock, one that cannot be slept on and a good one; three lengths; a clock set back at any point of a test |
| | skewed | raw_skew: all choices of delays around the readings (wide enough to hide a ppm, or not), frequencies of both signs, faults of both signs beyond a ppm, an ntpd |
| | offsets | consistent-offsets on two clocks, set by less and by more than the margin |
| `setback` | changing | all results of all fifteen checks, ntpd, no privilege |
| | turning | every way for the child to end, and a failing fork |
| | switching, faulty | four clocksources, of which any may fail; in the second fork and every write may too, also the one that goes back |
| | edges, 32bits | 64 and 32 bits; kernels that take what they must refuse or refuse what they should take |
| | converging, failing | 27 offsets around whole microseconds and seconds of both signs, two initial errors; logger or forks failing |
| | ticking | adjtick: clocks that follow the tick or not, an ntpd at any point that sets frequency and offset and takes them back, no privilege, wide and tight readings |
| | validating | valid-adjtimex: the kernel sound or wrong in four ways, 32 and 64 bits, no privilege, a leap second armed before that one call clears or does not |
| | offsetting | adj-setoffset: kernels that take negative nanoseconds, that refuse them, and that answer anything |
| | tai | set-tai: a leap second or an ntpd in between |
| `runall` | | found in any of 16 states, with every subset of failures and early ends, every daemon, with and without CLOCK_MONOTONIC_RAW: where the raw clock is there and no daemon is left, the machine ends with nothing off but TAI, date and clocksource (`MachineIsSettled`: adjtick makes up for skew_consistency, leapcrash for leap-a-day), and no program fails but for its own fault, unless it was found so (`OnlyOwnFaultsFail`) |

The bounds are enough because nothing in the programs counts further than the
bound distinguishes: a scan compares adjacent pairs only, an iteration of the
leap tests depends on the one before through the kernel's state and the direction
only, and the timers depend on the number of alarms through a difference.  A mean
or an estimate is compared once; the delays and faults on either side of the
comparison are chosen so that each side is reached by one outlier alone and by the
sum of small ones.  `RunAll` has no bound: the script is as long as it is.

Runs that find a violation each show one disagreement between the code and what
its comments, its output or its usage text say; `PROJECT.json` quotes the line.

| run | property refuted | what happens |
|---|---|---|
| `tt_failed_not_reported` | `FailedIsReported` | threadtest prints [FAILED] after main has said [OK], and passes |
| `la_timers` | `RunsContinuously` | leap-a-day runs out of timers |
| `st_early` | `EarlyAlarmFails` | set-timer-lat's "fired early: FAIL" passes |
| `ic_first_pair` | `EveryStepBackFails` | inconsistency-check's index 0 means none |
| `sc_setback` | `ThingsAreSetBack` | skew_consistency has turned the frequency and leaves the last skew |
| `cw_failure` | `AsyncFailureFails` | clocksource-switch's child exits with the low byte of 256 |

More disagreements of the kind can be seen by checking these definitions of the
modules, which no run includes:

| property | module | set-up | what happens |
|---|---|---|---|
| `AnyInconsistencyIsFound` | `ThreadTest` | as `tt_failed_not_reported` | the scan asks for falling nanoseconds too: 2.1 s, then 1.9 s passes (`threadtest.c:64`) |
| `NoFalseError` | `LeapADay` | no -s, `NTP_PHASE_LIMIT` below the wait | a wait of many hours brings UNSYNC back, and the handler calls a good leap an error (`leap-a-day.c:156`) |
| `LatencyIsOfAlarms` | `SetTimerLat` | a relative timer, delays of more than the limit | `start_time` is read before the timer is armed, and the delay in between is taken for latency of the first alarm (`set-timer-lat.c:154`, `:112`) |
| `RunsAsManyIterations` | `LeapADay` | `Iterations = 0` | -i 0 runs without end (`leap-a-day.c:382`) |
| `RunIsLongEnough` | `InconsistencyCheck` | as `ic_first_pair` | a step back before the first second makes the unsigned difference huge: [OK] at once (`inconsistency-check.c:120`) |
| `CheckFailureFails` | `SkewConsistency` | `ForkFails = FALSE` | the 256 again: a failed check is [OK] (`skew_consistency.c:64`) |
| `OkMeansChecked` | `SkewConsistency` | `ForkFails = TRUE` | fork fails, nothing is checked: [OK] (`skew_consistency.c:62`) |
| `ClockIsRestored` | `Set2038` | any | the clock goes back to the second of the start (`set-2038.c:140`) |
| `PassMeansTested` | `Set2038` | `Refuses`, or `is32bits` and `dangerous` | an edge that is refused or truncated is passed untested (`set-2038.c:121`, `:135`) |
| `NoNtpdLeft` | `NtpConverge` | `DriftlogMayFail` | ntpd comes up after it was to be killed (`ntp-converge.c:260`) |
| `Ends` | `AlarmtimerSuspend` | `SettimeFails` | timer_settime fails unnoticed, and the loop waits for alarms for ever (`alarmtimer-suspend.c:170`) |
| `JudgedByAverage` | `RawSkew` | `Ntpd` | "Avg the two actual freq samples": the average is overwritten with the first sample (`raw_skew.c:143`) |
| `NoFalsePositives` | `ConsistentOffsets` | two `Delays`, one 0 | a margin of 0 or a slow reading: a clock nobody sets fails; "too many false positives" (`runall.sh:19`) |
| `BothSidesAreTested` | `AdjTick` | any | "+/- 10%": the loop ends before the upper end (`adjtick.c:199`) |
| `NetChangeIsZero` | `AdjSetoffset` | any | "pair adjustments so net change is zero": kernels that refuse negative nanoseconds leave the clock half a pair off (`adj-setoffset.c:123`) |
| `DaemonIsGone` | `RunAll` | | "disable ntpd during the run": `service stop ntp` has its arguments swapped and no process is called chrony, so chronyd survives (`runall.sh:11`) |

`RunAll` shows two more limits, as what `MachineIsSettled` must assume: without a
CLOCK_MONOTONIC_RAW adjtick does nothing, and the machine keeps the 500 ppm of
skew_consistency; and the script leaves the TAI offset at set-tai's last value and
the date where the leap second tests have put it.

Deadlock is checked in every run; where a program has ended, its module has an
explicit stuttering step.

## Fairness

Every `FairSpec` has weak fairness of the steps of the program (the kernel
schedules a process that can run), of time, and of the kernel's part where the
code waits for it: timers expire, signals are delivered, an armed alarm resumes
the machine, a child that runs a test of bounded length ends.  Threads of
threadtest are weakly fair one by one.  No fairness is assumed of ctrl-c, of
faults, of a lock (a thread may wait for `list_lock` for ever as long as others
get it), or of anything that wakes the machine but the alarm.
A suite assumes it for the set-ups whose programs it asks to end, and only those:
not for inconsistency-check and consistent-offsets, whose end depends on the clock
under test, and not for programs that run straight through a table.

## Proofs

Every theorem is about the specification of one program, or of a suite, and holds for
every value of its constants that satisfies the module's assumption and the
hypotheses named here.  The runs check the same properties on the set-ups of the suites (for
threadtest, the run's properties are the ones proved).  A hypothesis that is not
on the module's assumption is a definition, named for what it means, of the proof module
or, where a suite assumes it of a set-up, of the program's own.

### threadtest

`ThreadTestProofs`: for every `ThreadCount`,
`MAX_THREADS`, `LISTSIZE`, `Runtime`, both modes, sound and faulty clocks, from
`NsecAssumption` and `ThreadTestAssumption` only.

| theorem | property | run |
|---|---|---|
| `TypeCorrect` | `TypeOK` | `tt_shared`, `clocks` |
| `InductiveInvariant` | `IInv` | |
| `NeverFalseAlarm` | `NoFalseAlarm` | `tt_shared`, `clocks` |
| `AlwaysScansFullList` | `ScannedListIsFull` | |
| `ScansAreStable` | `ScannedListIsStable` | `tt_shared` |
| `AlwaysFindsStepBack` | `StepBackIsFound` | `tt_shared`, `clocks` |
| `AlwaysGenuine` | `FailureIsGenuine` | `tt_shared` |
| `ThreadsImplementSampler` | `RefinesSampler` | `tt_shared`, `clocks` |

`TypeOK` alone is not inductive: that a slot is inside the list needs that no other
thread moves `listcount` between the test and the increment.  `IInv` adds
`LockInv` (who is in the critical section holds the lock, or shares the list with
nobody), `SlotInv` (what `listcount` is at each point of the critical section)
and `SpawnInv` (who has been started).  On top of it, each theorem has one more
invariant:

* `SortedInv`, for a clock that does not go back: the filled part of a list, which
  is `listcount` entries, less one while a thread is between taking its slot and
  writing to it, is sorted and not later than the clock.  Then no pair is
  inconsistent, and `QuietInv` follows: nobody flags anything.
* `ScanInv`: the pairs a scan has passed are not inconsistent while `done` is
  clear.  The list does not change under the scan, which is `ScansAreStable`.
* `GenuineInv`: where main is, what it has printed and joined, and that `done`
  before main's own store is backed by a thread at its dump or by a [FAILED].
* For the refinement, `SamplesInv` (each batch is a sequence of as many instants as
  the list is filled) and `JudgedInv`: while nothing is *found*, the pairs that a
  scan has passed are in order, and with -i so is a full list whose owner is back
  at the top of its loop.  `ScanInv` does not do, for it says nothing once `done`
  is set, and main sets `done` without anything being found; the batches that are
  then dropped must still have been judged.  Each action has a lemma that names
  the step of `Sampler` it is or that it leaves the batches alone.

### The alarms

`AlarmsProofs` has a section for each of the four programs, with an invariant in each,
and one for the suite `Alarms`.  Its last theorems are about the suite and state what
the run `alarms` checks, for every number of clocks, sleeps and receives, every
period, limit, timeout and delay, from `AlarmsAssumption` alone:

| theorem | property | run |
|---|---|---|
| `SuiteTypes` | `TypeOK`, with the bounds on the alarms and on the clock | `alarms` |
| `SuiteMissesNoLateAlarm` | `LateAlarmFails` | `alarms` |
| `SuiteFailsOnlyForLateness` | `OnlyLatenessFails` | `alarms` |
| `SuiteTriesAll` | `PassMeansAllTried` | `alarms` |
| `SuiteHasNoStaleAlarm` | `NoStaleAlarm` | `alarms` |
| `SuiteWakesUp` | `AlarmIsSet` | `alarms` |

`SuiteInv` is the invariant of the program that runs, and the properties name the
set-ups and constants that they are about.  By program, for every set-up *s*:

| theorem | program and property | needs |
|---|---|---|
| `TimingInvariant`, `TimingTypesHold` | set-timer-lat: `TimingInv`, `TypeOK` | |
| `NoLateAlarmIsMissed` | `LateAlarmFails` | `OverrunsCount(s)`: if timers fire early, the limit is less than a period |
| `LatencyIsOfDelays` | `OnlyLatenessFails`: what is taken for latency is the worst alarm's, and for a relative timer that of arming it | |
| `AlarmsStayWithTheirTimer` | `NoStaleAlarm` | |
| `SuspendingInvariant`, `SuspendingTypesHold` | alarmtimer-suspend: `SuspendingInv`, `TypeOK` | |
| `NoLateResumeIsMissed` | `LateResumeFails` | |
| `ArmingIsNoLateResume` | `OnlyLateResumeFails` | |
| `TheMachineWakesUp` | `AlarmIsSet` | |
| `NothingRefusedAllSuspended` | `BothClocksSuspend` | `Prompt`: the delays are shorter than five periods |
| `NoLateSleepIsMissed` | nsleep-lat: `LateSleepFails` | |
| `SmallDelaysPass` | `OnlyLatenessFails` | |
| `AveragingSleepsAll` | `PassMeansAllSlept` | |
| `NoLateReceiveIsMissed` | mqueue-lat: `LateReceiveFails` | |
| `SmallReceiveDelaysPass` | `OnlyLatenessFails` | |

The handlers do not see expiries that merge, they count alarms.  The invariants of
the first two programs therefore relate two times that are in no variable: when the
last expiry was due (`Last`) and when the handler would have it that the last alarm
was due (`Counted`).  `ExpiryInv` and `CountInv` keep `Counted <= Last`, equal while
nothing has merged, a period or more apart after, so a merged alarm turns into
latency at the next.  `TimingDelayInv` and `AwaitedInv` charge each alarm that comes on
top of those main waits for to a period of delay.  `TypeOK` bounds the counts by it:
it is not inductive, and no simpler argument bounds them, as the programs themselves
have no bound.  In alarmtimer-suspend, `ClockInv` says when a clock's test begins at the
latest, so that the bound of the model on its clock (`MaxClock`, for which
`AlarmsAssumption` asks for the time of two runs of alarms) is never met, and
`SuspendInv` says which clocks have suspended.

The verdicts of nsleep-lat and mqueue-lat are about means.  `MeanAbove` turns the
division into a product: the mean is above the limit exactly when the sum is as large
as if every sleep were.  `SumInv` keeps the longest latency below the sum and the sum
below that latency times the number of sleeps; `TimeInv` does the same for the time
that the receives take together.  The first holds only while no sleep has ended
early, the second only while nothing has cut a receive short, which is why the
properties ask for that.  A product of two variables is beyond the arithmetic of the
SMT solver, so the proofs speak of `Times(n, x)` and `Ticks(n)`, and a few lemmas say
what products do.  That nsleep-lat must have a length to sleep (`Lengths` is not 0) was
found here: without any, it ends in a pass, but not with every clock behind it.

### The clocks

`ClocksProofs` has a section for each of the five programs, with an invariant in each,
and one for the suite `Clocks`.  Its last theorems are about the suite and state what
the run `clocks` checks, from `ClocksAssumption` alone:

| theorem | property | run |
|---|---|---|
| `SuiteTypes` | `TypeOK` | `clocks` |
| `SuiteRaisesNoFalseAlarm` | `NoFalseAlarm` | `clocks` |
| `SuiteRunsLongEnough` | `HealthyRunIsLongEnough` | `clocks` |
| `SuiteFindsFaults` | `FaultIsFound` | `clocks` |
| `SuiteFailuresAreReal` | `FailureIsReal` | `clocks` |
| `SuiteEarlyWakesFail` | `EarlyWakeFails` | `clocks` |
| `SuiteSleepsAll` | `PassMeansAllSlept` | `clocks` |
| `SuiteRefinesSampler` | `RefinesSampler` | `clocks` |

What the assumption asks for, beyond types: the clock that inconsistency-check tests
stays within the values of an unsigned long, which where that has 32 bits is until
2106, well past the rollover of the sign bit that the program is about; the lengths
of nanosleep grow; and the clock of raw_skew is off by less than half its rate, which
is a thousand times what the kernel's frequency allows.  By program:

* **inconsistency-check** (`BatchInvariant`, `ForwardInvariant`), for every length of
  the batch and of the run, every `WORD` and every start.  `BatchInv` holds whatever
  the clock does; `ForwardInv` is conditional on no step back so far and ties the
  batch and `elapsed` to what the clock has shown.
* **threadtest** (`ThreadsInvariant`): the theorems of `ThreadTestProofs`, for an instance
  of that module with the suite's constants and variables.  What is proved here is that a
  run of the suite with threads is one of threadtest (`ThreadRuns`).
* **nanosleep** (`SleepingInvariant`), for every list of lengths, every choice of absent
  clocks, delays, early ends and steps of the clock.  `FailInv` and `DelayInv` follow one
  test through its two sleeps; `SleptInv` says that the lengths slept on the clock at
  hand are those of the loop up to the present one, without which `PassMeansAllSlept` is
  not inductive.
* **raw_skew** (`SkewedInvariant`), for every frequency, fault and choice of delays.
  `Apart` says that a reading is within its window of where the clocks are, `GainInv`
  that the clocks have drifted apart by what the rate makes of the sleep.
  `EstimateIsClose` is the arithmetic: a quotient of differences, rounded three times, is
  within `Uncertainty` of the rate over the time it was measured in.  That time is not
  the sleep's, but what CLOCK_MONOTONIC makes of it and of the delays, while the rate is a
  share of CLOCK_MONOTONIC_RAW's; `Distorted` is what that amounts to, up to a quarter of a
  ppm for a clock at 500 ppm.  It was found here: a bound without it is false.
* **consistent-offsets** (`OffsetsInvariant`), for all delays and jumps and every margin.
  `Near` puts an offset that was read within half its window of the true one, rounded;
  `NearReadings` is what two such readings say of each other.

A product of two variables is beyond the arithmetic of the SMT solver, so the proofs of
raw_skew speak of `Product(a, b)`, and a few lemmas say what products and quotients do.

### Leap seconds

`LeapProofs` states what the run `leap` checks, from `LeapAssumption` alone:

| theorem | property | run |
|---|---|---|
| `SuiteTypes` | `TypeOK` | `leap` |
| `SuiteStaysClear` | `NoLeapAfterExit` (an action property) | `leap` |
| `SuiteLeaps` | `LeapComplete` | `leap` |
| `SuiteRaisesNoFalseError` | `NoFalseError` | `leap` |
| `SuiteHasNoLateAlarm` | `NoAlarmInHrtimerTest` | `leap` |
| `SuiteFindsTimerBug` | `HrtimerBugIsFound` | `leap` |

It proves nothing about leaps.  It takes an instance of `LeapADayProofs` for each set-up
(`CtrlcP`, `LateP`, `BuggyP`, `WaitingP`) and one of `LeapCrashProofs` (`CrashP`), and shows
that the constants of the set-up are what their theorems ask for (`CtrlcConstants`), and
that a run of the suite in that set-up, which no step leaves (`CtrlcStays`), is a run of
the program (`CtrlcRuns`).  Since `LeapAssumption` asks for the hypotheses below, TLC
evaluates them on the set-ups it runs.

`LeapADayProofs`, for every number of iterations, length of the day, set of starts,
delay, kind of kernel, with and without -s:

| theorem | property | needs |
|---|---|---|
| `ClearInvariant`, `TypeCorrect` | `TypeOK`, `ClearInv` | `LongDay`: ten seconds |
| `ClockStaysClear` | `NoLeapAfterExit` (an action property) | `LongDay` |
| `IterationInvariant` | `IterationInv` | `Timely` |
| `AlarmsAreOver` | `NoAlarmInHrtimerTest` | `Timely` |
| `LeapsComplete` | `LeapComplete` | `Timely` |
| `TimerBugFails` | `HrtimerBugIsFound` | `Timely`, `MaxLate <= 2` |
| `SoundKernelsPass` | `NoFalseError` | `Timely`, `Sound` |

That no leap is left needs `ClearInv` alone, and nothing about time: ctrl-c, an
error and the last iteration all lead through `clear_time_state`, and what each of
its three calls is worth depends only on the calls before.  For the rest,
`IterationInv` follows the clock through an iteration (`TimeInv`), the kernel's
leap state (`LeapInv`) and the timer (`TimerInv`); none of the three is inductive
without the others, for whether a flag comes in time depends on the clock, where
the clock is after midnight on the leap, and what the timer does on both.  The
hypotheses say what the program relies on:

* `Timely`: the program is held up for at most 15 half seconds in an iteration, at
  most one with an ntpd around; however it is held up, it is started early enough to be
  ready `Spare` half seconds before the leap, and a day is long enough for it to be so in
  the next; and a faulty kernel is tested with -s.  `Spare` is 6, or 5 and the delays:
  with less the kernel is told too late.  The unit is half a second.  The `late` set-up
  shows that 15 is exact.
* `MaxLate <= 2`: with more, the alarm is too late to be seen early and the next
  sleep too late to be seen short.
* `Sound`: no such bug, one to `MaxTimers` iterations, and `NTP_PHASE_LIMIT` more
  than nine seconds above the time between clearing `maxerror` and the leap.  With
  -s that is ten seconds.  Without, it is up to a day: the kernel's limit is
  32000 s, so UNSYNC comes back in the second iteration, and in the first unless it
  is started less than 8.9 hours before midnight.  That is the entry
  `NoFalseError` of the table of disagreements, now with the exact condition.

`LeapCrashProofs`, for every number of rounds, start, length of the day of at least two
seconds (`LongDay`: a round begins two seconds before midnight) and kind of kernel:
`CrashInvariant`, `TypeCorrect` (`TypeOK`), `RoundsLeap` (`EveryRoundLeaps`) and
`CrashStaysClear` (`NoLeapAfterExit`).  `ClearInv` is again what each of the calls of
the clean-up is worth; `RoundInv` follows a round.  Its `Hammering` is the heart: once
the flag is set, the kernel is in the state that goes with the distance from midnight,
and setting the flag again does not move it, for the flags set never include the PLL,
whose end would restart the state machine.  The two need each other: a round is sure of
its leap only if the kernel was cleared before, on an old kernel too, and the loop ends
only past the leap.  The lemmas of `NtpKernelProofs` about the kernel's calls and about
midnights serve both programs.

### Setting back

`SetBackProofs` has a section for each of the nine programs, with an invariant in
each, and one for the suite `SetBack`.  Its last theorems are about the suite and
state what the run `setback` checks; from the assumption `SetBackAssumption` alone:

| theorem | property | run |
|---|---|---|
| `SuiteTypes` | `TypeOK` | `setback` |
| `SuiteRestoresMachine` | `MachineIsRestored`, with the contracts that `RunAll` relies on | `setback` |
| `SuiteLeavesNothing` | `NothingIsLeft` | `setback` |
| `SuitePassesAreEarned` | `PassMeansWhatMainSaw` | `setback` |
| `SuiteJudgesTicks` | `TickIsJudged` | `setback` |
| `SuiteExperimentIsSound` | `ExperimentIsSound` | `setback` |

The suite's invariant `SuiteInv` is the invariant of the program that runs; a step of
the suite is one of that program, for the others are in other set-ups.  The
properties name the set-ups they are about by the sets of the constants (a child is
reaped in every set-up of `Switchings \ CallsFail`), and so do the theorems about
single programs:

| theorem | program and property | needs |
|---|---|---|
| `ChangingTypes`, `ChangingSetsBack`, `ChangingTestsAll` | change_skew: `TypeOK`, `ThingsAreSetBack`, `OkMeansAllTested` | |
| `TurningTypes`, `TurningReapsChild`, `TurningSeesTheKilled` | skew_consistency: `TypeOK`, `ChildIsReaped`, `OnlyKilledCheckFails` | |
| `SwitchingTypes`, `SwitchingValidatesFirst`, `SwitchingSeesTheSane` | clocksource-switch: `TypeOK`, `SaneBeforeSwitching`, `PassMeansSaneAlone` | |
| `SwitchingRestores` | `OriginalIsRestored`: the original clocksource, unless the write that goes back to it was refused | `s \in Terminated` |
| `SwitchingReapsChild` | `ChildIsReaped` | `s \notin CallsFail` |
| `DatingRestores` | set-2038: `EraIsRestored` | |
| `DatingVerdict` | `VerdictIsRight` | `EdgesAreSet(s)`: no edge is refused, nor truncated |
| `ConvergingTypes`, `ConvergingLoggedToTheEnd` | ntp-converge: `TypeOK`, `LoggedToTheEnd` | |
| `ConvergingStartsFromOffset` | `StartsFromOffset` | `s \notin DriftlogMayFail` |
| `ConvergingLeavesNothing` | `NothingIsLeft` | `s \notin DriftlogMayFail`, `s \notin ForkFails` |
| `TickingSetsBack`, `TickingVerdict` | adjtick: `ThingsAreSetBack`; `VerdictIsRight`, `FaultFails` | |
| `ValidatingResets`, `ValidatingVerdict` | valid-adjtimex: `FreqIsReset`, `VerdictIsRight` | |
| `OffsettingVerdict` | adj-setoffset: `VerdictIsRight` | |
| `TaiVerdict` | set-tai: `VerdictIsRight` | |

`PassMeansWhatMainSaw` says what a pass is worth.  For change_skew, set-2038,
valid-adjtimex, adj-setoffset and set-tai, that all on the list was tried and came out as
it should, and that a sound kernel passes.  For the two programs that judge by a child
much less, as `cw_failure` and `CheckFailureFails` show: skew_consistency fails if a signal
has killed the check under the shell that runs it, and in no other case, and
clocksource-switch passes if every clocksource has passed alone and the child's tests were
not killed in this way, whether those have passed or not.

What is negated in the last column is what the disagreements are made of: without
it TLC has a counterexample.  The lemmas `Quotient` (truncating division), `Normalised`
and `TimevalIsOffset` show that the timeval of ntp-converge, with its borrow for
negative offsets, is normalised and worth exactly the offset, for every offset.

The estimate of adjtick is a quotient, like that of raw_skew, and its invariant
(`TickingInvariant`) has the same parts.  `EffectInv` says which tick is in effect while it is
measured and what is added to it (`moved`, whatever the ntpd takes back afterwards), that
what an ntpd has left of its own is seen when it is read back, and that without a
privilege the first tick fails; `ReadingInv` what the readings
are worth; `TicksTestedInv` that the loop has been through every tick.  `TickEstimate` is
the arithmetic, with `Product` again: what is found is within `Off` of the rate that tick and
fault make.  The rate is measured against CLOCK_MONOTONIC_RAW, so a window is a share of the
time on that clock, and the time of the delays, in which the clocks do not drift apart in
the model, distorts it: at the ends of the 10 % by a ppm for every 150 us that the readings
take.  Both were found here: with the windows only, as a share of CLOCK_MONOTONIC's time, the
property is false, and TLC shows it with slower readings (`Gaps = {1, 400}`).  The proof
needs a sleep of at least two nanoseconds for every ppm (`AdjTickAssumption`: the code's
has 15000).

valid-adjtimex needs its tables to be what the code's are: valid entries within
`MAXFREQ`, the others beyond it, and no entry both out of range and invalid
(`ValidAdjtimexAssumption`).  The offsets of adj-setoffset come in pairs, and `Sum`
is what those before the i-th add up to.

### Only model-checked

Every liveness property (`Termination` and `Ends` of the modules: liveness and
ENABLED are beyond the prover here), among them `FlagWhileSleepingFails` of threadtest;
and the two invariants of `RunAll`, which has no constants, so that TLC's run of it is
complete.  Every other property that a passing run checks is stated by a theorem.

## Not modelled

`drift-log.py` and `graph-log.py` (a parser, floats and a plot) and the Makefile.
Of the programs: the wording and layout of the output, the parsing of options (an
option is a constant), `-t` of leap-a-day (printing only), and the server and log
file of ntp-converge.  Failures of calls whose result the code ignores are
modelled where something depends on them (fork, settimeofday near an edge,
timer_settime before a suspend); the failure of `pthread_create` leads to undefined
behaviour and is left out.  An ntpd that rewrites the status after leap-a-day's recheck,
in the last seconds before the leap or while it watches (`leap-a-day.c:324`-`:368`), is not
modelled: nothing in the program looks for it then, so its rounds would go without a leap
or be blamed on the kernel.  Nor is one that rewrites it between setting and validating
the flag, which ends the run.  `NoFalseAlarm` and `FaultIsFound` say nothing
of raw_skew if the frequency changes during its two minutes, and `StepBackIsFound` is
about steps back within one second (`AnyInconsistencyIsFound` shows the others).  Contracts of programs other than those that
`KeepsContract` names are read off the code.  `-i 0` of leap-a-day is a
hazard without a run: `RunsAsManyIterations` above states it.

## Plan

The programs are modelled, and each is proved about.  What could be added are the
disagreements that no run shows yet (the table above names the property, module and
set-up of each), and contracts read off the models for the programs that
`KeepsContract` does not name.
