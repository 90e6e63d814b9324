------------------------------ MODULE ThreadTest ------------------------------
(***************************************************************************)
(* threadtest.c: main starts threads that sample CLOCK_MONOTONIC into a     *)
(* list, either one global list under list_lock or, with -i, a list of      *)
(* their own, and scan every full list for time running backwards.  The     *)
(* global int "done" has two writers with two meanings: a thread sets it    *)
(* when it has found an inconsistency, main sets it when the run is over.   *)
(*                                                                         *)
(* One action is one run of code between two accesses to something shared  *)
(* (done, the locks, the lists, the clock, the console).                    *)
(***************************************************************************)
EXTENDS Timespec, FiniteSets

CONSTANTS
  ThreadCount,    \* -n: how many threads are asked for
  MAX_THREADS,    \* size of pth[]
  LISTSIZE,       \* samples in a list
  Independent,    \* -i: TRUE for independent_thread, FALSE for shared_thread
  Runtime,        \* -t: seconds main lets the threads run
  MaxSec          \* bound: the clock stays below MaxSec + 1 seconds

ASSUME ThreadTestAssumption ==
  /\ ThreadCount \in Int /\ MAX_THREADS \in Nat /\ LISTSIZE \in Nat \ {0}
  /\ Runtime \in Int /\ MaxSec \in Nat
  /\ Independent \in BOOLEAN

VARIABLES
  faulty,      \* the kernel under test has a clock that may go back
  clock,       \* CLOCK_MONOTONIC of the kernel under test
  list,        \* list[0] is global_list, list[t] is my_list of thread t
  count,       \* count[0] is listcount, count[t] is the local count of t
  list_lock,   \* the holder of list_lock, 0 when it is free
  print_lock,  \* the holder of print_lock, 0 when it is free
  done,        \* the global flag "done"
  pc,          \* pc[t]: where thread t is
  slot,        \* slot[t]: the list entry clock_gettime is about to fill
  idx,         \* idx[t]: the i of checklist
  mpc,         \* where main is
  i,           \* main's loop counter over pth[]
  elapsed,     \* seconds since start, as main's time(&now) shows them
  ret,         \* main's ret; the exit status once mpc = "exit"
  out          \* the verdicts printed so far

threadVars == <<list, count, list_lock, print_lock, pc, slot, idx>>
mainVars   == <<mpc, i, elapsed, ret>>
vars       == <<faulty, clock, done, out, threadVars, mainVars>>

\* The threads main really starts: -n clamped to MAX_THREADS.
Threads == 1 .. (IF ThreadCount > MAX_THREADS THEN MAX_THREADS ELSE ThreadCount)
Own(t)  == IF Independent THEN t ELSE 0
Lists   == {0} \cup Threads
Slots   == 0 .. LISTSIZE - 1
Instants == [tv_sec : 0 .. MaxSec, tv_nsec : 0 .. NSEC_PER_SEC - 1]
Epoch   == [tv_sec |-> 0, tv_nsec |-> 0]

Init ==
  /\ faulty \in BOOLEAN /\ clock = Epoch
  /\ list = [l \in Lists |-> [s \in Slots |-> Epoch]]
  /\ count = [l \in Lists |-> 0]
  /\ list_lock = 0 /\ print_lock = 0
  /\ done = FALSE /\ out = {}
  /\ pc = [t \in Threads |-> "new"]
  /\ slot = [t \in Threads |-> 0] /\ idx = [t \in Threads |-> 0]
  /\ mpc = "spawn" /\ i = 1 /\ elapsed = 0 /\ ret = 0

Goto(t, from, to) == pc[t] = from /\ pc' = [pc EXCEPT ![t] = to]

-------------------------------------------------------------------------------
(* The clock of the kernel under test.                                     *)

\* A healthy clock only moves forward.
Tick ==
  /\ \E c \in Instants : in_order(clock, c) /\ c # clock /\ clock' = c
  /\ UNCHANGED <<faulty, done, out, threadVars, mainVars>>

\* A faulty clock may step back: what the test is there to find.
Warp ==
  /\ faulty
  /\ \E c \in Instants : ~in_order(clock, c) /\ clock' = c
  /\ UNCHANGED <<faulty, done, out, threadVars, mainVars>>

-------------------------------------------------------------------------------
(* A sampling thread.                                                      *)

\* while (!done), and the count = 0 of independent_thread's for loop.
CheckDone(t) ==
  /\ Goto(t, "top", IF done THEN "end" ELSE IF Independent THEN "slot" ELSE "want")
  /\ count' = IF Independent /\ ~done THEN [count EXCEPT ![t] = 0] ELSE count
  /\ UNCHANGED <<faulty, clock, done, out, list, list_lock, print_lock, slot, idx, mainVars>>

\* Mutants: no lock is taken; a list is filled one sample too far, or scanned
\* one sample too soon.
LockList_NoLock(t) ==
  /\ list_lock' = list_lock
  /\ Goto(t, "want", IF count[0] >= LISTSIZE THEN "scan" ELSE "slot")
  /\ idx' = [idx EXCEPT ![t] = 0]
  /\ UNCHANGED <<faulty, clock, done, out, list, count, print_lock, slot, mainVars>>

LockList_Late(t) ==
  /\ list_lock = 0 /\ list_lock' = t
  /\ Goto(t, "want", IF count[0] > LISTSIZE THEN "scan" ELSE "slot")
  /\ idx' = [idx EXCEPT ![t] = 0]
  /\ UNCHANGED <<faulty, clock, done, out, list, count, print_lock, slot, mainVars>>

\* pthread_mutex_lock(&list_lock), then: is the list ready to be checked?
LockList(t) ==
  /\ list_lock = 0
  /\ list_lock' = t
  /\ Goto(t, "want", IF count[0] >= LISTSIZE THEN "scan" ELSE "slot")
  /\ idx' = [idx EXCEPT ![t] = 0]
  /\ UNCHANGED <<faulty, clock, done, out, list, count, print_lock, slot, mainVars>>

\* &list[count++]: the entry is chosen before clock_gettime runs.
TakeSlot(t) ==
  /\ Goto(t, "slot", "read")
  /\ slot' = [slot EXCEPT ![t] = count[Own(t)]]
  /\ count' = [count EXCEPT ![Own(t)] = @ + 1]
  /\ UNCHANGED <<faulty, clock, done, out, list, list_lock, print_lock, idx, mainVars>>

\* clock_gettime stores the time; independent_thread then fills on or scans.
ReadClock(t) ==
  /\ list' = [list EXCEPT ![Own(t)][slot[t]] = clock]
  /\ Goto(t, "read", IF ~Independent THEN "unlock"
                     ELSE IF count[t] < LISTSIZE THEN "slot" ELSE "scan")
  /\ idx' = [idx EXCEPT ![t] = 0]
  /\ UNCHANGED <<faulty, clock, done, out, count, list_lock, print_lock, slot, mainVars>>

UnlockList(t) ==
  /\ Goto(t, "unlock", "top")
  /\ list_lock' = 0
  /\ UNCHANGED <<faulty, clock, done, out, list, count, print_lock, slot, idx, mainVars>>

-------------------------------------------------------------------------------
(* checklist, on the list of the calling thread.                           *)

\* Mutants: equal times are inconsistent; both fields must really fall.
Inconsistent_Equal(a, b) == b.tv_sec <= a.tv_sec /\ b.tv_nsec <= a.tv_nsec
Inconsistent_Both(a, b)  == b.tv_sec < a.tv_sec /\ b.tv_nsec < a.tv_nsec

\* The comparison as it is written: both fields must fall (the seconds may
\* also stay the same).
Inconsistent(a, b) == b.tv_sec <= a.tv_sec /\ b.tv_nsec < a.tv_nsec

PairBad(t) == Inconsistent(list[Own(t)][idx[t]], list[Own(t)][idx[t] + 1])

\* The loop goes on to the next pair, or flags the other threads and waits
\* for the console.
ScanPair(t) ==
  /\ idx[t] < LISTSIZE - 1
  /\ \/ ~PairBad(t) /\ Goto(t, "scan", "scan")
        /\ idx' = [idx EXCEPT ![t] = @ + 1] /\ done' = done
     \/ PairBad(t) /\ Goto(t, "scan", "plock")
        /\ done' = TRUE /\ idx' = idx
  /\ UNCHANGED <<faulty, clock, out, list, count, list_lock, print_lock, slot, mainVars>>

LockPrint(t) ==
  /\ print_lock = 0
  /\ print_lock' = t
  /\ Goto(t, "plock", "print")
  /\ UNCHANGED <<faulty, clock, done, out, list, count, list_lock, slot, idx, mainVars>>

\* Mutant: the console is not released.
PrintFailed_KeepsLock(t) ==
  /\ Goto(t, "print", "scan")
  /\ out' = out \cup {"FAILED"}
  /\ idx' = [idx EXCEPT ![t] = @ + 1]
  /\ UNCHANGED <<faulty, clock, done, list, count, list_lock, print_lock, slot, mainVars>>

\* Dump the list, print [FAILED], release the console; the scan goes on.
PrintFailed(t) ==
  /\ Goto(t, "print", "scan")
  /\ out' = out \cup {"FAILED"}
  /\ print_lock' = 0
  /\ idx' = [idx EXCEPT ![t] = @ + 1]
  /\ UNCHANGED <<faulty, clock, done, list, count, list_lock, slot, mainVars>>

\* checklist returns: shared_thread empties the list and samples into it,
\* independent_thread goes back to its while.
ScanDone(t) ==
  /\ idx[t] >= LISTSIZE - 1
  /\ Goto(t, "scan", IF Independent THEN "top" ELSE "slot")
  /\ count' = IF Independent THEN count ELSE [count EXCEPT ![0] = 0]
  /\ UNCHANGED <<faulty, clock, done, out, list, list_lock, print_lock, slot, idx, mainVars>>

Thread(t) ==
  \/ CheckDone(t) \/ LockList(t) \/ TakeSlot(t) \/ ReadClock(t) \/ UnlockList(t)
  \/ ScanPair(t) \/ LockPrint(t) \/ PrintFailed(t) \/ ScanDone(t)

-------------------------------------------------------------------------------
(* main.                                                                   *)

MainGoto(from, to) == mpc = from /\ mpc' = to

\* pthread_create of the next thread, or on to the timed loop.
Spawn ==
  /\ \/ i \in Threads /\ MainGoto("spawn", "spawn")
        /\ pc' = [pc EXCEPT ![i] = "top"] /\ i' = i + 1
     \/ i \notin Threads /\ MainGoto("spawn", "test") /\ i' = 1 /\ pc' = pc
  /\ UNCHANGED <<faulty, clock, done, out, list, count, list_lock, print_lock, slot, idx,
                 elapsed, ret>>

\* while (time(&now) < start + runtime); printf("[OK]\n") when it is over.
TestTime ==
  /\ \/ elapsed < Runtime /\ MainGoto("test", "sleep") /\ out' = out
     \/ elapsed >= Runtime /\ MainGoto("test", "flag") /\ out' = out \cup {"OK"}
  /\ UNCHANGED <<faulty, clock, done, threadVars, i, elapsed, ret>>

\* sleep(1)
Sleep ==
  /\ MainGoto("sleep", "check")
  /\ elapsed' = elapsed + 1
  /\ UNCHANGED <<faulty, clock, done, out, threadVars, i, ret>>

\* Mutant: main stops for done and forgets to fail.
TestDone_NoRet ==
  /\ MainGoto("check", IF done THEN "join" ELSE "test")
  /\ UNCHANGED <<faulty, clock, done, out, threadVars, i, elapsed, ret>>

\* if (done) { ret = 1; ... goto out; }
TestDone ==
  /\ MainGoto("check", IF done THEN "join" ELSE "test")
  /\ ret' = IF done THEN 1 ELSE ret
  /\ UNCHANGED <<faulty, clock, done, out, threadVars, i, elapsed>>

\* Mutants: done is set before main looks at it for the last time, or never.
SetDone_ThenCheck ==
  /\ MainGoto("flag", "check")
  /\ done' = TRUE
  /\ UNCHANGED <<faulty, clock, out, threadVars, i, elapsed, ret>>

SetDone_Never ==
  /\ MainGoto("flag", "join")
  /\ UNCHANGED <<faulty, clock, done, out, threadVars, i, elapsed, ret>>

\* done = 1 at the end of the run
SetDone ==
  /\ MainGoto("flag", "join")
  /\ done' = TRUE
  /\ UNCHANGED <<faulty, clock, out, threadVars, i, elapsed, ret>>

\* pthread_join of the next thread, or exit with ret.
Join ==
  /\ \/ i \in Threads /\ pc[i] = "end" /\ MainGoto("join", "join") /\ i' = i + 1
     \/ i \notin Threads /\ MainGoto("join", "exit") /\ i' = i
  /\ UNCHANGED <<faulty, clock, done, out, threadVars, elapsed, ret>>

Main == Spawn \/ TestTime \/ Sleep \/ TestDone \/ SetDone \/ Join

Terminated == mpc = "exit" /\ UNCHANGED vars

Next == Tick \/ Warp \/ Main \/ Terminated \/ \E t \in Threads : Thread(t)

Spec == Init /\ [][Next]_vars

\* The scheduler runs main and every thread that can run.
FairSpec == Spec /\ WF_vars(Main) /\ \A t \in Threads : WF_vars(Thread(t))

-------------------------------------------------------------------------------
(* Properties.                                                             *)

\* Type invariant.
TypeOK ==
  /\ faulty \in BOOLEAN /\ clock \in Instants
  /\ list \in [Lists -> [Slots -> Instants]]
  /\ count \in [Lists -> 0 .. LISTSIZE]
  /\ list_lock \in Lists /\ print_lock \in Lists
  /\ done \in BOOLEAN /\ out \subseteq {"OK", "FAILED"}
  /\ pc \in [Threads -> {"new", "top", "want", "slot", "read", "unlock", "scan",
                         "plock", "print", "end"}]
  /\ slot \in [Threads -> Slots] /\ idx \in [Threads -> Slots]
  /\ mpc \in {"spawn", "test", "sleep", "check", "flag", "join", "exit"}
  /\ i \in Nat /\ elapsed \in Nat /\ ret \in {0, 1}

\* No false alarm: on a clock that never goes back, no interleaving of the
\* sampling threads makes a list look inconsistent, so nothing but main sets
\* done, [FAILED] is never printed and the exit status is 0.
NoFalseAlarm ==
  ~faulty => /\ "FAILED" \notin out /\ ret = 0
             /\ done => mpc \in {"join", "exit"}

\* A thread between the first look at a pair and the end of the dump.
Scanning(t) == pc[t] \in {"scan", "plock", "print"}

\* A list is not written while some thread scans it or dumps it.
ScannedListIsStable ==
  [][\A t \in Threads : Scanning(t) /\ Scanning(t)' => list[Own(t)]' = list[Own(t)]]_vars

\* A list is never scanned half full: checklist always sees one complete batch,
\* filled since the last reset of listcount.
ScannedListIsFull == \A t \in Threads : Scanning(t) => count[Own(t)] = LISTSIZE

\* A step back within one second that lands in one batch is always found: when
\* a scan has gone past every pair and done is still clear, no adjacent pair
\* of that batch has equal seconds and falling nanoseconds.
StepBackIsFound ==
  \A t \in Threads : pc[t] = "scan" /\ idx[t] = LISTSIZE - 1 /\ ~done =>
     \A s \in 0 .. LISTSIZE - 2 :
        LET a == list[Own(t)][s]
            b == list[Own(t)][s + 1]
        IN  a.tv_sec = b.tv_sec => in_order(a, b)

\* main reports failure only if a thread flagged one: it never takes the done
\* it set itself for a thread's, and a failing run never prints [OK].
FailureIsGenuine ==
  /\ ret = 1 => "OK" \notin out
  /\ ret = 1 /\ mpc = "exit" => "FAILED" \in out

\* A thread that flags an inconsistency while main sleeps makes the run fail.
FlagWhileSleepingFails ==
  (mpc = "sleep" /\ \E t \in Threads : pc[t] = "plock") ~> (mpc = "exit" /\ ret = 1)

\* The run ends: every thread sees done, both locks are given back, main joins
\* all threads and exits.
Termination == <>(mpc = "exit")

\* The samples in list l; the entry a thread is about to fill is not one yet.
Samples(l) ==
  LET pending == Cardinality({t \in Threads : Own(t) = l /\ pc[t] = "read"})
  IN  [k \in 1 .. count[l] - pending |-> list[l][k - 1]]

Abstract == INSTANCE Sampler WITH
  Batches <- {Own(t) : t \in Threads},
  batch   <- [l \in {Own(t) : t \in Threads} |-> Samples(l)],
  found   <- "FAILED" \in out \/ \E t \in Threads : pc[t] \in {"plock", "print"}

\* All that the threads, their locks and their flag come to is a sampler that
\* takes each sample at one moment, judges full batches, and drops none unjudged.
RefinesSampler == Abstract!Spec

\* What the console says and what the exit status says agree: a run that
\* printed [FAILED] does not exit with 0.
FailedIsReported == mpc = "exit" /\ "FAILED" \in out => ret = 1

\* "look for any time inconsistencies": a scan that flags nothing has seen a
\* list that is in order.
AnyInconsistencyIsFound ==
  \A t \in Threads : pc[t] = "scan" /\ idx[t] = LISTSIZE - 1 /\ ~done =>
     \A s \in 0 .. LISTSIZE - 2 : in_order(list[Own(t)][s], list[Own(t)][s + 1])
===============================================================================
