--------------------------- MODULE ThreadTestProofs ---------------------------
(***************************************************************************)
(* The safety properties of ThreadTest for every number of threads, list    *)
(* size, run time and clock, in both modes.                                 *)
(*                                                                         *)
(* The argument: list_lock (or the privacy of my_list) makes the threads    *)
(* inside the critical section disjoint per list (LockInv), so the slot a   *)
(* thread fills is always the last one claimed (SlotInv); hence the filled  *)
(* part of a list is sorted and not later than the clock (SortedInv), and a *)
(* scan of a full list finds nothing (QuietInv).                            *)
(*                                                                         *)
(* The last part shows that the threads implement Sampler: a list that is    *)
(* dropped without another look has been compared pair by pair (JudgedInv).  *)
(***************************************************************************)
EXTENDS ThreadTest, TLAPS, SequenceTheorems, FiniteSetTheorems

Critical == {"slot", "read", "unlock", "scan", "plock", "print"}

LockInv ==
  /\ ~Independent => \A t \in Threads : pc[t] \in Critical <=> list_lock = t
  /\ Independent => \A t \in Threads : pc[t] \notin {"want", "unlock"}

SlotInv ==
  \A t \in Threads :
     /\ pc[t] = "slot" => count[Own(t)] < LISTSIZE
     /\ pc[t] = "read" => count[Own(t)] = slot[t] + 1
     /\ Scanning(t) => count[Own(t)] = LISTSIZE
     /\ pc[t] \in {"plock", "print"} => idx[t] < LISTSIZE - 1

\* How many entries of list l hold a sample of this batch.
Reading(l) == \E t \in Threads : Own(t) = l /\ pc[t] = "read"
Filled(l)  == IF Reading(l) THEN count[l] - 1 ELSE count[l]

SortedInv ==
  ~faulty =>
     \A l \in Lists : \A s \in Slots : s < Filled(l) =>
        /\ in_order(list[l][s], clock)
        /\ s + 1 < Filled(l) => in_order(list[l][s], list[l][s + 1])

QuietInv ==
  ~faulty =>
     /\ \A t \in Threads : pc[t] \notin {"plock", "print"}
     /\ "FAILED" \notin out /\ ret = 0
     /\ done => mpc \in {"join", "exit"}

\* What a scan has passed over without flagging it; a flag is never lowered.
ScanInv ==
  /\ \A t \in Threads : pc[t] \in {"plock", "print"} => done
  /\ \A t \in Threads : pc[t] = "scan" /\ ~done =>
       \A s \in Slots : s < idx[t] => ~Inconsistent(list[Own(t)][s], list[Own(t)][s + 1])

\* While main still spawns, the threads it has not reached have not started.
SpawnInv ==
  /\ i >= 1
  /\ mpc = "spawn" => \A t \in Threads : pc[t] = "new" <=> t >= i
  /\ mpc # "spawn" => \A t \in Threads : pc[t] # "new"

\* Why main only fails a run for a thread's sake: where main is, what it has
\* printed and joined, and who has raised a flag main has not yet acted on.
GenuineInv ==
  /\ mpc \in {"test", "sleep", "check", "flag"} => i = 1
  /\ mpc \in {"join", "exit"} => \A t \in Threads : t < i => pc[t] = "end"
  /\ mpc = "exit" => i \notin Threads
  /\ "OK" \in out => mpc \in {"flag", "join", "exit"}
  /\ ret = 1 => mpc \in {"join", "exit"} /\ "OK" \notin out /\ done
  /\ done /\ (mpc \notin {"join", "exit"} \/ ret = 1) =>
        "FAILED" \in out \/ \E t \in Threads : pc[t] \in {"plock", "print"}

IInv == TypeOK /\ LockInv /\ SlotInv /\ SpawnInv

-------------------------------------------------------------------------------
\* Two threads share a list only in shared mode, and then it is list 0.
LEMMA OwnFacts ==
  /\ Threads \subseteq Nat \ {0} /\ 0 \notin Threads
  /\ \A t \in Threads : Own(t) \in Lists
  /\ Independent => \A t, u \in Threads : Own(t) = Own(u) => t = u
  /\ ~Independent => \A t \in Threads : Own(t) = 0
BY ThreadTestAssumption DEF Threads, Own, Lists

\* The order of instants is transitive and total, and Inconsistent never
\* holds of a pair in order.
LEMMA OrderFacts ==
  ASSUME NEW a \in Instants, NEW b \in Instants, NEW c \in Instants
  PROVE  /\ in_order(a, a)
         /\ in_order(a, b) /\ in_order(b, c) => in_order(a, c)
         /\ in_order(a, b) => ~Inconsistent(a, b)
         /\ ~Inconsistent(a, b) /\ a.tv_sec = b.tv_sec => in_order(a, b)
BY NsecAssumption, ThreadTestAssumption DEF Instants, in_order, Inconsistent

\* The time the model starts from is a time.
LEMMA EpochInstant == Epoch \in Instants
BY NsecAssumption, ThreadTestAssumption DEF Epoch, Instants

\* Nobody has started, nobody holds a lock.
LEMMA InitIInv == Init => IInv
<1> SUFFICES ASSUME Init PROVE IInv
  OBVIOUS
<1>1. 0 \in Slots /\ 0 \in 0 .. LISTSIZE /\ 0 \in Lists
  BY ThreadTestAssumption DEF Slots, Lists
<1>2. TypeOK
  BY <1>1, EpochInstant DEF Init, TypeOK
<1>3. LockInv /\ SlotInv /\ SpawnInv
  BY OwnFacts DEF Init, LockInv, SlotInv, SpawnInv, Critical, Scanning
<1> QED
  BY <1>2, <1>3 DEF IInv

-------------------------------------------------------------------------------
(* Types, the lock and the slots are kept by every step.                   *)

\* ... by the steps of a thread,
LEMMA ThreadIInv ==
  ASSUME IInv, NEW t \in Threads, Thread(t)
  PROVE  IInv'
<1> USE OwnFacts, ThreadTestAssumption
<1> USE DEF IInv, TypeOK, LockInv, SlotInv, SpawnInv, Critical, Scanning, Goto, Slots, mainVars
<1>1. CASE CheckDone(t)
  <2>1. TypeOK'
    BY <1>1 DEF CheckDone, Own
  <2>2. LockInv' /\ SpawnInv'
    BY <1>1 DEF CheckDone
  <2>3. SlotInv'
    BY <1>1 DEF CheckDone, Own
  <2> QED
    BY <2>1, <2>2, <2>3
<1>2. CASE LockList(t)
  <2>1. TypeOK'
    BY <1>2 DEF LockList, Lists, Own
  <2>2. LockInv' /\ SpawnInv'
    BY <1>2 DEF LockList, Lists, Own
  <2>3. SlotInv'
    BY <1>2 DEF LockList, Lists, Own
  <2> QED
    BY <2>1, <2>2, <2>3
<1>3. CASE TakeSlot(t)
  <2>1. TypeOK'
    <3>1. /\ count[Own(t)] \in Slots /\ count[Own(t)] + 1 \in 0 .. LISTSIZE
          /\ slot' = [slot EXCEPT ![t] = count[Own(t)]]
          /\ count' = [count EXCEPT ![Own(t)] = count[Own(t)] + 1]
      BY <1>3 DEF TakeSlot
    <3> QED
      BY <1>3, <3>1 DEF TakeSlot
  <2>2. LockInv' /\ SpawnInv'
    BY <1>3 DEF TakeSlot
  <2>3. SlotInv'
    BY <1>3 DEF TakeSlot
  <2> QED
    BY <2>1, <2>2, <2>3
<1>4. CASE ReadClock(t)
  <2>1. TypeOK'
    BY <1>4 DEF ReadClock, Own
  <2>2. LockInv' /\ SpawnInv'
    BY <1>4 DEF ReadClock, Own
  <2>3. SlotInv'
    BY <1>4 DEF ReadClock, Own
  <2> QED
    BY <2>1, <2>2, <2>3
<1>5. CASE UnlockList(t)
  BY <1>5 DEF UnlockList, Lists
<1>6. CASE ScanPair(t)
  <2>1. CASE ~PairBad(t)
    <3>1. /\ pc[t] = "scan" /\ pc' = [pc EXCEPT ![t] = "scan"]
          /\ idx' = [idx EXCEPT ![t] = idx[t] + 1] /\ idx[t] < LISTSIZE - 1
          /\ UNCHANGED <<faulty, clock, done, out, list, count, list_lock, print_lock, slot,
                         mpc, i, elapsed, ret>>
      BY <1>6, <2>1 DEF ScanPair
    <3>2. TypeOK'
      BY <3>1
    <3>3. LockInv' /\ SpawnInv'
      BY <3>1
    <3>4. SlotInv'
      BY <3>1
    <3> QED
      BY <3>2, <3>3, <3>4
  <2>2. CASE PairBad(t)
    <3>1. TypeOK'
      BY <1>6, <2>2 DEF ScanPair
    <3>2. LockInv' /\ SlotInv' /\ SpawnInv'
      BY <1>6, <2>2 DEF ScanPair
    <3> QED
      BY <3>1, <3>2
  <2> QED
    BY <2>1, <2>2
<1>7. CASE LockPrint(t)
  <2>1. TypeOK'
    BY <1>7 DEF LockPrint, Lists
  <2>2. LockInv' /\ SpawnInv'
    BY <1>7 DEF LockPrint, Lists
  <2>3. SlotInv'
    BY <1>7 DEF LockPrint, Lists
  <2> QED
    BY <2>1, <2>2, <2>3
<1>8. CASE PrintFailed(t)
  <2>1. TypeOK'
    BY <1>8 DEF PrintFailed, Lists
  <2>2. LockInv' /\ SpawnInv'
    BY <1>8 DEF PrintFailed, Lists
  <2>3. SlotInv'
    BY <1>8 DEF PrintFailed, Lists
  <2> QED
    BY <2>1, <2>2, <2>3
<1>9. CASE ScanDone(t)
  <2>1. TypeOK'
    BY <1>9 DEF ScanDone, Own
  <2>2. LockInv' /\ SpawnInv'
    BY <1>9 DEF ScanDone, Own
  <2>3. SlotInv'
    BY <1>9 DEF ScanDone, Own
  <2> QED
    BY <2>1, <2>2, <2>3
<1> QED
  BY <1>1, <1>2, <1>3, <1>4, <1>5, <1>6, <1>7, <1>8, <1>9 DEF Thread

\* ... of main,
LEMMA MainIInv ==
  ASSUME IInv, Main
  PROVE  IInv'
<1> USE OwnFacts, ThreadTestAssumption
<1> USE DEF IInv, TypeOK, LockInv, SlotInv, SpawnInv, Critical, Scanning, MainGoto, threadVars
<1>1. CASE Spawn
  <2>1. CASE i \in Threads
    <3>1. /\ pc[i] = "new" /\ mpc = "spawn" /\ mpc' = "spawn" /\ i' = i + 1 /\ i' \in Nat
          /\ pc' = [pc EXCEPT ![i] = "top"]
          /\ UNCHANGED <<faulty, clock, done, out, list, count, list_lock, print_lock, slot,
                         idx, elapsed, ret>>
      BY <1>1, <2>1 DEF Spawn
    <3>2. TypeOK' /\ LockInv' /\ SlotInv'
      BY <2>1, <3>1
    <3>3. SpawnInv'
      BY <2>1, <3>1
    <3> QED
      BY <3>2, <3>3
  <2>2. CASE i \notin Threads
    BY <1>1, <2>2 DEF Spawn, Threads
  <2> QED
    BY <2>1, <2>2
<1>2. CASE TestTime
  BY <1>2 DEF TestTime
<1>3. CASE Sleep
  BY <1>3 DEF Sleep
<1>4. CASE TestDone
  BY <1>4 DEF TestDone
<1>5. CASE SetDone
  BY <1>5 DEF SetDone
<1>6. CASE Join
  BY <1>6 DEF Join
<1> QED
  BY <1>1, <1>2, <1>3, <1>4, <1>5, <1>6 DEF Main

\* ... and of the clock,
LEMMA ClockIInv ==
  ASSUME IInv, Tick \/ Warp
  PROVE  IInv'
<1>1. clock' \in Instants /\ UNCHANGED <<faulty, done, out, threadVars, mainVars>>
  BY DEF Tick, Warp
<1>2. TypeOK'
  BY <1>1 DEF IInv, TypeOK, threadVars, mainVars
<1>3. LockInv' /\ SlotInv' /\ SpawnInv'
  BY <1>1 DEF IInv, LockInv, SlotInv, SpawnInv, Critical, Scanning, threadVars, mainVars
<1> QED
  BY <1>2, <1>3 DEF IInv

\* ... so by every step.
LEMMA StepIInv == IInv /\ [Next]_vars => IInv'
<1> SUFFICES ASSUME IInv, [Next]_vars PROVE IInv'
  OBVIOUS
<1>1. CASE UNCHANGED vars
  BY <1>1 DEF vars, threadVars, mainVars, IInv, TypeOK, LockInv, SlotInv, SpawnInv, Critical, Scanning
<1> QED
  BY <1>1, ThreadIInv, MainIInv, ClockIInv DEF Next, Terminated

\* Type correctness, the lock discipline and the slot discipline hold for
\* every number of threads and every list size.
THEOREM InductiveInvariant == Spec => []IInv
BY InitIInv, StepIInv, PTL DEF Spec

\* Type correctness: counters, list indices and the slots that threads write to
\* stay within their arrays, whatever -n, -t and the list size are.
THEOREM TypeCorrect == Spec => []TypeOK
<1>1. IInv => TypeOK
  BY DEF IInv
<1> QED
  BY <1>1, InductiveInvariant, PTL

-------------------------------------------------------------------------------
(* The filled part of every list is sorted, so nothing is ever flagged.    *)

\* Only one thread at a time fills or scans a given list.
LEMMA Exclusive ==
  ASSUME IInv, NEW t \in Threads, NEW u \in Threads, Own(t) = Own(u),
         pc[t] \in Critical, pc[u] \in Critical
  PROVE  t = u
BY OwnFacts, ThreadTestAssumption DEF IInv, LockInv

\* A thread that scans sees LISTSIZE filled entries.
LEMMA ScanFilled ==
  ASSUME IInv, NEW t \in Threads, Scanning(t)
  PROVE  Filled(Own(t)) = LISTSIZE
<1>1. ~Reading(Own(t))
  BY Exclusive DEF Reading, Scanning, Critical
<1> QED
  BY <1>1 DEF IInv, SlotInv, Filled

\* Where the list of a thread is emptied without a word.
Drop(t) == IF Independent THEN CheckDone(t) /\ ~done ELSE ScanDone(t)

\* How many entries are filled changes only where a list is reset or a
\* sample lands in it.
LEMMA FilledStep ==
  ASSUME IInv, NEW t \in Threads, Thread(t), NEW l \in Lists
  PROVE  \/ Filled(l)' = Filled(l) /\ ~(ReadClock(t) /\ l = Own(t))
         \/ Filled(l)' = 0 /\ l = Own(t) /\ Drop(t)
         \/ ReadClock(t) /\ l = Own(t) /\ Filled(l) = slot[t] /\ Filled(l)' = slot[t] + 1
<1> USE OwnFacts, ThreadTestAssumption
<1>t. /\ pc = [u \in Threads |-> pc[u]] /\ count = [m \in Lists |-> count[m]]
      /\ \A m \in Lists : count[m] \in Nat
  BY DEF IInv, TypeOK
<1>1. CASE CheckDone(t)
  <2>1. CASE Independent /\ ~done /\ l = Own(t)
    <3>1. count'[l] = 0 /\ ~Reading(l)'
      BY <1>1, <1>t, <2>1 DEF CheckDone, Goto, Own, Reading
    <3> QED
      BY <1>1, <2>1, <3>1 DEF Filled, Drop
  <2>2. CASE ~(Independent /\ ~done /\ l = Own(t))
    <3>1. count'[l] = count[l] /\ (Reading(l)' <=> Reading(l))
      BY <1>1, <1>t, <2>2 DEF CheckDone, Goto, Own, Reading
    <3> QED
      BY <1>1, <3>1 DEF Filled, CheckDone, ReadClock, Goto
  <2> QED
    BY <2>1, <2>2
<1>2. ASSUME count' = count, pc[t] # "read", pc'[t] # "read",
             \A u \in Threads : u # t => pc'[u] = pc[u]
      PROVE  Filled(l)' = Filled(l) /\ ~ReadClock(t)
  <2>1. Reading(l)' <=> Reading(l)
    BY <1>2 DEF Reading
  <2> QED
    BY <1>2, <2>1 DEF Filled, ReadClock, Goto
<1>6. CASE LockList(t) \/ UnlockList(t)
  BY <1>2, <1>6, <1>t DEF LockList, UnlockList, Goto
<1>7. CASE ScanPair(t) \/ LockPrint(t) \/ PrintFailed(t)
  BY <1>2, <1>7, <1>t DEF ScanPair, LockPrint, PrintFailed, Goto
<1>3. CASE TakeSlot(t)
  <2>1. CASE l = Own(t)
    <3>1. ~Reading(l) /\ Reading(l)' /\ count'[l] = count[l] + 1
      BY <1>3, <1>t, <2>1, Exclusive DEF TakeSlot, Goto, Reading, Critical
    <3> QED
      BY <1>3, <1>t, <3>1 DEF Filled, TakeSlot, ReadClock, Goto
  <2>2. CASE l # Own(t)
    <3>1. count'[l] = count[l] /\ (Reading(l)' <=> Reading(l))
      BY <1>3, <1>t, <2>2 DEF TakeSlot, Goto, Reading
    <3> QED
      BY <2>2, <3>1 DEF Filled
  <2> QED
    BY <2>1, <2>2
<1>4. CASE ReadClock(t)
  <2>1. CASE l = Own(t)
    <3>1. Reading(l) /\ ~Reading(l)' /\ count' = count
      BY <1>4, <1>t, <2>1, Exclusive DEF ReadClock, Goto, Reading, Critical
    <3>2. count[l] = slot[t] + 1 /\ slot[t] \in Nat
      BY <1>4, <2>1 DEF IInv, TypeOK, Slots, SlotInv, ReadClock, Goto
    <3> QED
      BY <1>4, <2>1, <3>1, <3>2 DEF Filled
  <2>2. CASE l # Own(t)
    <3>1. count' = count /\ (Reading(l)' <=> Reading(l))
      BY <1>4, <1>t, <2>2 DEF ReadClock, Goto, Reading
    <3> QED
      BY <2>2, <3>1 DEF Filled
  <2> QED
    BY <2>1, <2>2
<1>5. CASE ScanDone(t)
  <2>1. CASE ~Independent /\ l = 0
    <3>1. count'[l] = 0 /\ ~Reading(l)'
      BY <1>5, <1>t, <2>1, Exclusive DEF ScanDone, Goto, Reading, Critical
    <3> QED
      BY <1>5, <2>1, <3>1 DEF Filled, Drop
  <2>2. CASE Independent \/ l # 0
    <3>1. count'[l] = count[l] /\ (Reading(l)' <=> Reading(l))
      BY <1>5, <1>t, <2>2 DEF ScanDone, Goto, Reading
    <3> QED
      BY <1>5, <3>1 DEF Filled, ScanDone, ReadClock, Goto
  <2> QED
    BY <2>1, <2>2
<1> QED
  BY <1>1, <1>3, <1>4, <1>5, <1>6, <1>7 DEF Thread

\* Outside a thread's step, no list is filled or emptied.
LEMMA OtherFilled ==
  ASSUME IInv, Main \/ Tick \/ Warp \/ UNCHANGED vars, NEW l \in Lists
  PROVE  Filled(l)' = Filled(l) /\ list' = list
<1>1. /\ count' = count /\ list' = list
      /\ \A u \in Threads : pc'[u] = "read" <=> pc[u] = "read"
  <2>1. CASE Spawn
    BY <2>1 DEF Spawn, MainGoto, IInv, TypeOK, SpawnInv
  <2>2. CASE TestTime \/ Sleep \/ TestDone \/ SetDone \/ Join
    BY <2>2 DEF TestTime, Sleep, TestDone, SetDone, Join, threadVars
  <2>3. CASE Tick \/ Warp \/ UNCHANGED vars
    BY <2>3 DEF Tick, Warp, vars, threadVars
  <2> QED
    BY <2>1, <2>2, <2>3 DEF Main
<1>2. Reading(l)' <=> Reading(l)
  BY <1>1 DEF Reading
<1> QED
  BY <1>1, <1>2 DEF Filled

\* Only a sample that lands in a list changes what the list holds.
LEMMA ListStep ==
  ASSUME IInv, NEW t \in Threads, Thread(t), NEW l \in Lists, ~(ReadClock(t) /\ l = Own(t))
  PROVE  list'[l] = list[l]
BY OwnFacts DEF IInv, TypeOK, Thread, CheckDone, LockList, TakeSlot, ReadClock, UnlockList,
   ScanPair, LockPrint, PrintFailed, ScanDone

\* A kernel does not change into another.
LEMMA FaultyStep ==
  ASSUME [Next]_vars
  PROVE  faulty' = faulty
BY DEF Next, Terminated, vars, Main, Spawn, TestTime, Sleep, TestDone, SetDone, Join,
   Thread, CheckDone, LockList, TakeSlot, ReadClock, UnlockList, ScanPair, LockPrint,
   PrintFailed, ScanDone, Tick, Warp

\* A healthy clock only moves forward, and only Tick moves it.
LEMMA ClockStep ==
  ASSUME IInv, [Next]_vars, ~faulty
  PROVE  in_order(clock, clock')
<1>1. CASE clock' = clock
  BY <1>1, OrderFacts DEF IInv, TypeOK
<1>2. ASSUME clock' # clock PROVE Tick
  BY <1>2 DEF Next, Terminated, vars, Main, Spawn, TestTime, Sleep, TestDone, SetDone, Join,
     Thread, CheckDone, LockList, TakeSlot, ReadClock, UnlockList, ScanPair, LockPrint,
     PrintFailed, ScanDone, Warp
<1> QED
  BY <1>1, <1>2 DEF Tick

\* A sample that lands is not before the one in front of it.
LEMMA SortedStep == IInv /\ SortedInv /\ [Next]_vars => SortedInv'
<1> SUFFICES ASSUME IInv, SortedInv, [Next]_vars, ~faulty,
                    NEW l \in Lists, NEW s \in Slots, s < Filled(l)'
             PROVE  /\ in_order(list'[l][s], clock')
                    /\ s + 1 < Filled(l)' => in_order(list'[l][s], list'[l][s + 1])
  BY FaultyStep DEF SortedInv
<1>0. IInv' /\ in_order(clock, clock')
  BY StepIInv, ClockStep
<1>1. /\ clock \in Instants /\ clock' \in Instants
      /\ \A r \in Slots : list[l][r] \in Instants
  BY <1>0 DEF IInv, TypeOK
<1>2. ASSUME Filled(l)' = Filled(l), list'[l] = list[l]
      PROVE  /\ in_order(list'[l][s], clock')
             /\ s + 1 < Filled(l)' => in_order(list'[l][s], list'[l][s + 1])
  <2>1. /\ in_order(list[l][s], clock)
        /\ s + 1 < Filled(l) => in_order(list[l][s], list[l][s + 1])
    BY <1>2 DEF SortedInv
  <2> QED
    BY <1>0, <1>1, <1>2, <2>1, OrderFacts
<1>4. ASSUME NEW t \in Threads, ReadClock(t), l = Own(t), Filled(l) = slot[t],
             Filled(l)' = slot[t] + 1
      PROVE  /\ in_order(list'[l][s], clock')
             /\ s + 1 < Filled(l)' => in_order(list'[l][s], list'[l][s + 1])
  <2>1. /\ slot[t] \in Slots /\ s \in Int /\ slot[t] \in Int /\ clock' = clock
        /\ list'[l] = [list[l] EXCEPT ![slot[t]] = clock]
        /\ list[l] = [r \in Slots |-> list[l][r]]
    <3>1. /\ list = [m \in Lists |-> list[m]] /\ list[l] = [r \in Slots |-> list[l][r]]
          /\ slot[t] \in Slots /\ l \in Lists
      BY DEF IInv, TypeOK
    <3>2. list' = [list EXCEPT ![l] = [list[l] EXCEPT ![slot[t]] = clock]] /\ clock' = clock
      BY <1>4 DEF ReadClock
    <3>3. list'[l] = [list[l] EXCEPT ![slot[t]] = clock]
      BY <3>1, <3>2, Zenon
    <3>4. s \in Int /\ slot[t] \in Int
      BY <3>1, ThreadTestAssumption DEF Slots
    <3> QED
      BY <3>1, <3>2, <3>3, <3>4
  <2>2. CASE s = slot[t]
    <3>1. list'[l][s] = clock
      BY <2>1, <2>2
    <3>2. ~(s + 1 < Filled(l)')
      BY <1>4, <2>1, <2>2
    <3> QED
      BY <1>1, <2>1, <3>1, <3>2, OrderFacts
  <2>3. CASE s < slot[t]
    <3>1. /\ in_order(list[l][s], clock)
          /\ s + 1 < slot[t] => in_order(list[l][s], list[l][s + 1])
      BY <1>4, <2>3 DEF SortedInv
    <3>2. list'[l][s] = list[l][s]
      BY <2>1, <2>3
    <3>3. CASE s + 1 = slot[t]
      BY <2>1, <3>1, <3>2, <3>3
    <3>4. CASE s + 1 < slot[t]
      <4>1. s + 1 \in Slots /\ s + 1 # slot[t]
        BY <2>1, <3>4, ThreadTestAssumption DEF Slots
      <4>2. list'[l][s + 1] = list[l][s + 1]
        BY <2>1, <4>1
      <4> QED
        BY <2>1, <3>1, <3>2, <3>4, <4>2
    <3> QED
      BY <2>1, <2>3, <3>3, <3>4
  <2> QED
    BY <1>4, <2>1, <2>2, <2>3
<1>5. ASSUME NEW t \in Threads, Thread(t)
      PROVE  /\ in_order(list'[l][s], clock')
             /\ s + 1 < Filled(l)' => in_order(list'[l][s], list'[l][s + 1])
  <2>1. CASE Filled(l)' = Filled(l) /\ ~(ReadClock(t) /\ l = Own(t))
    BY <1>2, <1>5, <2>1, ListStep
  <2>2. Filled(l)' # 0
    BY DEF Slots
  <2> QED
    BY <1>4, <1>5, <2>1, <2>2, FilledStep
<1> QED
  BY <1>2, <1>5, OtherFilled DEF Next, Terminated

\* Every adjacent pair of a scanned list is in order on a healthy clock.
LEMMA ScannedIsSorted ==
  ASSUME IInv, SortedInv, ~faulty, NEW t \in Threads, Scanning(t),
         NEW s \in Slots, s < LISTSIZE - 1
  PROVE  in_order(list[Own(t)][s], list[Own(t)][s + 1])
BY ScanFilled, OwnFacts, ThreadTestAssumption DEF SortedInv, Slots

\* No step flags an inconsistency on a healthy clock.
LEMMA QuietStep == IInv /\ SortedInv /\ QuietInv /\ [Next]_vars => QuietInv'
<1> SUFFICES ASSUME IInv, SortedInv, QuietInv, [Next]_vars, ~faulty
             PROVE  QuietInv'
  BY FaultyStep DEF QuietInv
<1> USE DEF QuietInv
<1>1. ASSUME NEW t \in Threads, Thread(t) PROVE QuietInv'
  <2>t. pc = [u \in Threads |-> pc[u]] /\ idx[t] \in Slots
    BY DEF IInv, TypeOK
  <2>1. CASE ScanPair(t)
    <3>1. ~PairBad(t)
      <4>1. Scanning(t) /\ idx[t] < LISTSIZE - 1 /\ idx[t] \in Slots
        BY <2>1, <2>t DEF ScanPair, Goto, Scanning
      <4>2. in_order(list[Own(t)][idx[t]], list[Own(t)][idx[t] + 1])
        BY <4>1, ScannedIsSorted
      <4>3. list[Own(t)][idx[t]] \in Instants /\ list[Own(t)][idx[t] + 1] \in Instants
        BY <4>1, OwnFacts, ThreadTestAssumption DEF IInv, TypeOK, Slots
      <4> QED
        BY <4>2, <4>3, OrderFacts DEF PairBad
    <3> QED
      BY <2>1, <2>t, <3>1 DEF ScanPair, Goto, mainVars
  <2>2. CASE CheckDone(t) \/ LockList(t) \/ TakeSlot(t) \/ ReadClock(t)
    BY <2>2, <2>t DEF CheckDone, LockList, TakeSlot, ReadClock, Goto, mainVars
  <2>3. CASE UnlockList(t) \/ LockPrint(t) \/ PrintFailed(t) \/ ScanDone(t)
    BY <2>3, <2>t DEF UnlockList, LockPrint, PrintFailed, ScanDone, Goto, mainVars
  <2> QED
    BY <1>1, <2>1, <2>2, <2>3 DEF Thread
<1>2. CASE Spawn
  BY <1>2 DEF Spawn, MainGoto, IInv, TypeOK
<1>3. CASE TestTime \/ Sleep \/ TestDone \/ SetDone \/ Join
  BY <1>3 DEF TestTime, Sleep, TestDone, SetDone, Join, MainGoto, threadVars
<1>4. CASE Tick \/ Warp \/ UNCHANGED vars
  BY <1>4 DEF Tick, Warp, vars, threadVars, mainVars
<1> QED
  BY <1>1, <1>2, <1>3, <1>4 DEF Next, Main, Terminated

\* All lists start empty and nothing has been reported.
LEMMA InitSorted == Init => SortedInv /\ QuietInv
<1> SUFFICES ASSUME Init PROVE SortedInv /\ QuietInv
  OBVIOUS
<1>1. \A l \in Lists : Filled(l) = 0
  BY DEF Init, Filled, Reading
<1> QED
  BY <1>1 DEF Init, SortedInv, QuietInv, Slots

\* On a clock that never goes back, however many threads sample into however
\* long lists and in whatever order they run, the program never reports a
\* failure and only main ends the run.
THEOREM NeverFalseAlarm == Spec => []NoFalseAlarm
<1>1. QuietInv => NoFalseAlarm
  BY DEF QuietInv, NoFalseAlarm
<1> QED
  BY <1>1, InitIInv, InitSorted, StepIInv, SortedStep, QuietStep, PTL DEF Spec

-------------------------------------------------------------------------------
(* What checklist is given.                                                *)

\* checklist is only ever called on a list with LISTSIZE samples in it.
THEOREM AlwaysScansFullList == Spec => []ScannedListIsFull
<1>1. IInv => ScannedListIsFull
  BY DEF IInv, SlotInv, ScannedListIsFull
<1> QED
  BY <1>1, InductiveInvariant, PTL

\* No thread stores a sample into a list another thread is scanning.
LEMMA ScanStable ==
  ASSUME IInv, [Next]_vars, NEW t \in Threads, Scanning(t)
  PROVE  list'[Own(t)] = list[Own(t)]
<1>1. ASSUME NEW u \in Threads, ReadClock(u) PROVE list'[Own(t)] = list[Own(t)]
  <2>1. Own(u) # Own(t)
    BY <1>1, Exclusive DEF ReadClock, Goto, Scanning, Critical
  <2> QED
    BY <1>1, <2>1, OwnFacts DEF ReadClock, IInv, TypeOK
<1>2. CASE list' = list
  BY <1>2 DEF Own
<1>3. list' = list \/ \E u \in Threads : ReadClock(u)
  BY DEF Next, Terminated, vars, threadVars, Main, Spawn, TestTime, Sleep, TestDone, SetDone,
     Join, Thread, CheckDone, LockList, TakeSlot, UnlockList, ScanPair, LockPrint,
     PrintFailed, ScanDone, Warp, Tick
<1> QED
  BY <1>1, <1>2, <1>3 DEF Own

\* The order flags, dumps and counts that checklist derives are all of one
\* batch of samples.
THEOREM ScansAreStable == Spec => ScannedListIsStable
<1>1. IInv /\ [Next]_vars =>
        [\A t \in Threads : Scanning(t) /\ Scanning(t)' => list[Own(t)]' = list[Own(t)]]_vars
  BY ScanStable DEF Own
<1> QED
  BY <1>1, InductiveInvariant, PTL DEF Spec, ScannedListIsStable

\* A scan moves on only past pairs it has compared.
LEMMA ScanStep == IInv /\ ScanInv /\ [Next]_vars => ScanInv'
<1> SUFFICES ASSUME IInv, ScanInv, [Next]_vars
             PROVE  ScanInv'
  OBVIOUS
<1>t. /\ pc = [u \in Threads |-> pc[u]] /\ idx = [u \in Threads |-> idx[u]]
      /\ \A u \in Threads : idx[u] \in Slots
  BY DEF IInv, TypeOK
<1>1. done => done'
  BY DEF Next, Terminated, vars, threadVars, mainVars, Main, Spawn, TestTime, Sleep, TestDone,
     SetDone, Join, Thread, CheckDone, LockList, TakeSlot, ReadClock, UnlockList, ScanPair,
     LockPrint, PrintFailed, ScanDone, Warp, Tick
<1>2. ASSUME NEW t \in Threads, pc'[t] = "scan", ~done', NEW s \in Slots, s < idx'[t],
             pc[t] = "scan", idx'[t] = idx[t]
      PROVE  ~Inconsistent(list'[Own(t)][s], list'[Own(t)][s + 1])
  BY <1>1, <1>2, ScanStable DEF ScanInv, Scanning
<1>3. ASSUME NEW t \in Threads, Thread(t)
      PROVE  /\ pc'[t] \in {"plock", "print"} => done'
             /\ pc'[t] = "scan" /\ ~done' => \A s \in Slots : s < idx'[t] =>
                   ~Inconsistent(list'[Own(t)][s], list'[Own(t)][s + 1])
  <2>1. CASE ScanPair(t)
    <3>1. CASE PairBad(t)
      BY <1>t, <2>1, <3>1 DEF ScanPair, Goto
    <3>2. CASE ~PairBad(t)
      <4>1. /\ pc[t] = "scan" /\ pc'[t] = "scan" /\ idx'[t] = idx[t] + 1 /\ list' = list
            /\ done' = done
        BY <1>t, <2>1, <3>2 DEF ScanPair, Goto
      <4>2. \A s \in Slots : s < idx[t] + 1 => s < idx[t] \/ s = idx[t]
        BY <1>t, ThreadTestAssumption DEF Slots
      <4> QED
        BY <3>2, <4>1, <4>2 DEF ScanInv, PairBad
    <3> QED
      BY <3>1, <3>2
  <2>2. CASE LockList(t) \/ ReadClock(t)
    <3>1. idx'[t] = 0 /\ pc'[t] \notin {"plock", "print"}
      BY <1>t, <2>2 DEF LockList, ReadClock, Goto
    <3> QED
      BY <3>1 DEF Slots
  <2>3. CASE PrintFailed(t)
    BY <1>1, <2>3 DEF PrintFailed, Goto, ScanInv
  <2>4. CASE LockPrint(t)
    BY <1>1, <1>t, <2>4 DEF LockPrint, Goto, ScanInv
  <2>5. CASE CheckDone(t) \/ TakeSlot(t) \/ UnlockList(t) \/ ScanDone(t)
    BY <1>t, <2>5 DEF CheckDone, TakeSlot, UnlockList, ScanDone, Goto
  <2> QED
    BY <1>3, <2>1, <2>2, <2>3, <2>4, <2>5 DEF Thread
<1>4. ASSUME NEW t \in Threads, ~Thread(t)
      PROVE  /\ idx'[t] = idx[t]
             /\ pc'[t] = pc[t] \/ (pc'[t] = "top" /\ pc[t] = "new")
  <2>1. ASSUME NEW u \in Threads, Thread(u), u # t PROVE idx'[t] = idx[t] /\ pc'[t] = pc[t]
    BY <1>t, <2>1 DEF Thread, Goto, CheckDone, LockList, TakeSlot, ReadClock, UnlockList,
       ScanPair, LockPrint, PrintFailed, ScanDone
  <2>2. CASE Spawn
    <3>1. i \in Threads => pc[i] = "new"
      BY <2>2, OwnFacts DEF Spawn, MainGoto, IInv, TypeOK, SpawnInv
    <3>2. idx' = idx /\ (i \in Threads => pc' = [pc EXCEPT ![i] = "top"])
      BY <2>2 DEF Spawn
    <3>3. i \notin Threads => pc' = pc
      BY <2>2 DEF Spawn
    <3> QED
      BY <1>t, <3>1, <3>2, <3>3
  <2>3. CASE UNCHANGED <<pc, idx>>
    BY <2>3
  <2>4. \/ \E u \in Threads : Thread(u)
        \/ Spawn \/ UNCHANGED <<pc, idx>>
    BY DEF Next, Terminated, vars, threadVars, Main, TestTime, Sleep, TestDone, SetDone, Join,
       Tick, Warp
  <2> QED
    BY <1>4, <2>1, <2>2, <2>3, <2>4
<1> QED
  BY <1>1, <1>2, <1>3, <1>4 DEF ScanInv

\* Whatever the clock does, a scan that ends with the flag still down has
\* compared every pair, so it has not let a step back within a second pass.
THEOREM AlwaysFindsStepBack == Spec => []StepBackIsFound
<1>1. Init => ScanInv
  BY DEF Init, ScanInv
<1>2. IInv /\ ScanInv => StepBackIsFound
  <2> SUFFICES ASSUME IInv, ScanInv, NEW t \in Threads, pc[t] = "scan",
                      idx[t] = LISTSIZE - 1, ~done, NEW s \in 0 .. LISTSIZE - 2,
                      list[Own(t)][s].tv_sec = list[Own(t)][s + 1].tv_sec
               PROVE  in_order(list[Own(t)][s], list[Own(t)][s + 1])
    BY DEF StepBackIsFound
  <2>1. s \in Slots /\ s + 1 \in Slots /\ s < idx[t]
    BY ThreadTestAssumption DEF Slots
  <2>2. list[Own(t)][s] \in Instants /\ list[Own(t)][s + 1] \in Instants
    BY <2>1, OwnFacts DEF IInv, TypeOK
  <2>3. ~Inconsistent(list[Own(t)][s], list[Own(t)][s + 1])
    BY <2>1 DEF ScanInv
  <2> QED
    BY <2>2, <2>3, OrderFacts
<1> QED
  BY <1>1, <1>2, InitIInv, StepIInv, ScanStep, PTL DEF Spec

-------------------------------------------------------------------------------
(* The exit status.                                                        *)

\* Only a flag raised before main last looked makes main fail the run.
LEMMA GenuineStep == IInv /\ ScanInv /\ GenuineInv /\ [Next]_vars => GenuineInv'
<1> SUFFICES ASSUME IInv, ScanInv, GenuineInv, [Next]_vars
             PROVE  GenuineInv'
  OBVIOUS
<1> USE DEF GenuineInv
<1>t. /\ pc = [u \in Threads |-> pc[u]]
      /\ i \in Nat /\ ret \in {0, 1} /\ i >= 1 /\ done \in BOOLEAN
  BY DEF IInv, TypeOK, SpawnInv
<1>1. ASSUME NEW t \in Threads, Thread(t) PROVE GenuineInv'
  <2>1. UNCHANGED <<mpc, i, ret>> /\ ("OK" \in out' <=> "OK" \in out)
    BY <1>1 DEF Thread, mainVars, CheckDone, LockList, TakeSlot, ReadClock, UnlockList,
       ScanPair, LockPrint, PrintFailed, ScanDone
  <2>2. /\ pc[t] # "end" /\ \A u \in Threads : u # t => pc'[u] = pc[u]
    BY <1>1, <1>t DEF Thread, Goto, CheckDone, LockList, TakeSlot, ReadClock, UnlockList,
       ScanPair, LockPrint, PrintFailed, ScanDone
  <2>3. \/ PrintFailed(t) /\ "FAILED" \in out'
        \/ pc'[t] \in {"plock", "print"} /\ out' = out /\ (done => done')
        \/ /\ pc[t] \notin {"plock", "print"} /\ out' = out /\ done' = done
    BY <1>1, <1>t DEF Thread, Goto, CheckDone, LockList, TakeSlot, ReadClock, UnlockList,
       ScanPair, LockPrint, PrintFailed, ScanDone
  <2>4. "FAILED" \in out => "FAILED" \in out'
    BY <2>3
  <2>5. done => done'
    BY <2>3 DEF PrintFailed
  <2>6. done' /\ (mpc' \notin {"join", "exit"} \/ ret' = 1) =>
           "FAILED" \in out' \/ \E u \in Threads : pc'[u] \in {"plock", "print"}
    BY <2>1, <2>2, <2>3
  <2> QED
    BY <1>t, <2>1, <2>2, <2>5, <2>6
<1>2. CASE Spawn
  <2>1. CASE i \in Threads
    <3>1. pc' = [pc EXCEPT ![i] = "top"] /\ pc[i] = "new" /\ mpc = "spawn" /\ mpc' = "spawn"
          /\ UNCHANGED <<out, done, ret>>
      BY <1>2, <2>1, OwnFacts DEF Spawn, MainGoto, IInv, SpawnInv
    <3>2. \A u \in Threads : pc[u] \in {"plock", "print"} => pc'[u] \in {"plock", "print"}
      BY <1>t, <2>1, <3>1
    <3> QED
      BY <1>t, <2>1, <3>1, <3>2
  <2>2. CASE i \notin Threads
    BY <1>2, <2>2 DEF Spawn, MainGoto
  <2> QED
    BY <2>1, <2>2
<1>3. CASE TestTime \/ Sleep
  BY <1>3 DEF TestTime, Sleep, MainGoto, threadVars
<1>4. CASE TestDone
  BY <1>4, <1>t DEF TestDone, MainGoto, threadVars, Threads
<1>5. CASE SetDone
  BY <1>5, <1>t DEF SetDone, MainGoto, threadVars, Threads
<1>6. CASE Join
  <2>1. CASE i \in Threads
    BY <1>6, <1>t, <2>1 DEF Join, MainGoto, threadVars, Threads
  <2>2. CASE i \notin Threads
    BY <1>6, <2>2 DEF Join, MainGoto, threadVars
  <2> QED
    BY <2>1, <2>2
<1>7. CASE Tick \/ Warp \/ UNCHANGED vars
  BY <1>7 DEF Tick, Warp, vars, threadVars, mainVars
<1> QED
  BY <1>1, <1>2, <1>3, <1>4, <1>5, <1>6, <1>7 DEF Next, Main, Terminated

\* Whatever the clock does, an exit status of 1 always comes with [FAILED] on
\* the console and never with [OK].
THEOREM AlwaysGenuine == Spec => []FailureIsGenuine
<1>1. Init => GenuineInv /\ ScanInv
  BY DEF Init, GenuineInv, ScanInv
<1>2. IInv /\ ScanInv /\ GenuineInv => FailureIsGenuine
  <2>1. ASSUME IInv, GenuineInv, mpc = "exit", NEW t \in Threads
        PROVE  pc[t] = "end"
    BY <2>1, ThreadTestAssumption DEF GenuineInv, IInv, SpawnInv, TypeOK, Threads
  <2> QED
    BY <2>1 DEF GenuineInv, FailureIsGenuine
<1> QED
  BY <1>1, <1>2, InitIInv, StepIInv, ScanStep, GenuineStep, PTL DEF Spec

-------------------------------------------------------------------------------
(* The threads of ThreadTest implement Sampler.                            *)

\* The abstract state that ThreadTest's Abstract instance reads off.
Found == "FAILED" \in out \/ \E t \in Threads : pc[t] \in {"plock", "print"}
Batch == [l \in {Own(t) : t \in Threads} |-> Samples(l)]

\* The first n pairs of the list of thread t look in order.
PairsOK(t, n) ==
  \A s \in Slots : s < n => ~Inconsistent(list[Own(t)][s], list[Own(t)][s + 1])

\* While nothing is found, whatever a list holds that will be dropped without
\* another look has been compared pair by pair; done says less, for main sets
\* it too.
Judged(t) ==
  /\ Independent => /\ pc[t] = "new" => count[t] = 0
                    /\ pc[t] = "top" => count[t] \in {0, LISTSIZE}
  /\ ~Found => /\ pc[t] = "scan" => PairsOK(t, idx[t])
               /\ Independent /\ pc[t] = "top" /\ count[t] = LISTSIZE =>
                     PairsOK(t, LISTSIZE - 1)

JudgedInv == \A t \in Threads : Judged(t)

-------------------------------------------------------------------------------
(* What the lists hold, as the sequences Sampler speaks of.                *)

\* A set without two different elements has at most one.
LEMMA AtMostOne ==
  ASSUME NEW S, \A x, y \in S : x = y
  PROVE  Cardinality(S) = IF S = {} THEN 0 ELSE 1
<1>1. CASE S = {}
  BY <1>1, FS_EmptySet
<1>2. CASE S # {}
  <2>1. PICK x \in S : TRUE
    BY <1>2
  <2>2. S = {x}
    BY <2>1
  <2> QED
    BY <1>2, <2>2, FS_Singleton
<1> QED
  BY <1>1, <1>2

\* The first n entries of a list, as a sequence.
LEMMA EntriesSeq ==
  ASSUME NEW f \in [Slots -> Instants], NEW n \in 0 .. LISTSIZE,
         NEW s, s = [k \in 1 .. n |-> f[k - 1]]
  PROVE  s \in Seq(Instants) /\ Len(s) = n
<1>1. \A k \in 1 .. n : k - 1 \in Slots
  BY ThreadTestAssumption DEF Slots
<1>2. s \in [1 .. n -> Instants] /\ n \in Nat
  BY <1>1, ThreadTestAssumption
<1>3. s \in Seq(Instants)
  BY <1>2, SeqDef
<1> QED
  BY <1>2, <1>3, LenProperties

\* The samples of a list are its filled entries: at most one of those claimed
\* is still waiting for its time.
SamplesInv ==
  \A l \in Lists :
     /\ Filled(l) \in 0 .. LISTSIZE
     /\ Samples(l) = [k \in 1 .. Filled(l) |-> list[l][k - 1]]
     /\ Samples(l) \in Seq(Instants) /\ Len(Samples(l)) = Filled(l)

\* The batches that the mapping takes from the lists are filled entries.
LEMMA SamplesAreEntries == IInv => SamplesInv
<1> SUFFICES ASSUME IInv, NEW l \in Lists
             PROVE  /\ Filled(l) \in 0 .. LISTSIZE
                    /\ Samples(l) = [k \in 1 .. Filled(l) |-> list[l][k - 1]]
                    /\ Samples(l) \in Seq(Instants) /\ Len(Samples(l)) = Filled(l)
  BY DEF SamplesInv
<1> DEFINE readers == {t \in Threads : Own(t) = l /\ pc[t] = "read"}
<1>1. Cardinality(readers) = IF Reading(l) THEN 1 ELSE 0
  <2>1. \A t, u \in readers : t = u
    BY Exclusive DEF Critical
  <2>2. readers = {} <=> ~Reading(l)
    BY DEF Reading
  <2> HIDE DEF readers
  <2> QED
    BY <2>1, <2>2, AtMostOne
<1>2. count[l] \in 0 .. LISTSIZE /\ list[l] \in [Slots -> Instants]
  BY DEF IInv, TypeOK
<1>3. Reading(l) => count[l] >= 1
  BY DEF Reading, IInv, TypeOK, SlotInv, Slots
<1>4. Samples(l) = [k \in 1 .. count[l] - Cardinality(readers) |-> list[l][k - 1]]
  BY DEF Samples
<1> HIDE DEF readers
<1>5. count[l] - Cardinality(readers) = Filled(l) /\ Filled(l) \in 0 .. LISTSIZE
  BY <1>1, <1>2, <1>3, ThreadTestAssumption DEF Filled
<1> QED
  BY <1>2, <1>4, <1>5, EntriesSeq

\* A batch changes only if the list does, or how far it is filled.
LEMMA SamplesKept ==
  ASSUME SamplesInv, SamplesInv', NEW l \in Lists, Filled(l)' = Filled(l), list'[l] = list[l]
  PROVE  Samples(l)' = Samples(l)
BY DEF SamplesInv

\* A batch that is emptied holds nothing.
LEMMA SamplesDropped ==
  ASSUME SamplesInv', NEW l \in Lists, Filled(l)' = 0
  PROVE  Samples(l)' = <<>>
<1>1. Samples(l)' \in Seq(Instants) /\ Len(Samples(l)') = 0
  BY DEF SamplesInv
<1> QED
  BY <1>1, EmptySeq

\* A sample that lands is the next one of its batch.
LEMMA SamplesAppended ==
  ASSUME IInv, SamplesInv, SamplesInv', NEW t \in Threads, ReadClock(t)
  PROVE  /\ Len(Samples(Own(t))) < LISTSIZE
         /\ Samples(Own(t))' = Append(Samples(Own(t)), clock)
<1> DEFINE l == Own(t)
<1>1. l \in Lists /\ Filled(l) = slot[t] /\ Filled(l)' = slot[t] + 1 /\ slot[t] \in Slots
  <2>1. l \in Lists /\ slot[t] \in Slots
    BY OwnFacts DEF IInv, TypeOK
  <2>2. Thread(t) /\ ~Drop(t)
    BY DEF Thread, Drop, CheckDone, ScanDone, ReadClock, Goto
  <2> QED
    BY <2>1, <2>2, FilledStep
<1>2. list'[l] = [list[l] EXCEPT ![slot[t]] = clock] /\ list[l] \in [Slots -> Instants]
  BY <1>1 DEF ReadClock, IInv, TypeOK
<1> HIDE DEF l
<1>3. /\ Samples(l) \in Seq(Instants) /\ Len(Samples(l)) = slot[t]
      /\ Samples(l)' \in Seq(Instants) /\ Len(Samples(l)') = slot[t] + 1
      /\ \A k \in 1 .. slot[t] : Samples(l)[k] = list[l][k - 1]
      /\ \A k \in 1 .. slot[t] + 1 : Samples(l)'[k] = list'[l][k - 1]
  BY <1>1 DEF SamplesInv
<1>4. clock \in Instants /\ slot[t] \in 0 .. LISTSIZE - 1
  BY DEF IInv, TypeOK, Slots
<1>5. \A k \in 1 .. slot[t] + 1 : Samples(l)'[k] = IF k = slot[t] + 1 THEN clock ELSE Samples(l)[k]
  <2> SUFFICES ASSUME NEW k \in 1 .. slot[t] + 1
               PROVE  Samples(l)'[k] = IF k = slot[t] + 1 THEN clock ELSE Samples(l)[k]
    OBVIOUS
  <2>1. k - 1 \in Slots /\ (k = slot[t] + 1 <=> k - 1 = slot[t])
        /\ (k # slot[t] + 1 => k \in 1 .. slot[t])
    BY <1>4, ThreadTestAssumption DEF Slots
  <2>2. list'[l][k - 1] = IF k - 1 = slot[t] THEN clock ELSE list[l][k - 1]
    BY <1>2, <2>1
  <2> QED
    BY <1>3, <2>1, <2>2
<1>6. Samples(l)' = Append(Samples(l), clock)
  <2> DEFINE before == Samples(l)
             after == Samples(l)'
             longer == Append(before, clock)
  <2>1. before \in Seq(Instants) /\ Len(before) = slot[t] /\ clock \in Instants /\ slot[t] \in Nat
    BY <1>3, <1>4
  <2>2. after \in Seq(Instants) /\ Len(after) = slot[t] + 1
    BY <1>3
  <2>3. \A k \in 1 .. slot[t] + 1 : after[k] = IF k = slot[t] + 1 THEN clock ELSE before[k]
    BY <1>5
  <2> HIDE DEF before, after
  <2>4. /\ longer \in Seq(Instants) /\ Len(longer) = slot[t] + 1
        /\ \A k \in 1 .. slot[t] : longer[k] = before[k]
        /\ longer[slot[t] + 1] = clock
    BY <2>1, AppendProperties
  <2>5. ASSUME NEW k \in 1 .. slot[t] + 1
        PROVE  after[k] = longer[k]
    <3>1. CASE k = slot[t] + 1
      BY <3>1, <2>3, <2>4
    <3>2. CASE k # slot[t] + 1
      <4>1. k \in 1 .. slot[t]
        BY <3>2, <2>1
      <4> QED
        BY <4>1, <3>2, <2>3, <2>4
    <3> QED
      BY <3>1, <3>2
  <2> HIDE DEF longer
  <2>6. after = longer
    BY <2>2, <2>4, <2>5, SeqEqual
  <2> QED
    BY <2>6 DEF before, after, longer
<1> QED
  BY <1>3, <1>4, <1>6, ThreadTestAssumption DEF l

-------------------------------------------------------------------------------
(* What has been found, and what has been judged.                          *)

\* Only a scan that meets a bad pair finds anything, and nothing is forgotten.
LEMMA FoundThread ==
  ASSUME IInv, NEW t \in Threads, Thread(t)
  PROVE  \/ Found' = Found
         \/ ScanPair(t) /\ PairBad(t) /\ Found' = TRUE
<1>t. pc = [u \in Threads |-> pc[u]]
  BY DEF IInv, TypeOK
<1>1. CASE ScanPair(t)
  <2>1. CASE PairBad(t)
    BY <1>t, <1>1, <2>1 DEF ScanPair, Goto, Found
  <2>2. CASE ~PairBad(t)
    <3>1. pc' = pc /\ out' = out
      BY <1>t, <1>1, <2>2 DEF ScanPair, Goto
    <3> QED
      BY <3>1 DEF Found
  <2> QED
    BY <2>1, <2>2
<1>2. CASE LockPrint(t)
  <2>1. Found = TRUE /\ Found' = TRUE
    BY <1>t, <1>2 DEF LockPrint, Goto, Found
  <2> QED
    BY <2>1
<1>3. CASE PrintFailed(t)
  <2>1. Found = TRUE /\ Found' = TRUE
    BY <1>t, <1>3 DEF PrintFailed, Goto, Found
  <2> QED
    BY <2>1
<1>4. CASE CheckDone(t) \/ LockList(t) \/ TakeSlot(t) \/ ReadClock(t) \/ UnlockList(t) \/ ScanDone(t)
  <2>1. out' = out /\ \A u \in Threads : pc'[u] \in {"plock", "print"} <=> pc[u] \in {"plock", "print"}
    BY <1>t, <1>4 DEF CheckDone, LockList, TakeSlot, ReadClock, UnlockList, ScanDone, Goto
  <2> QED
    BY <2>1 DEF Found
<1> QED
  BY <1>1, <1>2, <1>3, <1>4 DEF Thread

\* main and the clock find nothing and start no scan.
LEMMA OtherStep ==
  ASSUME IInv, Main \/ Tick \/ Warp \/ Terminated \/ UNCHANGED vars
  PROVE  /\ Found' = Found /\ list' = list /\ count' = count /\ idx' = idx
         /\ \A u \in Threads : pc'[u] = pc[u] \/ (pc[u] = "new" /\ pc'[u] = "top")
<1>1. CASE Spawn
  <2>1. /\ list' = list /\ count' = count /\ idx' = idx /\ out' = out
        /\ \A u \in Threads : pc'[u] = pc[u] \/ (pc[u] = "new" /\ pc'[u] = "top")
    BY <1>1 DEF Spawn, MainGoto, IInv, TypeOK, SpawnInv
  <2> QED
    BY <2>1 DEF Found
<1>2. ASSUME list' = list, count' = count, idx' = idx, pc' = pc,
             "FAILED" \in out' <=> "FAILED" \in out
      PROVE  /\ Found' = Found
             /\ \A u \in Threads : pc'[u] = pc[u] \/ (pc[u] = "new" /\ pc'[u] = "top")
  BY <1>2 DEF Found
<1>3. CASE TestTime \/ Sleep \/ TestDone \/ SetDone \/ Join
  BY <1>2, <1>3 DEF TestTime, Sleep, TestDone, SetDone, Join, threadVars
<1>4. CASE Tick \/ Warp \/ Terminated \/ UNCHANGED vars
  BY <1>2, <1>4 DEF Tick, Warp, Terminated, vars, threadVars
<1> QED
  BY <1>1, <1>2, <1>3, <1>4 DEF Main

\* A thread's place, scan and private list are its own.
LEMMA AloneStep ==
  ASSUME IInv, [Next]_vars, NEW t \in Threads, ~Thread(t)
  PROVE  /\ Independent => count'[t] = count[t] /\ list'[Own(t)] = list[Own(t)]
         /\ idx'[t] = idx[t] /\ (Found => Found')
         /\ pc'[t] = pc[t] \/ (pc[t] = "new" /\ pc'[t] = "top")
<1>t. /\ pc = [u \in Threads |-> pc[u]] /\ idx = [u \in Threads |-> idx[u]]
      /\ count = [l \in Lists |-> count[l]] /\ t \in Lists /\ Own(t) \in Lists
  BY OwnFacts DEF IInv, TypeOK, Lists
<1>1. ASSUME NEW u \in Threads, Thread(u), u # t
      PROVE  /\ Independent => count'[t] = count[t] /\ list'[Own(t)] = list[Own(t)]
             /\ idx'[t] = idx[t] /\ pc'[t] = pc[t] /\ (Found => Found')
  <2>1. idx'[t] = idx[t] /\ pc'[t] = pc[t]
    BY <1>t, <1>1 DEF Thread, Goto, CheckDone, LockList, TakeSlot, ReadClock, UnlockList,
       ScanPair, LockPrint, PrintFailed, ScanDone
  <2>2. Independent => count'[t] = count[t]
    BY <1>t, <1>1 DEF Thread, Goto, CheckDone, LockList, TakeSlot, ReadClock, UnlockList,
       ScanPair, LockPrint, PrintFailed, ScanDone, Own
  <2>3. Independent => list'[Own(t)] = list[Own(t)]
    BY <1>t, <1>1, ListStep, OwnFacts
  <2> QED
    BY <1>1, <2>1, <2>2, <2>3, FoundThread
<1> QED
  BY <1>1, OtherStep DEF Next

\* No comparison is skipped and none goes stale before its list is dropped.
LEMMA JudgedStep == IInv /\ JudgedInv /\ [Next]_vars => JudgedInv'
<1> SUFFICES ASSUME IInv, JudgedInv, [Next]_vars, NEW t \in Threads
             PROVE  Judged(t)'
  BY DEF JudgedInv
<1>t. /\ pc = [u \in Threads |-> pc[u]] /\ idx = [u \in Threads |-> idx[u]]
      /\ count = [l \in Lists |-> count[l]] /\ idx[t] \in Slots
      /\ Own(t) \in Lists /\ t \in Lists /\ Judged(t)
  BY OwnFacts DEF IInv, TypeOK, Lists, JudgedInv
<1>1. ASSUME list'[Own(t)] = list[Own(t)], NEW n \in Nat, PairsOK(t, n)
      PROVE  \A s \in Slots : s < n => ~Inconsistent(list'[Own(t)][s], list'[Own(t)][s + 1])
  BY <1>1 DEF PairsOK
<1>2. pc[t] = "scan" => list'[Own(t)] = list[Own(t)]
  BY ScanStable DEF Scanning
<1>n. idx[t] \in Nat /\ LISTSIZE - 1 \in Nat /\ LISTSIZE # 0
  BY <1>t, ThreadTestAssumption DEF Slots
<1>3. CASE ~Thread(t)
  <2>1. /\ Independent => count'[t] = count[t] /\ list'[Own(t)] = list[Own(t)]
        /\ idx'[t] = idx[t] /\ (Found => Found')
        /\ pc'[t] = pc[t] \/ (pc[t] = "new" /\ pc'[t] = "top")
    BY <1>3, AloneStep
  <2> QED
    BY <1>t, <1>n, <1>1, <1>2, <2>1 DEF Judged, PairsOK
<1>4. CASE ScanPair(t)
  <2>1. CASE PairBad(t)
    BY <1>t, <1>4, <2>1 DEF ScanPair, Goto, Judged, Found
  <2>2. CASE ~PairBad(t)
    <3>1. /\ pc[t] = "scan" /\ pc' = pc /\ idx'[t] = idx[t] + 1 /\ list' = list /\ out' = out
      BY <1>t, <1>4, <2>2 DEF ScanPair, Goto
    <3>2. Found' = Found
      BY <3>1 DEF Found
    <3>3. PairsOK(t, idx[t]) => PairsOK(t, idx[t] + 1)
      BY <1>n, <2>2 DEF PairsOK, PairBad, Slots
    <3> QED
      BY <1>t, <3>1, <3>2, <3>3 DEF Judged, PairsOK
  <2> QED
    BY <2>1, <2>2
<1>5. CASE LockList(t) \/ ReadClock(t)
  <2>1. idx'[t] = 0 /\ pc'[t] \notin {"new", "top"}
    BY <1>t, <1>5 DEF LockList, ReadClock, Goto
  <2>2. \A s \in Slots : ~(s < 0)
    BY DEF Slots
  <2> QED
    BY <2>1, <2>2 DEF Judged, PairsOK
<1>6. CASE PrintFailed(t)
  BY <1>t, <1>6 DEF PrintFailed, Goto, Judged, Found
<1>7. CASE CheckDone(t) \/ TakeSlot(t) \/ LockPrint(t)
  BY <1>t, <1>7 DEF CheckDone, TakeSlot, LockPrint, Goto, Judged
<1>8. CASE UnlockList(t)
  BY <1>t, <1>8 DEF UnlockList, Goto, Judged, IInv, LockInv
<1>9. CASE ScanDone(t)
  <2>1. /\ pc[t] = "scan" /\ idx[t] >= LISTSIZE - 1 /\ list' = list
        /\ pc'[t] \in {"top", "slot"} /\ (Independent => count' = count)
        /\ Scanning(t)
    BY <1>t, <1>9 DEF ScanDone, Goto, Scanning
  <2>2. Independent => count'[t] = LISTSIZE
    BY <2>1 DEF IInv, SlotInv, Own
  <2>3. Found' = Found
    BY <1>t, <1>9 DEF ScanDone, Goto, Found
  <2>4. PairsOK(t, idx[t]) => PairsOK(t, LISTSIZE - 1)
    BY <1>n, <2>1 DEF PairsOK, Slots
  <2> QED
    BY <1>t, <2>1, <2>2, <2>3, <2>4 DEF Judged, PairsOK
<1> QED
  BY <1>3, <1>4, <1>5, <1>6, <1>7, <1>8, <1>9 DEF Thread

-------------------------------------------------------------------------------
(* Every step is a step of Sampler, or none.                               *)

\* The pairs of a full batch are the pairs of its list.
LEMMA PairsOfBatch ==
  ASSUME IInv, SamplesInv, NEW t \in Threads, Filled(Own(t)) = LISTSIZE,
         NEW k \in 1 .. Len(Samples(Own(t))) - 1
  PROVE  /\ k - 1 \in Slots /\ k \in Slots /\ k - 1 < LISTSIZE - 1
         /\ Samples(Own(t))[k] = list[Own(t)][k - 1] /\ list[Own(t)][k - 1] \in Instants
         /\ Samples(Own(t))[k + 1] = list[Own(t)][(k - 1) + 1] /\ list[Own(t)][(k - 1) + 1] \in Instants
<1>1. Own(t) \in Lists /\ k \in 1 .. LISTSIZE - 1
  BY OwnFacts DEF SamplesInv
<1>2. k - 1 \in Slots /\ k \in Slots /\ k - 1 < LISTSIZE - 1 /\ (k - 1) + 1 = k /\ (k + 1) - 1 = k
      /\ k \in 1 .. LISTSIZE /\ k + 1 \in 1 .. LISTSIZE
  BY <1>1, ThreadTestAssumption DEF Slots
<1>3. Samples(Own(t)) = [j \in 1 .. LISTSIZE |-> list[Own(t)][j - 1]]
  BY <1>1 DEF SamplesInv
<1>4. Samples(Own(t))[k] = list[Own(t)][k - 1] /\ Samples(Own(t))[k + 1] = list[Own(t)][k]
  BY <1>2, <1>3
<1> QED
  BY <1>1, <1>2, <1>4 DEF IInv, TypeOK

\* A list is dropped when it is empty, or full and judged.
LEMMA DropJudged ==
  ASSUME IInv, JudgedInv, NEW t \in Threads, Drop(t), Filled(Own(t)) # 0
  PROVE  Filled(Own(t)) = LISTSIZE /\ (Found \/ PairsOK(t, LISTSIZE - 1))
<1>1. CASE Independent
  <2>1. Own(t) = t /\ pc[t] = "top" /\ ~Reading(t)
    BY <1>1, OwnFacts DEF Drop, CheckDone, Goto, Own, Reading
  <2>2. Filled(Own(t)) = count[t]
    BY <2>1 DEF Filled
  <2> QED
    BY <1>1, <2>1, <2>2 DEF JudgedInv, Judged
<1>2. CASE ~Independent
  <2>1. pc[t] = "scan" /\ idx[t] >= LISTSIZE - 1 /\ idx[t] \in Slots
    BY <1>2 DEF Drop, ScanDone, Goto, IInv, TypeOK
  <2>2. idx[t] = LISTSIZE - 1
    BY <2>1, ThreadTestAssumption DEF Slots
  <2> QED
    BY <2>1, <2>2, ScanFilled DEF JudgedInv, Judged, Scanning
<1> QED
  BY <1>1, <1>2

\* Sampler's order of instants is the program's in_order.
LEMMA SameOrder == \A x, y : Abstract!in_order(x, y) <=> in_order(x, y)
BY DEF Abstract!in_order, in_order

\* A thread samples, finds, discards a judged batch, or does nothing Sampler
\* can see.
LEMMA ThreadRefines ==
  ASSUME IInv, SamplesInv, SamplesInv', JudgedInv, NEW t \in Threads, Thread(t)
  PROVE  Abstract!Next \/ UNCHANGED Abstract!vars
<1> DEFINE b == Own(t)
<1>b. b \in {Own(u) : u \in Threads} /\ b \in Lists /\ {Own(u) : u \in Threads} \subseteq Lists
  BY OwnFacts
<1>f. Batch[b] = Samples(b) /\ Batch = [l \in {Own(u) : u \in Threads} |-> Batch[l]]
  BY <1>b DEF Batch
<1>s. faulty' = faulty /\ clock' = clock
  BY DEF Thread, CheckDone, LockList, TakeSlot, ReadClock, UnlockList, ScanPair, LockPrint,
     PrintFailed, ScanDone
<1>1. ASSUME NEW l \in {Own(u) : u \in Threads}, Filled(l)' = Filled(l),
             ~(ReadClock(t) /\ l = b)
      PROVE  Samples(l)' = Samples(l)
  BY <1>1, <1>b, ListStep, SamplesKept
<1>2. ASSUME NEW l \in {Own(u) : u \in Threads}, l # b
      PROVE  Samples(l)' = Samples(l)
  BY <1>1, <1>2, <1>b, FilledStep
<1>3. ASSUME NEW s, Samples(b)' = s PROVE Batch' = [Batch EXCEPT ![b] = s]
  BY <1>2, <1>3, <1>f DEF Batch
<1>4. CASE ReadClock(t)
  <2>1. Len(Batch[b]) < LISTSIZE /\ Batch' = [Batch EXCEPT ![b] = Append(Batch[b], clock)]
    BY <1>3, <1>4, <1>f, SamplesAppended
  <2>2. Found' = Found
    BY <1>4, FoundThread DEF ReadClock, ScanPair, Goto
  <2>3. Abstract!Sample(b)
    BY <1>s, <2>1, <2>2 DEF Abstract!Sample, Batch, Found
  <2> QED
    BY <1>b, <2>3 DEF Abstract!Next
<1>5. CASE Filled(b)' = Filled(b) /\ ~ReadClock(t)
  <2>1. Batch' = Batch
    <3>1. \A l \in {Own(u) : u \in Threads} : Samples(l)' = Samples(l)
      BY <1>1, <1>2, <1>5
    <3> QED
      BY <3>1 DEF Batch
  <2>2. CASE Found' = Found
    BY <1>s, <2>1, <2>2 DEF Abstract!vars, Batch, Found
  <2>3. CASE ScanPair(t) /\ PairBad(t) /\ Found' = TRUE
    <3>1. Filled(b) = LISTSIZE
      BY <2>3, ScanFilled DEF ScanPair, Goto, Scanning
    <3>2. Len(Batch[b]) = LISTSIZE
      BY <1>b, <1>f, <3>1 DEF SamplesInv
    <3> DEFINE k == idx[t] + 1
    <3>3. k \in 1 .. Len(Batch[b]) - 1
      BY <2>3, <3>2, ThreadTestAssumption DEF ScanPair, IInv, TypeOK, Slots
    <3>4. ~in_order(Batch[b][k], Batch[b][k + 1])
      <4>1. k - 1 = idx[t]
        BY DEF IInv, TypeOK, Slots
      <4>2. Inconsistent(Samples(b)[k], Samples(b)[k + 1])
            /\ Samples(b)[k] \in Instants /\ Samples(b)[k + 1] \in Instants
        BY <1>f, <2>3, <3>1, <3>3, <4>1, PairsOfBatch DEF PairBad
      <4> QED
        BY <1>f, <4>2, OrderFacts
    <3>5. \E s \in {<<Batch[b][j], Batch[b][j + 1]>> : j \in 1 .. Len(Batch[b]) - 1} :
             ~in_order(s[1], s[2])
      <4> HIDE DEF k
      <4>1. <<Batch[b][k], Batch[b][k + 1]>>
              \in {<<Batch[b][j], Batch[b][j + 1]>> : j \in 1 .. Len(Batch[b]) - 1}
        BY <3>3
      <4>2. ~in_order(<<Batch[b][k], Batch[b][k + 1]>>[1], <<Batch[b][k], Batch[b][k + 1]>>[2])
        BY <3>4
      <4> QED
        BY <4>1, <4>2, Zenon
    <3>6. Abstract!Find(b)
      BY <1>s, <2>1, <2>3, <3>2, <3>5, SameOrder DEF Abstract!Find, Abstract!Full, Abstract!Steps, Batch, Found
    <3> QED
      BY <1>b, <3>6 DEF Abstract!Next
  <2> QED
    BY <2>2, <2>3, FoundThread
<1>6. CASE Filled(b)' = 0 /\ Drop(t) /\ Filled(b) # 0
  <2>1. Batch' = [Batch EXCEPT ![b] = <<>>]
    BY <1>3, <1>6, <1>b, SamplesDropped
  <2>2. Filled(b) = LISTSIZE /\ (Found \/ PairsOK(t, LISTSIZE - 1))
    BY <1>6, DropJudged
  <2>3. Len(Batch[b]) = LISTSIZE
    BY <1>b, <1>f, <2>2 DEF SamplesInv
  <2>4. Found' = Found
    <3>1. ~ScanPair(t)
      BY <1>6, ThreadTestAssumption
         DEF Drop, CheckDone, ScanDone, ScanPair, Goto, IInv, TypeOK, Slots
    <3> QED
      BY <3>1, FoundThread
  <2>5. Found \/ \A s \in {<<Batch[b][j], Batch[b][j + 1]>> : j \in 1 .. Len(Batch[b]) - 1} :
                   s[1].tv_sec = s[2].tv_sec => in_order(s[1], s[2])
    <3> SUFFICES ASSUME ~Found, NEW j \in 1 .. Len(Batch[b]) - 1,
                        Batch[b][j].tv_sec = Batch[b][j + 1].tv_sec
                 PROVE  in_order(Batch[b][j], Batch[b][j + 1])
      OBVIOUS
    <3>1. ~Inconsistent(Batch[b][j], Batch[b][j + 1])
          /\ Batch[b][j] \in Instants /\ Batch[b][j + 1] \in Instants
      BY <1>f, <2>2, PairsOfBatch DEF PairsOK
    <3> QED
      BY <3>1, OrderFacts
  <2>6. Abstract!Discard(b)
    BY <1>s, <2>1, <2>3, <2>4, <2>5, SameOrder DEF Abstract!Discard, Abstract!Full, Abstract!Steps, Batch, Found
  <2> QED
    BY <1>b, <2>6 DEF Abstract!Next
<1>7. CASE Filled(b)' = 0 /\ Drop(t) /\ Filled(b) = 0
  <2>1. ~ReadClock(t)
    BY <1>7 DEF Drop, CheckDone, ScanDone, ReadClock, Goto
  <2> QED
    BY <1>5, <1>7, <2>1
<1> QED
  BY <1>4, <1>5, <1>6, <1>7, <1>b, FilledStep

\* Time passes in both; main is invisible.
LEMMA OtherRefines ==
  ASSUME IInv, SamplesInv, SamplesInv', Main \/ Tick \/ Warp \/ Terminated \/ UNCHANGED vars
  PROVE  Abstract!Next \/ UNCHANGED Abstract!vars
<1>1. Batch' = Batch
  <2> SUFFICES ASSUME NEW l \in {Own(u) : u \in Threads}
               PROVE  Samples(l)' = Samples(l)
    BY DEF Batch
  <2>1. l \in Lists
    BY OwnFacts
  <2> QED
    BY <2>1, OtherFilled, SamplesKept DEF Terminated
<1>2. Found' = Found
  BY OtherStep
<1>3. CASE Tick \/ Warp
  <2>1. faulty' = faulty /\ (faulty \/ in_order(clock, clock'))
    BY <1>3 DEF Tick, Warp
  <2>2. Abstract!Run
    BY <1>1, <1>2, <2>1, SameOrder DEF Abstract!Run, Batch, Found
  <2> QED
    BY <2>2 DEF Abstract!Next
<1>4. CASE Main \/ Terminated \/ UNCHANGED vars
  <2>1. faulty' = faulty /\ clock' = clock
    BY <1>4 DEF Main, Spawn, TestTime, Sleep, TestDone, SetDone, Join, Terminated, vars
  <2> QED
    BY <1>1, <1>2, <2>1 DEF Abstract!vars, Batch, Found
<1> QED
  BY <1>3, <1>4

\* Nothing sampled, nothing found.
LEMMA InitRefines == Init /\ SamplesInv => Abstract!Init
<1> SUFFICES ASSUME Init, SamplesInv PROVE Abstract!Init
  OBVIOUS
<1>1. \A l \in Lists : Samples(l) = <<>>
  <2> SUFFICES ASSUME NEW l \in Lists PROVE Samples(l) = <<>>
    OBVIOUS
  <2>1. Filled(l) = 0
    BY DEF Init, Filled, Reading
  <2> QED
    BY <2>1, EmptySeq DEF SamplesInv
<1>2. Batch = [b \in {Own(t) : t \in Threads} |-> <<>>]
  BY <1>1, OwnFacts DEF Batch
<1>3. Found = FALSE
  BY DEF Init, Found
<1> QED
  BY <1>2, <1>3 DEF Init, Abstract!Init, Epoch, Batch, Found

\* For every number of threads, list size and clock, and in both modes: what
\* the threads, their locks, their counters and done come to is a sampler that
\* takes each sample at one moment, judges full batches, and drops none before
\* it has been judged.
THEOREM ThreadsImplementSampler == Spec => RefinesSampler
<1>1. Init => JudgedInv
  BY DEF Init, JudgedInv, Judged, Lists
<1>2. Init /\ SamplesInv => Abstract!Init
  BY InitRefines
<1>3. IInv /\ SamplesInv /\ SamplesInv' /\ JudgedInv /\ [Next]_vars => [Abstract!Next]_(Abstract!vars)
  BY ThreadRefines, OtherRefines DEF Next
<1> QED
  BY <1>1, <1>2, <1>3, InductiveInvariant, SamplesAreEntries, JudgedStep, PTL
     DEF Spec, RefinesSampler, Abstract!Spec
===============================================================================
