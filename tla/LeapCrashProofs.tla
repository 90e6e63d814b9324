---------------------------- MODULE LeapCrashProofs ----------------------------
(***************************************************************************)
(* What leapcrash promises, for any number of rounds, length of the day and  *)
(* kernel.                                                                 *)
(*                                                                         *)
(* ClearInv is what the two calls of clear_time_state are worth, wherever    *)
(* the program is; RoundInv follows a round through its leap (Hammering).    *)
(* Each needs the other: a round is sure of its leap only if the one before  *)
(* was cleared, and the flag that is set over and over never includes the    *)
(* PLL, whose end would restart the state machine.                          *)
(***************************************************************************)
EXTENDS LeapCrash, NtpKernelProofs

Clearing == {"clear1", "clear2"}
Setting  == {"read", "first"}

\* The program is in a round, before its flag is set or until it is cleared.
InRound == pc \in Setting \cup {"hammer"} \/ (pc \in Clearing /\ next_leap # 0 /\ ~interrupted)

ClearInv ==
  /\ pc = "clear2" => "PLL" \in ntp.status /\ ntp.status \subseteq {"PLL", "UNSYNC"}
  /\ pc \in {"gettime", "round", "exit"} \cup Setting =>
       ntp.state = "OK" /\ ntp.status \subseteq {"UNSYNC"}
  /\ interrupted => pc \in Clearing \cup {"exit"}

\* The flag is set: the state machine is ahead of the leap, in it or past it.
Hammering ==
  /\ "INS" \in ntp.status /\ "PLL" \notin ntp.status
  /\ \/ ntp.state = "OK"   /\ clock = next_leap - 2  /\ leapt = 0
     \/ ntp.state = "INS"  /\ clock = next_leap - 1  /\ leapt = 0
     \/ ntp.state = "OOP"  /\ clock = next_leap - 1  /\ leapt = -1
     \/ ntp.state = "WAIT" /\ clock >= next_leap     /\ leapt = -1

RoundInv ==
  /\ next_leap % DAY = 0 /\ (next_leap = 0 \/ next_leap >= DAY)
  /\ pc \in {"round", "hammer"} \cup Setting => next_leap # 0
  /\ InRound => count < COUNT
  /\ pc \in Setting => clock = next_leap - 2 /\ leapt = 0
  /\ pc = "first" => tx_time = clock
  /\ pc = "hammer" => Hammering /\ tx_time <= clock
  /\ pc \in Clearing /\ next_leap # 0 /\ ~interrupted =>
       /\ leapt = -1 /\ ntp.state \in {"OK", "WAIT"}
       /\ pc = "clear1" => ntp.state = "WAIT" /\ "INS" \in ntp.status

CrashInv == TypeOK /\ ClearInv /\ RoundInv

-------------------------------------------------------------------------------
\* The program starts with a clean-up, whatever the kernel is found in.
LEMMA InitCrash ==
  ASSUME NtpAssumption, LeapCrashAssumption, LongDay, Init
  PROVE  CrashInv
<1>1. /\ clock = Start /\ leapt = 0 /\ pc = "clear1" /\ next_leap = 0 /\ count = 0
      /\ tx_time = 0 /\ interrupted = FALSE /\ exitcode = 0
  BY DEF Init
<1>2. Start \in Nat /\ COUNT \in Nat /\ DAY \in Nat \ {0} /\ 0 \in 0 .. COUNT
  BY DEF LeapCrashAssumption, NtpAssumption
<1>3. ntp \in Ntp
  BY DEF Init, Ntp, NtpAssumption, Flags, States
<1>4. interrupted \in BOOLEAN
  BY <1>1, Zenon
<1>5. TypeOK
  BY <1>1, <1>2, <1>3, <1>4 DEF TypeOK
<1>6. 0 % DAY = 0
  BY <1>2
<1> QED
  BY <1>1, <1>5, <1>6 DEF CrashInv, ClearInv, RoundInv, InRound, Clearing, Setting

\* A second passes.
LEMMA TickCrash ==
  ASSUME NtpAssumption, LeapCrashAssumption, LongDay, CrashInv, Tick
  PROVE  CrashInv'
<1> DEFINE secs == clock + 1
           l    == leap(ntp, secs)
<1>1. /\ clock \in Nat /\ leapt \in Int /\ ntp \in Ntp /\ next_leap \in Nat /\ secs \in Nat
      /\ DAY \in Nat \ {0}
  BY DEF CrashInv, TypeOK, NtpAssumption
<1>2. /\ pc \notin {"gettime", "read", "first"}
      /\ clock' = secs + l /\ ntp' = second_overflow(ntp, secs) /\ leapt' = leapt + l
      /\ UNCHANGED <<pc, next_leap, count, tx_time, interrupted, exitcode>>
  BY DEF Tick
<1>3. /\ ntp' \in Ntp /\ ntp'.state = next_state(ntp, secs)
      /\ ntp.status \subseteq ntp'.status /\ ntp'.status \subseteq ntp.status \cup {"UNSYNC"}
      /\ l \in {-1, 0, 1}
      /\ l = -1 <=> ntp.state = "INS" /\ next_state(ntp, secs) = "OOP"
      /\ l = 1 <=> ntp.state = "DEL" /\ next_state(ntp, secs) = "WAIT"
  BY <1>1, <1>2, Overflow
<1> HIDE DEF l, secs
<1>4. clock' >= clock /\ clock' \in Nat /\ leapt' \in Int /\ secs = clock + 1
  BY <1>1, <1>2, <1>3 DEF secs
<1>5. TypeOK'
  BY <1>2, <1>3, <1>4 DEF CrashInv, TypeOK
<1>6. ClearInv'
  <2>1. pc = "clear2" => "PLL" \in ntp'.status /\ ntp'.status \subseteq {"PLL", "UNSYNC"}
    BY <1>3 DEF CrashInv, ClearInv
  <2>2. pc \in {"round", "exit"} => ntp'.state = "OK" /\ ntp'.status \subseteq {"UNSYNC"}
    BY <1>3 DEF CrashInv, ClearInv, next_state
  <2> QED
    BY <1>2, <2>1, <2>2 DEF CrashInv, ClearInv, Setting
<1>7. ASSUME pc = "hammer" PROVE Hammering' /\ tx_time' <= clock'
  <2>1. /\ Hammering /\ tx_time <= clock /\ next_leap % DAY = 0 /\ tx_time \in Nat
        /\ "INS" \in ntp'.status /\ "PLL" \notin ntp'.status
    BY <1>3, <1>7 DEF CrashInv, TypeOK, RoundInv, Hammering
  <2>2. tx_time' <= clock'
    BY <1>1, <1>2, <1>4, <2>1
  <2>3. ~Withdrawn(ntp, "INS") /\ ntp.status \cap {"INS", "DEL"} # {}
    BY <2>1 DEF Withdrawn, Hammering
  <2>4. CASE ntp.state = "OK" /\ clock = next_leap - 2 /\ leapt = 0
    <3>1. ntp'.state = "INS" /\ l = 0
      BY <1>3, <2>1, <2>4 DEF next_state, Hammering
    <3> QED
      BY <1>1, <1>2, <1>4, <2>1, <2>2, <2>4, <3>1 DEF Hammering
  <2>5. CASE ntp.state = "INS" /\ clock = next_leap - 1 /\ leapt = 0
    <3>1. secs = next_leap
      BY <1>1, <1>4, <2>5
    <3>2. ntp'.state = "OOP" /\ l = -1
      BY <1>3, <2>1, <2>3, <2>5, <3>1 DEF next_state
    <3> QED
      BY <1>1, <1>2, <1>4, <2>1, <2>2, <2>5, <3>2 DEF Hammering
  <2>6. CASE ntp.state = "OOP" /\ clock = next_leap - 1 /\ leapt = -1
    <3>1. ntp'.state = "WAIT" /\ l = 0
      BY <1>3, <2>6 DEF next_state
    <3> QED
      BY <1>1, <1>2, <1>4, <2>1, <2>2, <2>6, <3>1 DEF Hammering
  <2>7. CASE ntp.state = "WAIT" /\ clock >= next_leap /\ leapt = -1
    <3>1. ntp'.state = "WAIT" /\ l = 0
      BY <1>3, <2>3, <2>7 DEF next_state
    <3> QED
      BY <1>1, <1>2, <1>4, <2>1, <2>2, <2>7, <3>1 DEF Hammering
  <2> QED
    BY <2>1, <2>4, <2>5, <2>6, <2>7 DEF Hammering
<1>8. ASSUME pc \in Clearing, next_leap # 0, ~interrupted
      PROVE  /\ leapt' = -1 /\ ntp'.state \in {"OK", "WAIT"}
             /\ pc = "clear1" => ntp'.state = "WAIT" /\ "INS" \in ntp'.status
  <2>1. /\ leapt = -1 /\ ntp.state \in {"OK", "WAIT"}
        /\ pc = "clear1" => ntp.state = "WAIT" /\ "INS" \in ntp.status
    BY <1>8 DEF CrashInv, RoundInv
  <2>2. l = 0
    BY <1>3, <2>1
  <2>3. CASE pc = "clear1"
    BY <1>2, <1>3, <2>1, <2>2, <2>3 DEF next_state
  <2>4. CASE pc = "clear2"
    <3>1. "INS" \notin ntp.status /\ "DEL" \notin ntp.status
      BY <2>4 DEF CrashInv, ClearInv
    <3> QED
      BY <1>2, <1>3, <2>1, <2>2, <2>4, <3>1 DEF next_state
  <2> QED
    BY <1>8, <2>3, <2>4 DEF Clearing
<1>9. RoundInv'
  BY <1>2, <1>7, <1>8 DEF CrashInv, RoundInv, InRound, Setting
<1> QED
  BY <1>5, <1>6, <1>9 DEF CrashInv

\* ctrl-c: the clean-up begins anew, and main has had its last step.
LEMMA HandlerCrash ==
  ASSUME NtpAssumption, LeapCrashAssumption, LongDay, CrashInv, handler
  PROVE  CrashInv'
<1>1. /\ interrupted' = TRUE /\ pc' = "clear1"
      /\ UNCHANGED <<clock, ntp, leapt, next_leap, count, tx_time, exitcode>>
  BY DEF handler
<1>2. interrupted' \in BOOLEAN
  BY <1>1, Zenon
<1>3. TypeOK'
  BY <1>1, <1>2 DEF CrashInv, TypeOK
<1> QED
  BY <1>1, <1>3 DEF CrashInv, ClearInv, RoundInv, InRound, Clearing, Setting

\* The first call makes the PLL the only flag, the second ends it: with it goes
\* whatever the state machine was about.
LEMMA ClearCrash ==
  ASSUME NtpAssumption, LeapCrashAssumption, LongDay, CrashInv, clear_time_state
  PROVE  CrashInv'
<1>1. /\ ntp \in Ntp /\ count \in 0 .. COUNT /\ COUNT \in Nat /\ interrupted \in BOOLEAN
      /\ {} \in SUBSET Flags /\ {"PLL"} \in SUBSET Flags
      /\ UNCHANGED <<clock, leapt, next_leap, tx_time, interrupted, exitcode>>
  BY DEF CrashInv, TypeOK, Flags, LeapCrashAssumption, clear_time_state
<1>2. CASE pc = "clear1"
  <2>1. pc' = "clear2" /\ ntp' = adj_status(ntp, {"PLL"}) /\ count' = count
    BY <1>2 DEF clear_time_state, Goto
  <2>2. ntp' \in Ntp /\ ntp'.status = {"PLL"} /\ ntp'.state = ntp.state
    BY <1>1, <2>1, Calls
  <2>3. TypeOK'
    BY <1>1, <2>1, <2>2 DEF CrashInv, TypeOK
  <2>4. ClearInv'
    BY <1>1, <1>2, <2>1, <2>2 DEF CrashInv, ClearInv, Clearing, Setting
  <2>5. RoundInv'
    BY <1>1, <1>2, <2>1, <2>2 DEF CrashInv, RoundInv, InRound, Clearing, Setting
  <2> QED
    BY <2>3, <2>4, <2>5 DEF CrashInv
<1>3. CASE pc = "clear2"
  <2>1. /\ pc' = (IF interrupted THEN "exit" ELSE IF next_leap = 0 THEN "gettime" ELSE "round")
        /\ ntp' = adj_status(ntp, {})
        /\ count' = (IF next_leap = 0 \/ interrupted THEN count ELSE count + 1)
    BY <1>3 DEF clear_time_state, Goto
  <2>2. ntp' \in Ntp /\ ntp'.status = {} /\ ntp'.state = "OK"
    BY <1>1, <1>3, <2>1, Calls DEF CrashInv, ClearInv
  <2>3. next_leap # 0 /\ ~interrupted => count < COUNT
    BY <1>3 DEF CrashInv, RoundInv, InRound, Clearing
  <2>4. count' \in 0 .. COUNT
    BY <1>1, <2>1, <2>3
  <2>5. /\ pc' \in {"exit", "gettime", "round"} /\ (pc' = "round" => next_leap # 0)
        /\ interrupted => pc' = "exit"
    BY <2>1
  <2>6. TypeOK'
    BY <1>1, <2>2, <2>4, <2>5 DEF CrashInv, TypeOK
  <2>7. ClearInv'
    BY <1>1, <2>2, <2>5 DEF CrashInv, ClearInv, Clearing, Setting
  <2>8. RoundInv'
    BY <1>1, <2>5 DEF CrashInv, RoundInv, InRound, Clearing, Setting
  <2> QED
    BY <2>6, <2>7, <2>8 DEF CrashInv
<1> QED
  BY <1>2, <1>3 DEF clear_time_state, Goto

\* The next midnight.
LEMMA GetTimeCrash ==
  ASSUME NtpAssumption, LeapCrashAssumption, LongDay, CrashInv, GetTime
  PROVE  CrashInv'
<1>1. /\ pc = "gettime" /\ pc' = "round" /\ next_leap' = clock + (DAY - (clock % DAY))
      /\ UNCHANGED <<clock, ntp, leapt, count, tx_time, interrupted, exitcode>>
  BY DEF GetTime, Goto
<1>2. clock \in Nat /\ DAY \in Nat \ {0}
  BY DEF CrashInv, TypeOK, NtpAssumption
<1> DEFINE midnight == clock + (DAY - (clock % DAY))
<1>3. midnight % DAY = 0 /\ midnight \in Nat /\ midnight >= DAY
  BY <1>2, NextMidnight
<1>4. next_leap' = midnight
  BY <1>1
<1> HIDE DEF midnight
<1>5. midnight # 0
  BY <1>2, <1>3
<1>6. next_leap' % DAY = 0 /\ next_leap' \in Nat /\ next_leap' >= DAY /\ next_leap' # 0
  BY <1>3, <1>4, <1>5
<1> QED
  BY <1>1, <1>6 DEF CrashInv, TypeOK, ClearInv, RoundInv, InRound, Clearing, Setting

\* A round begins two seconds before midnight, or there is none.
LEMMA SetTimeCrash ==
  ASSUME NtpAssumption, LeapCrashAssumption, LongDay, CrashInv, SetTime
  PROVE  CrashInv'
<1>1. /\ pc = "round" /\ UNCHANGED <<next_leap, count, tx_time, interrupted>> /\ ntp \in Ntp
      /\ next_leap \in Nat /\ next_leap >= DAY /\ DAY \in Nat /\ DAY >= 2
      /\ ntp.state = "OK" /\ ntp.status \subseteq {"UNSYNC"} /\ ~interrupted
  BY DEF SetTime, Goto, CrashInv, TypeOK, RoundInv, ClearInv, NtpAssumption, LongDay, Clearing
<1>2. CASE pc' = "exit"
  <2>1. UNCHANGED <<clock, ntp, leapt>> /\ exitcode' \in {exitcode, 1}
    BY <1>2 DEF SetTime, Goto
  <2> QED
    BY <1>1, <1>2, <2>1 DEF CrashInv, TypeOK, ClearInv, RoundInv, InRound, Clearing, Setting
<1>3. CASE pc' # "exit"
  <2>1. /\ count < COUNT /\ pc' = "read" /\ clock' = next_leap - 2 /\ ntp' = set_ntp(ntp)
        /\ leapt' = 0 /\ exitcode' = exitcode
    BY <1>3 DEF SetTime, Goto
  <2>2. ntp' \in Ntp /\ ntp'.state = "OK" /\ ntp'.status \subseteq {"UNSYNC"}
    BY <1>1, <2>1, Calls
  <2>3. clock' \in Nat
    BY <1>1, <2>1
  <2> QED
    BY <1>1, <2>1, <2>2, <2>3
    DEF CrashInv, TypeOK, ClearInv, RoundInv, InRound, Clearing, Setting
<1> QED
  BY <1>2, <1>3

\* The time is read, and the flag set, over and over.
LEMMA HammerCrash ==
  ASSUME NtpAssumption, LeapCrashAssumption, LongDay, CrashInv, ReadTime \/ Hammer
  PROVE  CrashInv'
<1>1. /\ clock \in Nat /\ next_leap \in Nat /\ tx_time \in Nat /\ ntp \in Ntp
      /\ {"INS"} \in SUBSET Flags
      /\ UNCHANGED <<clock, leapt, next_leap, count, interrupted, exitcode>>
  BY DEF CrashInv, TypeOK, Flags, ReadTime, Hammer
<1>2. CASE ReadTime
  <2>1. pc = "read" /\ pc' = "first" /\ tx_time' = clock /\ ntp' = ntp
    BY <1>2 DEF ReadTime, Goto
  <2> QED
    BY <1>1, <2>1 DEF CrashInv, TypeOK, ClearInv, RoundInv, InRound, Clearing, Setting
<1>3. CASE Hammer /\ pc' = "hammer"
  <2>1. /\ pc \in {"first", "hammer"} /\ tx_time' = clock /\ ntp' = adj_status(ntp, {"INS"})
    BY <1>3 DEF Hammer, Goto
  <2>2. "PLL" \notin ntp.status
    BY <2>1 DEF CrashInv, ClearInv, RoundInv, Hammering, Setting
  <2>3. ntp' \in Ntp /\ ntp'.status = {"INS"} /\ ntp'.state = ntp.state
    BY <1>1, <2>1, <2>2, Calls
  <2>4. Hammering'
    <3>1. CASE pc = "first"
      BY <1>1, <2>3, <3>1 DEF CrashInv, ClearInv, RoundInv, Hammering, Setting
    <3>2. CASE pc = "hammer"
      BY <1>1, <2>3, <3>2 DEF CrashInv, RoundInv, Hammering
    <3> QED
      BY <2>1, <3>1, <3>2
  <2>5. /\ next_leap # 0 /\ count < COUNT /\ ~interrupted /\ tx_time' <= clock'
        /\ tx_time' \in Nat
    BY <1>1, <2>1 DEF CrashInv, ClearInv, RoundInv, InRound, Setting, Clearing
  <2>6. TypeOK'
    BY <1>1, <1>3, <2>3, <2>5 DEF CrashInv, TypeOK
  <2>7. ClearInv'
    BY <1>1, <1>3, <2>5 DEF CrashInv, ClearInv, Setting, Clearing
  <2>8. RoundInv'
    BY <1>1, <1>3, <2>4, <2>5 DEF CrashInv, RoundInv, InRound, Setting, Clearing
  <2> QED
    BY <2>6, <2>7, <2>8 DEF CrashInv
<1>4. CASE Hammer /\ pc' # "hammer"
  <2>1. tx_time >= next_leap + 1 /\ pc = "hammer" /\ pc' = "clear1" /\ UNCHANGED <<ntp, tx_time>>
    BY <1>4 DEF Hammer, Goto
  <2>2. Hammering /\ tx_time <= clock
    BY <2>1 DEF CrashInv, RoundInv
  <2>3. ntp.state = "WAIT" /\ leapt = -1 /\ "INS" \in ntp.status
    BY <1>1, <2>1, <2>2 DEF Hammering
  <2> QED
    BY <1>1, <2>1, <2>3 DEF CrashInv, TypeOK, ClearInv, RoundInv, InRound, Clearing, Setting
<1> QED
  BY <1>2, <1>3, <1>4

\* Every step keeps the invariant.
LEMMA StepCrash ==
  ASSUME NtpAssumption, LeapCrashAssumption, LongDay, CrashInv, [Next]_vars
  PROVE  CrashInv'
<1>1. CASE UNCHANGED vars
  BY <1>1 DEF vars, CrashInv, TypeOK, ClearInv, RoundInv, InRound, Hammering
<1> QED
  BY <1>1, TickCrash, HandlerCrash, ClearCrash, GetTimeCrash, SetTimeCrash, HammerCrash
  DEF Next, Main

\* The inductive invariant of leapcrash, for every number of rounds, day and kernel.
THEOREM CrashInvariant ==
  ASSUME NtpAssumption, LeapCrashAssumption, LongDay
  PROVE  Spec => []CrashInv
<1>1. Init => CrashInv
  BY InitCrash
<1>2. CrashInv /\ [Next]_vars => CrashInv'
  BY StepCrash
<1> QED
  BY <1>1, <1>2, PTL DEF Spec

\* Types; in particular there are never more than COUNT rounds.
THEOREM TypeCorrect ==
  ASSUME NtpAssumption, LeapCrashAssumption, LongDay
  PROVE  Spec => []TypeOK
<1>1. CrashInv => TypeOK
  BY DEF CrashInv
<1> QED
  BY <1>1, CrashInvariant, PTL

\* Every round that is not interrupted goes through exactly one inserted second,
\* on both kinds of kernel.
THEOREM RoundsLeap ==
  ASSUME NtpAssumption, LeapCrashAssumption, LongDay
  PROVE  Spec => []EveryRoundLeaps
<1>1. CrashInv => EveryRoundLeaps
  BY DEF CrashInv, RoundInv, EveryRoundLeaps, Clearing
<1> QED
  BY <1>1, CrashInvariant, PTL

\* A clock that is cleared runs on by the second.
LEMMA NoLeapAnyMore ==
  ASSUME NtpAssumption, CrashInv, [Next]_vars
  PROVE  [NoLeapStep]_clock
<1> SUFFICES ASSUME pc = "exit", clock' # clock PROVE clock' = clock + 1
  BY DEF NoLeapStep
<1>1. Tick
  BY DEF Next, vars, Main, handler, clear_time_state, GetTime, SetTime, ReadTime, Hammer, Goto
<1>2. ntp.state = "OK" /\ clock \in Nat
  BY DEF CrashInv, ClearInv, TypeOK
<1>3. leap(ntp, clock + 1) = 0
  BY <1>2 DEF leap
<1> QED
  BY <1>1, <1>2, <1>3 DEF Tick

\* Once leapcrash is gone the clock does not leap, whatever has ended it.
THEOREM CrashStaysClear ==
  ASSUME NtpAssumption, LeapCrashAssumption, LongDay
  PROVE  Spec => NoLeapAfterExit
<1>1. CrashInv /\ [Next]_vars => [NoLeapStep]_clock
  BY NoLeapAnyMore
<1> QED
  BY <1>1, CrashInvariant, PTL DEF Spec, NoLeapAfterExit
===============================================================================
