------------------------------- MODULE LeapCrash -------------------------------
(***************************************************************************)
(* leapcrash.c: COUNT times, set the clock two seconds before a leap and    *)
(* set STA_INS over and over until the leap is past, then clear the NTP     *)
(* state with two calls.  One action is one system call; time moves by      *)
(* seconds, whenever it likes except that the flag is first set within the  *)
(* second that settimeofday starts.                                         *)
(***************************************************************************)
EXTENDS NtpKernel

CONSTANTS
  COUNT,  \* rounds (20)
  Start   \* the second the program is started in

\* What the constants may be.
LeapCrashAssumption == COUNT \in Nat /\ Start \in Nat

\* A round sets the clock two seconds before midnight.
LongDay == DAY >= 2

VARIABLES
  clock,        \* CLOCK_REALTIME, in seconds
  ntp,          \* the kernel's leap second state machine
  leapt,        \* history: what the leaps of this round added to the clock
  pc,
  next_leap, count,
  tx_time,      \* tx.time.tv_sec
  interrupted,  \* ctrl-c was pressed
  exitcode

vars == <<clock, ntp, leapt, pc, next_leap, count, tx_time, interrupted, exitcode>>

Init ==
  /\ clock = Start /\ leapt = 0
  /\ ntp \in [state : {"OK"}, status : {{}, {"PLL"}, {"UNSYNC"}}, maxerror : {0}] \cup
             [state : {"INS", "WAIT"}, status : {{"INS"}}, maxerror : {0}]
  /\ pc = "clear1" /\ next_leap = 0 /\ count = 0 /\ tx_time = 0
  /\ interrupted = FALSE /\ exitcode = 0

-------------------------------------------------------------------------------

\* A second passes.  The two calls after settimeofday come within it.
Tick ==
  /\ pc \notin {"gettime", "read", "first"}
  /\ clock < next_leap + DAY
  /\ clock' = clock + 1 + leap(ntp, clock + 1)
  /\ ntp' = second_overflow(ntp, clock + 1)
  /\ leapt' = leapt + leap(ntp, clock + 1)
  /\ UNCHANGED <<pc, next_leap, count, tx_time, interrupted, exitcode>>

\* handler: clear_time_state, exit(0); main never goes on.
handler ==
  /\ pc # "exit" /\ ~interrupted
  /\ interrupted' = TRUE /\ pc' = "clear1"
  /\ UNCHANGED <<clock, ntp, leapt, next_leap, count, tx_time, exitcode>>

Goto(from, to) == pc = from /\ pc' = to

\* The two calls of clear_time_state, from main's start, from the end of a
\* round or from the handler.
clear_time_state ==
  /\ \/ Goto("clear1", "clear2") /\ ntp' = adj_status(ntp, {"PLL"}) /\ count' = count
     \/ /\ Goto("clear2", IF interrupted THEN "exit"
                          ELSE IF next_leap = 0 THEN "gettime" ELSE "round")
        /\ ntp' = adj_status(ntp, {})
        /\ count' = IF next_leap = 0 \/ interrupted THEN count ELSE count + 1
  /\ UNCHANGED <<clock, leapt, next_leap, tx_time, interrupted, exitcode>>

\* The end of the current day: a leap may come there.
GetTime ==
  /\ Goto("gettime", "round")
  /\ next_leap' = clock + (DAY - (clock % DAY))
  /\ UNCHANGED <<clock, ntp, leapt, count, tx_time, interrupted, exitcode>>

\* Mutant: count++ <= 20
SetTime_OneMore ==
  /\ \/ /\ count <= COUNT /\ Goto("round", "read")
        /\ clock' = next_leap - 2 /\ ntp' = set_ntp(ntp) /\ leapt' = 0
        /\ exitcode' = exitcode
     \/ /\ count > COUNT /\ Goto("round", "exit")
        /\ UNCHANGED <<clock, ntp, leapt, exitcode>>
  /\ UNCHANGED <<next_leap, count, tx_time, interrupted>>

\* The next round, or [OK].
SetTime ==
  /\ \/ /\ count < COUNT /\ Goto("round", "read")
        /\ clock' = next_leap - 2 /\ ntp' = set_ntp(ntp) /\ leapt' = 0
        /\ exitcode' = exitcode
     \/ /\ count < COUNT /\ Goto("round", "exit")  \* settimeofday fails
        /\ exitcode' = 1 /\ UNCHANGED <<clock, ntp, leapt>>
     \/ /\ count >= COUNT /\ Goto("round", "exit")
        /\ UNCHANGED <<clock, ntp, leapt, exitcode>>
  /\ UNCHANGED <<next_leap, count, tx_time, interrupted>>

\* adjtimex with modes 0.
ReadTime ==
  /\ Goto("read", "first")
  /\ tx_time' = clock
  /\ UNCHANGED <<clock, ntp, leapt, next_leap, count, interrupted, exitcode>>

\* Mutant: the time the call returns is not kept.
Hammer_Stale ==
  /\ \/ /\ tx_time < next_leap + 1 /\ pc \in {"first", "hammer"} /\ pc' = "hammer"
        /\ ntp' = adj_status(ntp, {"INS"})
     \/ tx_time >= next_leap + 1 /\ Goto("hammer", "clear1") /\ ntp' = ntp
  /\ UNCHANGED <<clock, leapt, next_leap, count, tx_time, interrupted, exitcode>>

\* Hammer on adjtimex with STA_INS until the leap is a second past.
Hammer ==
  /\ \/ /\ tx_time < next_leap + 1 /\ pc \in {"first", "hammer"} /\ pc' = "hammer"
        /\ ntp' = adj_status(ntp, {"INS"}) /\ tx_time' = clock
     \/ tx_time >= next_leap + 1 /\ Goto("hammer", "clear1") /\ UNCHANGED <<ntp, tx_time>>
  /\ UNCHANGED <<clock, leapt, next_leap, count, interrupted, exitcode>>

Main == clear_time_state \/ GetTime \/ SetTime \/ ReadTime \/ Hammer

Next ==
  \/ Tick \/ handler \/ Main
  \/ pc = "exit" /\ clock = next_leap + DAY /\ UNCHANGED vars

Spec == Init /\ [][Next]_vars

FairSpec == Spec /\ WF_vars(Tick) /\ WF_vars(Main)

-------------------------------------------------------------------------------
(* Properties.                                                             *)

\* Type invariant.
TypeOK ==
  /\ clock \in Nat /\ ntp \in Ntp /\ leapt \in Int
  /\ pc \in {"clear1", "clear2", "gettime", "round", "read", "first", "hammer", "exit"}
  /\ next_leap \in Nat /\ count \in 0 .. COUNT /\ tx_time \in Nat
  /\ interrupted \in BOOLEAN /\ exitcode \in {0, 1}

\* Every round goes through one inserted leap second: the two calls of
\* clear_time_state at the end of a round bring the state machine back to where
\* the next STA_INS, set only two seconds before the leap, is honoured.
EveryRoundLeaps == pc \in {"clear1", "clear2"} /\ next_leap # 0 /\ ~interrupted => leapt = -1

\* The program never leaves a leap pending, however it ends: by ctrl-c, after
\* the last round or because settimeofday failed.
NoLeapStep == pc = "exit" => clock' = clock + 1

NoLeapAfterExit == [][NoLeapStep]_clock

\* The hammering ends: setting the flag again and again does not keep the
\* kernel from getting past the leap.
Ends == <>(pc = "exit")
===============================================================================
