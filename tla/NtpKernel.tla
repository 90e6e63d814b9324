------------------------------- MODULE NtpKernel -------------------------------
(***************************************************************************)
(* External: the leap second state machine of the kernel under test, as far *)
(* as the programs drive it through adjtimex and settimeofday.  A state is  *)
(* a record; one operator per system call and one for the second overflow.  *)
(***************************************************************************)
EXTENDS Timespec

CONSTANTS
  DAY,              \* seconds in a day (86400; scaled down for TLC)
  NTP_PHASE_LIMIT,  \* seconds without ADJ_MAXERROR until the clock is unsynced
  OldKernel         \* TRUE before 6b1859dba01c7: a set-up leap ignores the flags

\* What the constants may be.
NtpAssumption ==
  DAY \in Nat \ {0} /\ NTP_PHASE_LIMIT \in Nat \ {0} /\ OldKernel \in BOOLEAN

Flags  == {"PLL", "INS", "DEL", "UNSYNC"}
States == {"OK", "INS", "DEL", "OOP", "WAIT"}

\* time_state, time_status and time_maxerror (in units of a second's growth).
Ntp == [state : States, status : SUBSET Flags, maxerror : 0 .. NTP_PHASE_LIMIT]

\* adjtimex with ADJ_STATUS: leaving the PLL restarts the state machine.
adj_status(n, s) ==
  [state    |-> IF "PLL" \in n.status /\ "PLL" \notin s THEN "OK" ELSE n.state,
   status   |-> s,
   maxerror |-> n.maxerror]

\* adjtimex with ADJ_MAXERROR
adj_maxerror(n, e) == [state |-> n.state, status |-> n.status, maxerror |-> e]

\* What adjtimex returns: TIME_ERROR while the clock is unsynchronised.
adj_ret(n) == IF "UNSYNC" \in n.status THEN "ERROR" ELSE n.state

\* settimeofday: the old error estimate is void.
set_ntp(n) ==
  [state    |-> n.state,
   status   |-> n.status \cup {"UNSYNC"},
   maxerror |-> NTP_PHASE_LIMIT]

Withdrawn(n, f) == ~OldKernel /\ f \notin n.status

next_state(n, secs) ==
  CASE n.state = "OK"   -> IF "INS" \in n.status THEN "INS"
                           ELSE IF "DEL" \in n.status THEN "DEL" ELSE "OK"
    [] n.state = "INS"  -> IF Withdrawn(n, "INS") THEN "OK"
                           ELSE IF secs % DAY = 0 THEN "OOP" ELSE "INS"
    [] n.state = "DEL"  -> IF Withdrawn(n, "DEL") THEN "OK"
                           ELSE IF (secs + 1) % DAY = 0 THEN "WAIT" ELSE "DEL"
    [] n.state = "OOP"  -> "WAIT"
    [] n.state = "WAIT" -> IF n.status \cap {"INS", "DEL"} = {} THEN "OK" ELSE "WAIT"

\* The state machine at the start of second secs.
second_overflow(n, secs) ==
  [state    |-> next_state(n, secs),
   status   |-> IF n.maxerror = NTP_PHASE_LIMIT THEN n.status \cup {"UNSYNC"} ELSE n.status,
   maxerror |-> IF n.maxerror = NTP_PHASE_LIMIT THEN n.maxerror ELSE n.maxerror + 1]

\* What that overflow adds to the clock: a second less, a second more, nothing.
leap(n, secs) ==
  LET s == next_state(n, secs)
  IN  IF n.state = "INS" /\ s = "OOP" THEN -1
      ELSE IF n.state = "DEL" /\ s = "WAIT" THEN 1 ELSE 0
===============================================================================
