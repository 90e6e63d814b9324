--------------------------- MODULE ClocksourceSwitch ---------------------------
(***************************************************************************)
(* clocksource-switch.c: test every clocksource by itself, then run the     *)
(* tests once more in a child while main switches the clocksources round    *)
(* and round, and go back to the first one.                                 *)
(***************************************************************************)
EXTENDS Processes

CONSTANTS
  Count,      \* clocksources available; the kernel prefers the first
  Faults,     \* TRUE if fork and a write to current_clocksource may fail
  Terminated  \* TRUE if the byte after the name in orig_clk happens to be 0

\* What the constants may be.
ClocksourceAssumption ==
  Count \in Nat \ {0} /\ Faults \in BOOLEAN /\ Terminated \in BOOLEAN

VARIABLES
  cur,       \* the kernel's current clocksource
  child,     \* "none", "running", "zombie", "reaped"
  child_status,
  pc, i, orig_clk, status, exitcode,
  before,    \* history: the clocksource before the program ran
  sane,      \* history: the clocksources whose own test has passed
  result,    \* history: what the child's tests came to, Passed until they are over
  refused    \* history: the write that goes back to the original has failed

vars == <<cur, child, child_status, pc, i, orig_clk, status, exitcode,
          before, sane, result, refused>>

Clocksources == 1 .. Count

Init ==
  /\ cur \in Clocksources /\ before = cur
  /\ child = "none" /\ child_status = 0
  /\ pc = "start" /\ i = 1 /\ orig_clk = 0 /\ exitcode = 0
  /\ status \in {0, 1}  \* uninitialised
  /\ sane = {} /\ result = Passed /\ refused = FALSE

\* run_tests, in main or in the child: inconsistency-check, then nanosleep if
\* that has passed; what system() returned last.
run_tests == Results

Goto(from, to) == pc = from /\ pc' = to

\* change_clocksource: it succeeds, or it changes nothing and returns -1.
change_clocksource(c) == cur' = c
change_fails          == Faults /\ cur' = cur

\* Read the current one; switching to the first shows whether we are root.
Start ==
  /\ orig_clk' = cur
  /\ \/ change_clocksource(1) /\ Goto("start", "validate") /\ exitcode' = exitcode
     \/ change_fails /\ Goto("start", "exit") /\ exitcode' = 255
  /\ UNCHANGED <<child, child_status, i, status, before, sane, result, refused>>

\* Check everything is sane: one clocksource is switched to ...
Validate ==
  /\ i \in Clocksources
  /\ \/ change_clocksource(i) /\ Goto("validate", "test") /\ status' = status
     \/ change_fails /\ Goto("validate", "out") /\ status' = -1
  /\ UNCHANGED <<child, child_status, i, orig_clk, exitcode, before, sane, result, refused>>

\* ... and tested.
Test ==
  /\ \E r \in run_tests :
       /\ Goto("test", IF r = 0 THEN "validate" ELSE "out")
       /\ i' = IF r = 0 THEN i + 1 ELSE i
       /\ status' = IF r = 0 THEN status ELSE -1
       /\ sane' = IF r = 0 THEN sane \cup {cur} ELSE sane
  /\ UNCHANGED <<cur, child, child_status, orig_clk, exitcode, before, result, refused>>

Fork ==
  /\ i \notin Clocksources /\ Goto("validate", "wait")
  /\ child' = "running" \/ (Faults /\ child' = "none")
  /\ UNCHANGED <<cur, child_status, i, orig_clk, status, exitcode, before, sane, result, refused>>

\* The child: return run_tests(60).
Child ==
  /\ child = "running" /\ child' = "zombie"
  /\ \E r \in run_tests : result' = r /\ child_status' = Exited(r)
  /\ UNCHANGED <<cur, pc, i, orig_clk, status, exitcode, before, sane, refused>>

\* while (pid != waitpid(pid, &status, WNOHANG)); waitpid stores 0 or nothing
\* into status where no child is over.
WaitPid ==
  /\ \/ child = "running" /\ Goto("wait", "switch") /\ i' = 1 /\ UNCHANGED <<child, status>>
     \/ /\ child = "zombie" /\ Goto("wait", "out") /\ i' = i
        /\ child' = "reaped" /\ status' = child_status
     \/ child = "none" /\ Goto("wait", "out") /\ UNCHANGED <<i, child, status>>
  /\ UNCHANGED <<cur, child_status, orig_clk, exitcode, before, sane, result, refused>>

\* Mutant: one clocksource too many.
Switch_TooFar ==
  /\ \/ /\ i \in 1 .. Count + 1 /\ change_clocksource(i) /\ Goto("switch", "switch")
        /\ i' = i + 1 /\ status' = status
     \/ i > Count + 1 /\ Goto("switch", "wait") /\ UNCHANGED <<cur, i, status>>
  /\ UNCHANGED <<child, child_status, orig_clk, exitcode, before, sane, result, refused>>

\* The switching loop.
Switch ==
  /\ \/ /\ i \in Clocksources /\ change_clocksource(i) /\ Goto("switch", "switch")
        /\ i' = i + 1 /\ status' = status
     \/ /\ i \in Clocksources /\ change_fails /\ Goto("switch", "out")
        /\ status' = -1 /\ i' = i
     \/ i \notin Clocksources /\ Goto("switch", "wait") /\ UNCHANGED <<cur, i, status>>
  /\ UNCHANGED <<child, child_status, orig_clk, exitcode, before, sane, result, refused>>

\* out: the original name is written back up to its first 0 byte, and nobody
\* looks whether that has worked.  If the byte comes too late the kernel finds no
\* such clocksource and takes its favourite, or refuses the name.
Restore ==
  /\ Goto("out", "exit")
  /\ \/ change_clocksource(orig_clk) /\ refused' = FALSE
     \/ ~Terminated /\ change_clocksource(1) /\ refused' = FALSE
     \/ (Faults \/ ~Terminated) /\ cur' = cur /\ refused' = TRUE
  /\ exitcode' = IF status # 0 THEN 1 ELSE 0
  /\ UNCHANGED <<child, child_status, i, orig_clk, status, before, sane, result>>

Main == Start \/ Validate \/ Test \/ Fork \/ WaitPid \/ Switch \/ Restore

Next == Main \/ Child \/ (pc = "exit" /\ UNCHANGED vars)

Spec == Init /\ [][Next]_vars

FairSpec == Spec /\ WF_vars(Main) /\ WF_vars(Child)

-------------------------------------------------------------------------------
(* Properties.                                                             *)

\* Type invariant.
TypeOK ==
  /\ cur \in Clocksources /\ child \in {"none", "running", "zombie", "reaped"}
  /\ child_status \in Nat /\ i \in 1 .. Count + 1 /\ orig_clk \in 0 .. Count
  /\ pc \in {"start", "validate", "test", "wait", "switch", "out", "exit"}
  /\ status \in Int /\ exitcode \in {0, 1, 255} /\ refused \in BOOLEAN

\* "Check everything is sane before we start switching asynchronously": the
\* child is not started unless every clocksource, being the current one, has
\* passed the tests.
SaneBeforeSwitching == child # "none" => sane = Clocksources

\* Wherever the program stops, it stops on the clocksource it found, unless just
\* the write that goes back to it is refused.
OriginalIsRestored == pc = "exit" /\ ~refused => cur = before

\* A pass means that every clocksource has passed the tests alone and that no test of
\* the child's was killed; not that those have passed (see AsyncFailureFails), nor
\* that there was a child.  If fork and the writes work, every such run passes.
PassMeansSaneAlone ==
  pc = "exit" =>
    /\ exitcode = 0 => sane = Clocksources /\ result # Killed
    /\ ~Faults /\ sane = Clocksources /\ result # Killed => exitcode = 0

\* If nothing but tests can fail, the program has waited for its child.
ChildIsReaped == pc \in {"out", "exit"} => child \in {"none", "reaped"}

\* The program ends, whatever the tests say.
Ends == <>(pc = "exit")

\* A test that fails while the clocksources are switched fails the program.
AsyncFailureFails ==
  pc = "exit" /\ child = "reaped" /\ result # Passed => exitcode = 1
===============================================================================
