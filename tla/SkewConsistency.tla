---------------------------- MODULE SkewConsistency ----------------------------
(***************************************************************************)
(* skew_consistency.c: a child runs inconsistency-check through system()    *)
(* and returns what it got; meanwhile main turns the frequency from one     *)
(* extreme to the other every half second until the child is gone.          *)
(***************************************************************************)
EXTENDS Processes

CONSTANTS
  Freqs,      \* frequencies (ppm) the kernel may run at beforehand
  ForkFails   \* TRUE if fork may fail

\* What the constants may be.
SkewConsistencyAssumption == Freqs \subseteq -500 .. 500 /\ ForkFails \in BOOLEAN

VARIABLES
  freq,      \* the kernel's frequency, in ppm
  child,     \* "none", "running", "zombie", "reaped"
  status,    \* the child's wait status once it is over
  pc, pid, ppm, tx_freq, ret, exitcode,
  result,    \* history: what inconsistency-check did, Passed until it has ended
  orig,      \* history: the frequency before the program ran
  turned     \* history: main has turned the frequency

vars == <<freq, child, status, pc, pid, ppm, tx_freq, ret, exitcode, result, orig, turned>>

Init ==
  /\ freq \in Freqs /\ child = "none" /\ status = 0
  /\ pc = "fork" /\ pid = 0 /\ ppm = 500 /\ ret = 0 /\ exitcode = 0
  /\ tx_freq \in Freqs  \* uninitialised
  /\ result = Passed /\ orig = freq /\ turned = FALSE

-------------------------------------------------------------------------------

\* return system(...): the child exits with the status of inconsistency-check
\* as its exit code.
Child ==
  /\ child = "running" /\ child' = "zombie"
  /\ \E s \in Results : result' = s /\ status' = Exited(s)
  /\ UNCHANGED <<freq, pc, pid, ppm, tx_freq, ret, exitcode, orig, turned>>

Goto(from, to) == pc = from /\ pc' = to

Fork ==
  /\ Goto("fork", "wait")
  /\ \/ pid' = 1 /\ child' = "running"
     \/ ForkFails /\ pid' = -1 /\ child' = child
  /\ UNCHANGED <<freq, status, ppm, tx_freq, ret, exitcode, result, orig, turned>>

\* Mutants: any result of waitpid ends the loop; only the child's pid does.
WaitPid_Any ==
  /\ \/ child \in {"running", "none"} /\ Goto("wait", "setback") /\ UNCHANGED <<child, ret>>
     \/ child = "zombie" /\ Goto("wait", "setback") /\ child' = "reaped" /\ ret' = status
  /\ UNCHANGED <<freq, status, pid, ppm, tx_freq, exitcode, result, orig, turned>>

WaitPid_Positive ==
  /\ \/ child \in {"running", "none"} /\ Goto("wait", "turn") /\ UNCHANGED <<child, ret>>
     \/ child = "zombie" /\ Goto("wait", "setback") /\ child' = "reaped" /\ ret' = status
  /\ UNCHANGED <<freq, status, pid, ppm, tx_freq, exitcode, result, orig, turned>>

\* while (pid != waitpid(pid, &ret, WNOHANG)): 0 while the child runs, and -1
\* where there is no child at all, which is what a failed fork left in pid.
WaitPid ==
  /\ \/ child = "running" /\ Goto("wait", "turn") /\ UNCHANGED <<child, ret>>
     \/ child = "zombie" /\ Goto("wait", "setback") /\ child' = "reaped" /\ ret' = status
     \/ child = "none" /\ Goto("wait", "setback") /\ UNCHANGED <<child, ret>>
  /\ UNCHANGED <<freq, status, pid, ppm, tx_freq, exitcode, result, orig, turned>>

\* ppm = -ppm; adjtimex with ADJ_FREQUENCY; usleep.
Turn ==
  /\ Goto("turn", "wait")
  /\ ppm' = -ppm /\ freq' = ppm' /\ tx_freq' = ppm' /\ turned' = TRUE
  /\ UNCHANGED <<child, status, pid, ret, exitcode, result, orig>>

\* Set things back: modes is ADJ_FREQUENCY, and what is reset is tx.offset.
SetBack ==
  /\ Goto("setback", "verdict")
  /\ freq' = tx_freq
  /\ UNCHANGED <<child, status, pid, ppm, tx_freq, ret, exitcode, result, orig, turned>>

Verdict ==
  /\ Goto("verdict", "exit")
  /\ exitcode' = IF ret # 0 THEN 1 ELSE 0
  /\ UNCHANGED <<freq, child, status, pid, ppm, tx_freq, ret, result, orig, turned>>

Main == Fork \/ WaitPid \/ Turn \/ SetBack \/ Verdict

Next == Main \/ Child \/ (pc = "exit" /\ UNCHANGED vars)

Spec == Init /\ [][Next]_vars

\* Both processes are scheduled, and inconsistency-check ends (it has -t 600).
FairSpec == Spec /\ WF_vars(Child) /\ WF_vars(Main)

-------------------------------------------------------------------------------
(* Properties.                                                             *)

\* Type invariant.
TypeOK ==
  /\ freq \in -500 .. 500 /\ child \in {"none", "running", "zombie", "reaped"}
  /\ status \in Nat /\ pc \in {"fork", "wait", "turn", "setback", "verdict", "exit"}
  /\ pid \in {-1, 0, 1} /\ ppm \in {-500, 500} /\ tx_freq \in -500 .. 500
  /\ ret \in Nat /\ exitcode \in {0, 1} /\ turned \in BOOLEAN

\* The child is waited for on every path: the program does not exit while
\* inconsistency-check is running, and leaves no zombie.
ChildIsReaped == pc \in {"setback", "verdict", "exit"} /\ pid = 1 => child = "reaped"

\* What main sees of the check.  The program fails where a signal has killed it
\* under the child's own system(), the number of which survives the child's exit
\* code, and in no other case: not where the check has failed, where it was killed
\* below the shell or where it was never started (CheckFailureFails, OkMeansChecked).
OnlyKilledCheckFails == pc = "exit" => (exitcode = 1 <=> result = Killed)

\* The program ends once inconsistency-check does.
Ends == <>(pc = "exit")

\* "Set things back": once main has turned the frequency, that at exit is the one
\* the program found.
ThingsAreSetBack == pc = "exit" /\ turned => freq = orig

\* [FAILED] is printed and the program fails if inconsistency-check fails.
CheckFailureFails == pc = "exit" /\ result # Passed => exitcode = 1

\* [OK] is printed only if inconsistency-check was run.
OkMeansChecked == pc = "exit" /\ exitcode = 0 => child = "reaped"
===============================================================================
