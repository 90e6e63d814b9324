------------------------------- MODULE Processes -------------------------------
(***************************************************************************)
(* External: what the C library and the kernel make of the end of a         *)
(* process.  The programs run one another through system() and look at the  *)
(* numbers that come back.                                                  *)
(***************************************************************************)
EXTENDS Integers

\* exit(n), or return n from main: the status wait() reports for it.  Only the
\* low byte of n survives, and it moves to the second byte.
Exited(n) == (n % 256) * 256

\* A process killed by SIGKILL, and a shell whose command was killed by it.
Killed      == 9
ShellKilled == Exited(128 + 9)

\* What system() may return for one of the test programs: it passes, it fails
\* with ksft_exit_fail() or it is killed.
Passed  == Exited(0)
Failed  == Exited(1)
Results == {Passed, Failed, Killed, ShellKilled}
===============================================================================
