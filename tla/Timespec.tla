------------------------------- MODULE Timespec -------------------------------
(***************************************************************************)
(* struct timespec and the arithmetic on it that the programs share.  A     *)
(* timespec is kept as the two fields of the C structure, because several   *)
(* programs compare the fields separately and get it right or wrong there.  *)
(***************************************************************************)
EXTENDS Integers

CONSTANT NSEC_PER_SEC   \* nanoseconds in a second (10^9; scaled down for TLC)

ASSUME NsecAssumption == NSEC_PER_SEC \in Nat \ {0}

\* What clock_gettime stores: seconds and a normalised nanosecond part.
Timespec == [tv_sec : Nat, tv_nsec : 0 .. NSEC_PER_SEC - 1]

\* in_order(a, b): 1 if a <= b.  The same helper in leap-a-day, nanosleep and,
\* with unsigned seconds, inconsistency-check.
in_order(a, b) ==
  \/ a.tv_sec < b.tv_sec
  \/ a.tv_sec = b.tv_sec /\ a.tv_nsec <= b.tv_nsec

\* timespec_add: carry whole seconds out of the nanoseconds.
timespec_add(ts, ns) ==
  [tv_sec  |-> ts.tv_sec + (ts.tv_nsec + ns) \div NSEC_PER_SEC,
   tv_nsec |-> (ts.tv_nsec + ns) % NSEC_PER_SEC]
===============================================================================
