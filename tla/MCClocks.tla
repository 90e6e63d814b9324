------------------------------- MODULE MCClocks -------------------------------
(***************************************************************************)
(* Clocks for TLC: the constants that have a sign.  The others are in        *)
(* clocks.cfg.                                                             *)
(***************************************************************************)
EXTENDS Clocks

\* raw_skew, where a ppm is a hundredth of the rate, on sound and faulty clocks.
MCFreqs  == {-3, 5}
MCFaults == {-15, 0, 15}

\* A clock is set by less and by more than the margins there can be.
MCJumps == {-31, -5, 31}

\* Of all choices of delays; no behaviour is needed to tell.
ASSUME TightestIsKept == Skewed!TightestIsKept
===============================================================================
