------------------------------- MODULE MCAlarms -------------------------------
(***************************************************************************)
(* Alarms for TLC: the constants that have a sign.  The others are in        *)
(* alarms.cfg.                                                             *)
(***************************************************************************)
EXTENDS Alarms

\* A sleep may be so late that it decides alone, or end early.
MCSleepLatencies == {-3, 0, 5, 15}

\* CLOCK_REALTIME is set by more or less than a timeout, either way.
MCSettings == {-30, -4, 4, 30}
===============================================================================
