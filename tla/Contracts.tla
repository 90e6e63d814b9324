------------------------------- MODULE Contracts -------------------------------
(***************************************************************************)
(* What the programs of runall.sh ask of the machine and what they do to    *)
(* it: for each program the settings ("knobs") of the kernel that must be   *)
(* nominal for it to pass, those it makes nominal or, depending on the      *)
(* kernel, may, and those it may leave otherwise.                          *)
(***************************************************************************)
EXTENDS Integers

\* Frequency, tick, an offset being slewed, an armed leap second, TAI offset,
\* date, clocksource.
Knobs == {"freq", "tick", "slew", "leap", "tai", "date", "clocksource"}

\* A leap second sets CLOCK_REALTIME back under those that read it; raw_skew,
\* which change_skew runs too, expects nothing but the frequency to move the clock.
Needs(program) ==
  CASE program \in {"inconsistency-check", "nanosleep", "clocksource-switch", "set-tai", "set-2038"}
                               -> {"leap"}
    [] program = "raw_skew"    -> {"tick", "slew"}
    [] program = "change_skew" -> {"tick", "slew", "leap"}
    [] OTHER                   -> {}

Clears(program) ==
  CASE program = "valid-adjtimex"            -> {"freq"}
    [] program = "adjtick"                   -> {"freq", "tick", "slew"}
    [] program \in {"leap-a-day", "leapcrash"} -> {"leap"}
    [] OTHER                                 -> {}

\* One call clears an armed leap second on a kernel with 6b1859dba01c7 only, and an
\* offset of 0 is heeded if STA_PLL is on.
MayClear(program) ==
  CASE program = "valid-adjtimex" -> {"leap"}
    [] program = "change_skew"    -> {"slew"}
    [] OTHER                      -> {}

\* set-2038 goes back to the second that it started in.
Leaves(program) ==
  CASE program = "skew_consistency"          -> {"freq"}
    [] program = "clocksource-switch"        -> {"clocksource"}
    [] program \in {"leap-a-day", "leapcrash", "set-2038"} -> {"date"}
    [] program = "set-tai"                   -> {"tai"}
    [] OTHER                                 -> {}

\* The same where it ends early.
LeavesEarly(program) == Leaves(program) \cup (IF program = "leap-a-day" THEN {"leap"} ELSE {})
===============================================================================
