-------------------------------- MODULE RunAll --------------------------------
(***************************************************************************)
(* runall.sh: the time daemons are killed, then one program after another   *)
(* runs on the kernel that those before it have left, whatever they said.   *)
(* A program is what its contract says of it.                              *)
(***************************************************************************)
EXTENDS Contracts, Sequences

VARIABLES
  off,     \* the knobs that are not nominal
  daemon,  \* the process that disciplines the clock
  raw,     \* there is a CLOCK_MONOTONIC_RAW
  step,    \* how many lines of the script are done
  spoiled, \* history: a program has failed without a fault of its own
  found    \* history: what was off before the script ran

vars == <<off, daemon, raw, step, spoiled, found>>

\* Mutants: adjtick comes too soon to put the frequency right; leapcrash too late
\* to clear what leap-a-day may leave.
Script_TickFirst ==
  << "inconsistency-check", "raw_skew", "nanosleep", "nsleep-lat", "set-timer-lat", "mqueue-lat",
     "alarmtimer-suspend", "valid-adjtimex", "change_skew", "adjtick", "skew_consistency",
     "clocksource-switch", "leap-a-day", "leapcrash", "set-tai", "set-2038", "threadtest",
     "threadtest -i" >>
Script_CrashLast ==
  << "inconsistency-check", "raw_skew", "nanosleep", "nsleep-lat", "set-timer-lat", "mqueue-lat",
     "alarmtimer-suspend", "valid-adjtimex", "change_skew", "skew_consistency", "adjtick",
     "clocksource-switch", "leap-a-day", "set-tai", "set-2038", "leapcrash", "threadtest",
     "threadtest -i" >>

Script ==
  << "inconsistency-check", "raw_skew", "nanosleep", "nsleep-lat", "set-timer-lat", "mqueue-lat",
     "alarmtimer-suspend", "valid-adjtimex", "change_skew", "skew_consistency", "adjtick",
     "clocksource-switch", "leap-a-day", "leapcrash", "set-tai", "set-2038", "threadtest",
     "threadtest -i" >>

\* What the daemon may have left or do, and an armed leap second.
Disciplined == {"freq", "tick", "slew"}

Init ==
  /\ found \in SUBSET (Disciplined \cup {"leap"}) /\ off = found
  /\ daemon \in {"none", "ntpd", "chronyd"} /\ raw \in BOOLEAN
  /\ step = 0 /\ spoiled = FALSE

\* service stop ntp, and so on, name no service; killall finds ntpd, and no
\* process called chrony.
KillDaemons ==
  /\ step = 0 /\ step' = 1
  /\ daemon' = IF daemon \in {"ntpd", "chrony"} THEN "none" ELSE daemon
  /\ UNCHANGED <<off, raw, spoiled, found>>

\* A daemon that is left disciplines the clock.
Daemon ==
  /\ daemon # "none" /\ step \in 1 .. Len(Script)
  /\ \E knobs \in SUBSET Disciplined : off' = (off \ Disciplined) \cup knobs
  /\ UNCHANGED <<daemon, raw, step, spoiled, found>>

\* adjtick, raw_skew and with it change_skew do nothing without the raw clock.
Unable(program) == ~raw /\ program \in {"adjtick", "raw_skew", "change_skew"}

\* What a program may be disturbed by.
Disturbed(program) == Needs(program) \cap off # {} \/ daemon # "none"

\* A program fails for a fault of its own, or where it cannot work, and may
\* fail if it is disturbed; the script goes on in any case.
RunProgram ==
  /\ step \in 1 .. Len(Script) /\ step' = step + 1
  /\ LET program == Script[step]
     IN  \E fault \in BOOLEAN, fails \in BOOLEAN :
           /\ fault \/ Unable(program) => fails
           /\ fails => fault \/ Unable(program) \/ Disturbed(program)
           /\ spoiled' = (spoiled \/ (fails /\ ~fault))
           /\ IF Unable(program) /\ program = "adjtick" THEN off' = off
              ELSE \E left \in SUBSET (IF fault THEN LeavesEarly(program) ELSE Leaves(program)),
                      cleared \in SUBSET MayClear(program) :
                     off' = (off \ (Clears(program) \cup cleared)) \cup left
  /\ UNCHANGED <<daemon, raw, found>>

Next == KillDaemons \/ Daemon \/ RunProgram \/ (step > Len(Script) /\ UNCHANGED vars)

Spec == Init /\ [][Next]_vars

-------------------------------------------------------------------------------
(* Properties.                                                             *)

\* Whatever has failed on the way and however it was found, the machine is left
\* with a sound frequency, tick and offset and no leap second to come: adjtick
\* makes up for skew_consistency, leapcrash for leap-a-day.
MachineIsSettled ==
  step > Len(Script) /\ raw /\ daemon = "none" => off \subseteq {"tai", "date", "clocksource"}

\* No program fails for what another one has done before it, as long as no daemon
\* is left and the machine was not found in such a state.
OnlyOwnFaultsFail == raw /\ daemon = "none" /\ found \subseteq {"freq"} => ~spoiled

\* "disable ntpd during the run": nothing disciplines the clock while a program
\* runs.
DaemonIsGone == step > 0 => daemon = "none"
===============================================================================
