-------------------------------- MODULE SetTai --------------------------------
(***************************************************************************)
(* set-tai.c: the TAI offset is set to 1, 2, ... and read back each time;   *)
(* the last one stays.                                                     *)
(***************************************************************************)
EXTENDS Integers

CONSTANT LAST   \* 60 (scaled down)

\* What the constant may be.
SetTaiAssumption == LAST \in Nat \ {0}

VARIABLES
  tai,           \* the kernel's
  privileged,
  pc, i, exitcode,
  disturbed      \* history: something else has changed it between set and get

vars == <<tai, privileged, pc, i, exitcode, disturbed>>

Init ==
  /\ tai \in {0, LAST} /\ privileged \in BOOLEAN
  /\ pc = "set" /\ i = 1 /\ exitcode = 0 /\ disturbed = FALSE

Goto(from, to) == pc = from /\ pc' = to

\* A leap second goes by, or an ntpd sets it; never beyond LAST + 1.
Disturb ==
  /\ pc \in {"set", "get"} /\ ~disturbed /\ tai <= LAST
  /\ tai' = tai + 1 /\ disturbed' = (pc = "get")
  /\ UNCHANGED <<privileged, pc, i, exitcode>>

\* The result of adjtimex is not looked at.
set_tai ==
  /\ Goto("set", "get")
  /\ tai' = IF privileged THEN i ELSE tai
  /\ UNCHANGED <<privileged, i, exitcode, disturbed>>

get_tai ==
  /\ IF tai # i
     THEN Goto("get", "exit") /\ exitcode' = 1 /\ i' = i
     ELSE Goto("get", IF i < LAST THEN "set" ELSE "exit") /\ i' = i + 1 /\ exitcode' = exitcode
  /\ UNCHANGED <<tai, privileged, disturbed>>

Next == Disturb \/ set_tai \/ get_tai \/ (pc = "exit" /\ UNCHANGED vars)

Spec == Init /\ [][Next]_vars

-------------------------------------------------------------------------------
(* Properties.                                                             *)

\* It fails if it may not set the offset or if that is changed under it, and
\* passes, where it may set it, only if every one of its offsets was in effect.
VerdictIsRight ==
  pc = "exit" =>
    /\ exitcode = 1 => ~privileged \/ disturbed
    /\ exitcode = 0 /\ privileged => ~disturbed /\ tai = LAST
===============================================================================
