----------------------------- MODULE AdjSetoffset -----------------------------
(***************************************************************************)
(* adj-setoffset.c: offsets that adjtimex must add to the clock, in pairs   *)
(* whose sum is zero, and offsets it must refuse.                          *)
(***************************************************************************)
EXTENDS Integers, Sequences

CONSTANT NSEC_PER_SEC   \* 10^9 (scaled down for TLC)

\* What the constant may be; the offsets below are to be different.
AdjSetoffsetAssumption == NSEC_PER_SEC \in Nat /\ NSEC_PER_SEC > 1000

VARIABLES
  net,          \* nanoseconds by which the clock was moved
  status,       \* of the kernel
  privileged,
  kernel,       \* "old" ones take negative nanoseconds, "new" ones never do, "bad" ones any
  pc, i, exitcode

vars == <<net, status, privileged, kernel, pc, i, exitcode>>

\* Seconds and nanoseconds, as in the two tables.
valid_vals ==
  << <<0, 0>>, <<0, 500>>, <<0, -500>>, <<0, 500>>, <<-1, NSEC_PER_SEC - 500>>,
     <<500, 0>>, <<-500, 0>> >>
invalid_vals ==
  [k \in 1 .. 12 |->
     << <<0, 500, -500>>[(k + 3) \div 4],
        <<NSEC_PER_SEC, NSEC_PER_SEC + 10, -NSEC_PER_SEC, -NSEC_PER_SEC - 10>>[((k - 1) % 4) + 1] >>]

Init ==
  /\ net = 0 /\ status \in {"clear", "set"} /\ privileged \in BOOLEAN
  /\ kernel \in {"old", "new", "bad"}
  /\ pc = "clear" /\ i = 1 /\ exitcode = 0

Goto(from, to) == pc = from /\ pc' = to

\* What adjtimex(ADJ_SETOFFSET) may answer.
Takes(val) ==
  IF ~privileged THEN {FALSE}
  ELSE CASE kernel = "bad" -> BOOLEAN
         [] kernel = "old" -> {val[2] \in -NSEC_PER_SEC + 1 .. NSEC_PER_SEC - 1}
         [] kernel = "new" -> {val[2] \in 0 .. NSEC_PER_SEC - 1}

\* Its two calls in a row.
clear_time_state ==
  /\ Goto("clear", "valid")
  /\ status' = IF privileged THEN "clear" ELSE status
  /\ UNCHANGED <<net, privileged, kernel, i, exitcode>>

\* One turn of a loop: the answer is the one expected, or FAIL and return -1.
Turn(table, from, to, expected) ==
  /\ \/ i <= Len(table) /\ \E takes \in Takes(table[i]) :
          /\ net' = net + (IF takes THEN table[i][1] * NSEC_PER_SEC + table[i][2] ELSE 0)
          /\ IF takes = expected
             THEN Goto(from, from) /\ i' = i + 1 /\ exitcode' = exitcode
             ELSE Goto(from, "exit") /\ i' = i /\ exitcode' = 255
     \/ i > Len(table) /\ Goto(from, to) /\ i' = 1 /\ UNCHANGED <<net, exitcode>>
  /\ UNCHANGED <<status, privileged, kernel>>

Valid   == Turn(valid_vals, "valid", "invalid", TRUE)
Invalid == Turn(invalid_vals, "invalid", "exit", FALSE)

Next == clear_time_state \/ Valid \/ Invalid \/ (pc = "exit" /\ UNCHANGED vars)

Spec == Init /\ [][Next]_vars

-------------------------------------------------------------------------------
(* Properties.                                                             *)

\* A pass leaves the clock where it was; a kernel that takes negative
\* nanoseconds, and no more than it should, passes.
VerdictIsRight ==
  pc = "exit" =>
    /\ exitcode = 0 => net = 0 /\ privileged
    /\ kernel = "old" /\ privileged => exitcode = 0

\* "pair adjustments so net change is zero": whatever the kernel refuses.
NetChangeIsZero == pc = "exit" => net = 0
===============================================================================
