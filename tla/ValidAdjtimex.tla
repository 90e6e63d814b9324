----------------------------- MODULE ValidAdjtimex -----------------------------
(***************************************************************************)
(* valid-adjtimex.c: frequencies that adjtimex must take, those it must     *)
(* take and bring back into range, and, where a long has 64 bits, those it  *)
(* must refuse.  A step is one turn of one of the three loops: a frequency  *)
(* is set and, if taken, read back.  One that is read back wrong from the   *)
(* first table is worth a warning only.                                    *)
(***************************************************************************)
EXTENDS Integers, SequencesExt

CONSTANTS
  valid_freq, outofrange_freq, invalid_freq,   \* the tables, scaled down
  MAXFREQ                                      \* the kernel's limit: 500 ppm

\* What the constants may be: no frequency is in two tables.
ValidAdjtimexAssumption ==
  /\ MAXFREQ \in Nat
  /\ valid_freq \in Seq(-MAXFREQ .. MAXFREQ)
  /\ {outofrange_freq, invalid_freq} \subseteq Seq(Int \ (-MAXFREQ .. MAXFREQ))
  /\ ToSet(outofrange_freq) \cap ToSet(invalid_freq) = {}

VARIABLES
  freq,           \* of the kernel
  status,         \* whether it has a leap second armed: "clear", "set", "stuck"
  kernel,         \* what is wrong with it
  is64, privileged,
  pc, i, exitcode,
  taken           \* history: what adjtimex has taken, and what it has set

vars == <<freq, status, kernel, is64, privileged, pc, i, exitcode, taken>>

\* It may be sound, refuse a good frequency or one out of range, set one that is
\* out of range, or take one that it should refuse.
Kernels == {"sound", "refuses", "refuses far", "does not clamp", "takes all"}

Init ==
  /\ freq \in {0, MAXFREQ} /\ status \in {"clear", "set", "stuck"} /\ kernel \in Kernels
  /\ is64 \in BOOLEAN /\ privileged \in BOOLEAN
  /\ pc = "clear" /\ i = 1 /\ exitcode = 0 /\ taken = {}

Goto(from, to) == pc = from /\ pc' = to

Clamped(f) == IF f > MAXFREQ THEN MAXFREQ ELSE IF f < -MAXFREQ THEN -MAXFREQ ELSE f

\* Frequencies that it may refuse and should not.
WronglyRefused ==
  CASE kernel = "refuses"     -> ToSet(valid_freq)
    [] kernel = "refuses far" -> ToSet(outofrange_freq)
    [] OTHER                  -> {}

\* What adjtimex makes of a frequency: <<>> where it is refused, or what is set.
Outcomes(f) ==
  IF ~privileged \/ (f \in ToSet(invalid_freq) /\ kernel # "takes all") THEN {<<>>}
  ELSE {<<Clamped(f)>>} \cup {r \in {<<>>} : f \in WronglyRefused}
                        \cup {r \in {<<f>>} : kernel = "does not clamp"}

Refused(result) == result = <<>>

adjtimex(f, result) ==
  /\ freq' = IF Refused(result) THEN freq ELSE result[1]
  /\ taken' = IF Refused(result) THEN taken ELSE taken \cup {<<f, result[1]>>}

\* Only one call.  A leap second that a kernel before 6b1859dba01c7 was told of while
\* STA_PLL was off is still to come after it ("stuck"): adj-setoffset makes two.
clear_time_state ==
  /\ Goto("clear", "valid")
  /\ status' = IF privileged /\ status = "set" THEN "clear" ELSE status
  /\ UNCHANGED <<freq, kernel, is64, privileged, i, exitcode, taken>>

\* What ends a loop: out of range, a frequency must be taken but not as it is.
Fails(f, result) ==
  CASE pc = "valid" -> Refused(result)
    [] pc = "range" -> Refused(result) \/ result = <<f>>
    [] OTHER        -> ~Refused(result)

\* One turn of the loop over a table: [FAIL] and out, the next entry, or the
\* loop after it.
Turn(table, from, to) ==
  /\ \/ i <= Len(table) /\ \E result \in Outcomes(table[i]) :
          /\ adjtimex(table[i], result)
          /\ IF Fails(table[i], result)
             THEN Goto(from, "out") /\ exitcode' = 1 /\ i' = i
             ELSE Goto(from, from) /\ exitcode' = exitcode /\ i' = i + 1
     \/ i > Len(table) /\ Goto(from, to) /\ i' = 1 /\ UNCHANGED <<freq, exitcode, taken>>
  /\ UNCHANGED <<status, kernel, is64, privileged>>

Valid      == Turn(valid_freq, "valid", "range")
OutOfRange == Turn(outofrange_freq, "range", IF is64 THEN "invalid" ELSE "out")
Invalid    == Turn(invalid_freq, "invalid", "out")

\* reset freq to zero
Out ==
  /\ Goto("out", "exit")
  /\ freq' = IF privileged THEN 0 ELSE freq
  /\ UNCHANGED <<status, kernel, is64, privileged, i, exitcode, taken>>

Next ==
  \/ clear_time_state \/ Valid \/ OutOfRange \/ Invalid \/ Out
  \/ pc = "exit" /\ UNCHANGED vars

Spec == Init /\ [][Next]_vars

-------------------------------------------------------------------------------
(* Properties.                                                             *)

\* However the run goes, no frequency of a table is left behind, also none that
\* should never have been taken.
FreqIsReset == pc = "exit" /\ privileged => freq = 0

\* A pass means that the frequencies of two tables were taken, those of the second
\* brought into range, and those of the third were not; a sound kernel passes.
VerdictIsRight ==
  pc = "exit" =>
    /\ exitcode = 0 => taken = {<<f, Clamped(f)>> : f \in ToSet(valid_freq \o outofrange_freq)}
    /\ kernel = "sound" /\ privileged => exitcode = 0
===============================================================================
