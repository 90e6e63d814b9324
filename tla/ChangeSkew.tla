------------------------------ MODULE ChangeSkew ------------------------------
(***************************************************************************)
(* change_skew.c: run three test programs under each of five frequencies,   *)
(* stop at the first failure, and put the frequency back.  What it puts     *)
(* back is what an adjtimex call before the first change wrote into tx.     *)
(***************************************************************************)
EXTENDS Processes, Sequences

CONSTANT Freqs   \* frequencies (ppm) the kernel may run at beforehand

\* What the constants may be.
ChangeSkewAssumption == Freqs \subseteq -500 .. 500

VARIABLES
  freq,       \* the kernel's frequency, in ppm
  ntpd,       \* an ntpd is running: it moves the frequency at any time
  privileged, \* the program may use adjtimex to set things
  pc, i,
  tx_freq,    \* tx.freq of main
  ret,
  exitcode,
  orig,       \* history: the frequency when main first asked for it
  under       \* history: the frequencies under which all three programs passed

vars == <<freq, ntpd, privileged, pc, i, tx_freq, ret, exitcode, orig, under>>

ppm == <<0, 250, 500, -250, -500>>

Init ==
  /\ freq \in Freqs /\ ntpd \in BOOLEAN /\ privileged \in BOOLEAN
  /\ pc = "kill" /\ i = 1 /\ tx_freq = 0 /\ ret = 0 /\ exitcode = 0
  /\ orig = freq /\ under = {}

\* A running ntpd disciplines the clock.
Ntpd ==
  /\ ntpd /\ pc # "exit"
  /\ freq' \in Freqs
  /\ UNCHANGED <<ntpd, privileged, pc, i, tx_freq, ret, exitcode, orig, under>>

Goto(from, to) == pc = from /\ pc' = to

\* Mutant: ntpd is left running.
KillNtpd_Not ==
  /\ Goto("kill", "offset")
  /\ UNCHANGED <<freq, ntpd, privileged, i, tx_freq, ret, exitcode, orig, under>>

\* Kill ntpd
KillNtpd ==
  /\ Goto("kill", "offset")
  /\ ntpd' = IF privileged THEN FALSE ELSE ntpd
  /\ UNCHANGED <<freq, privileged, i, tx_freq, ret, exitcode, orig, under>>

\* adjtimex with ADJ_OFFSET: fails without privilege, writes tx back otherwise.
ClearOffset ==
  /\ Goto("offset", IF privileged THEN "skew" ELSE "exit")
  /\ exitcode' = IF privileged THEN exitcode ELSE 255
  /\ tx_freq' = freq /\ orig' = freq
  /\ UNCHANGED <<freq, ntpd, privileged, i, ret, under>>

\* change_skew_test: adjtimex with ADJ_FREQUENCY, on a timex of its own ...
SetSkew ==
  /\ i \in DOMAIN ppm /\ Goto("skew", "test")
  /\ freq' = ppm[i]
  /\ UNCHANGED <<ntpd, privileged, i, tx_freq, ret, exitcode, orig, under>>

\* ... and the three programs, whose results are or'ed.
RunTests ==
  /\ \E raw_skew \in Results, inconsistency \in Results, nanosleep \in Results :
       LET passed == raw_skew = 0 /\ inconsistency = 0 /\ nanosleep = 0
       IN  /\ Goto("test", IF passed THEN "skew" ELSE "setback")
           /\ ret' = IF passed THEN 0 ELSE 1
           /\ under' = IF passed THEN under \cup {freq} ELSE under
           /\ i' = IF passed THEN i + 1 ELSE i
  /\ UNCHANGED <<freq, ntpd, privileged, tx_freq, exitcode, orig>>

TestsDone ==
  /\ i \notin DOMAIN ppm /\ Goto("skew", "setback")
  /\ UNCHANGED <<freq, ntpd, privileged, i, tx_freq, ret, exitcode, orig, under>>

\* Set things back, and exit.
SetBack ==
  /\ Goto("setback", "exit")
  /\ freq' = tx_freq
  /\ exitcode' = IF ret # 0 THEN 1 ELSE 0
  /\ UNCHANGED <<ntpd, privileged, i, tx_freq, ret, orig, under>>

Next ==
  \/ Ntpd \/ KillNtpd \/ ClearOffset \/ SetSkew \/ RunTests \/ TestsDone \/ SetBack
  \/ pc = "exit" /\ UNCHANGED vars

Spec == Init /\ [][Next]_vars

-------------------------------------------------------------------------------
(* Properties.                                                             *)

\* Type invariant.
TypeOK ==
  /\ freq \in -500 .. 500 /\ ntpd \in BOOLEAN /\ privileged \in BOOLEAN
  /\ pc \in {"kill", "offset", "skew", "test", "setback", "exit"} /\ i \in 1 .. Len(ppm) + 1
  /\ tx_freq \in -500 .. 500 /\ ret \in {0, 1} /\ exitcode \in {0, 1, 255}

\* "Set things back": however the tests go, the frequency ends up where it was
\* when the program began to change it.
ThingsAreSetBack == pc = "exit" /\ privileged => freq = orig

\* [OK] means that all programs passed under all five frequencies, with no
\* ntpd moving the frequency under them.
OkMeansAllTested ==
  pc = "exit" /\ exitcode = 0 => under = {ppm[k] : k \in DOMAIN ppm}
===============================================================================
