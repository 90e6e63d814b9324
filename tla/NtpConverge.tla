------------------------------ MODULE NtpConverge ------------------------------
(***************************************************************************)
(* ntp-converge.c: kill any ntpd, clear the NTP state, set the time with    *)
(* ntpdate, put in a known offset and log how a fresh ntpd gets rid of it.  *)
(* ntpd and the logger are each run by a child through system(); main waits *)
(* for the logger only, kills ntpd by name and removes the files.           *)
(***************************************************************************)
EXTENDS Integers

CONSTANTS
  NSEC_PER_USEC,    \* 1000 (scaled down for TLC)
  USEC_PER_SEC,     \* microseconds in a second (scaled down)
  Offsets,          \* values of -o, in nanoseconds
  Errors,           \* how far off (microseconds) the clock may be beforehand
  DriftlogMayFail,  \* TRUE: drift-log.py may end at once
  ForkFails         \* TRUE: the forks for ntpd and the logger may fail

NSEC_PER_SEC == NSEC_PER_USEC * USEC_PER_SEC

\* What the constants may be.
NtpConvergeAssumption ==
  /\ NSEC_PER_USEC \in Nat \ {0} /\ USEC_PER_SEC \in Nat \ {0}
  /\ Offsets \subseteq Int /\ Errors \subseteq Int
  /\ DriftlogMayFail \in BOOLEAN /\ ForkFails \in BOOLEAN

VARIABLES
  err,       \* how far the clock is ahead of true time, in microseconds
  ntp,       \* kernel: is the frequency off, is an offset being slewed, the PLL
  old,       \* an ntpd from before is running
  ntpd,      \* ours: "none" (or not forked), "forked" (not yet exec'ed), "running", "killed"
  driftlog,  \* "none", "running", "over"
  conf,      \* CONF_FILE: "none", "old" (of an earlier test), "ours"
  drift,     \* DRIFT_FILE: "none", "old", "empty"
  pc, offset, pid, exitcode,
  base,      \* history: the error before the offset is put in
  began      \* history: what our ntpd found when it came up; {} before

vars == <<err, ntp, old, ntpd, driftlog, conf, drift, pc, offset, pid, exitcode, base, began>>
ours == <<ntpd, driftlog, conf, drift, pid, exitcode>>

Ntp == [freq : BOOLEAN, slew : BOOLEAN, pll : BOOLEAN]
Clear == [freq |-> FALSE, slew |-> FALSE, pll |-> FALSE]

\* An earlier ntpd leaves the PLL on, and may be in the middle of a slew.
Init ==
  /\ err \in Errors /\ old \in BOOLEAN
  /\ ntp \in {n \in Ntp : n.slew => n.pll}
  /\ ntpd = "none" /\ driftlog = "none"
  /\ conf \in {"none", "old"} /\ drift \in {"none", "old"}
  /\ pc = "kill" /\ offset \in Offsets /\ pid = 0 /\ exitcode = 0
  /\ base = 0 /\ began = {}

-------------------------------------------------------------------------------
(* The other processes.                                                    *)

\* The ntpd of before keeps setting the kernel's NTP state.
OldNtpd ==
  /\ old /\ ntp' \in {n \in Ntp : n.pll}
  /\ UNCHANGED <<err, old, ours, pc, offset, base, began>>

\* Our ntpd comes up: it reads the two files and finds the clock as it is.
NtpdStarts ==
  /\ ntpd = "forked" /\ ntpd' = "running"
  /\ began' = {[conf |-> conf, drift |-> drift, err |-> err, ntp |-> ntp]}
  /\ UNCHANGED <<err, ntp, old, driftlog, conf, drift, pc, offset, pid, exitcode, base>>

\* It disciplines the clock.
Discipline ==
  /\ ntpd = "running"
  /\ err' = 0 /\ ntp' \in {n \in Ntp : n.pll}
  /\ UNCHANGED <<old, ours, pc, offset, base, began>>

\* The logger ends: after its runtime of minutes, by which time ntpd is up if it
\* was forked at all, or at once.
DriftlogEnds ==
  /\ driftlog = "running" /\ driftlog' = "over"
  /\ DriftlogMayFail \/ ntpd \in {"none", "running"}
  /\ UNCHANGED <<err, ntp, old, ntpd, conf, drift, pc, offset, pid, exitcode, base, began>>

-------------------------------------------------------------------------------
(* main.                                                                   *)

Goto(from, to) == pc = from /\ pc' = to

\* Only root goes on.
CheckRoot ==
  /\ Goto("kill", "exit") /\ exitcode' = 255
  /\ UNCHANGED <<err, ntp, old, ntpd, driftlog, conf, drift, offset, pid, base, began>>

\* Kill ntpd ...
KillNtpd ==
  /\ Goto("kill", "offset") /\ old' = FALSE
  /\ UNCHANGED <<err, ntp, ours, offset, base, began>>

\* ... clear any state: ADJ_OFFSET (heeded only while the PLL is on),
\* ADJ_FREQUENCY, ADJ_STATUS ...
clear_ntp_state ==
  /\ \/ Goto("offset", "freq") /\ ntp' = [ntp EXCEPT !.slew = @ /\ ~ntp.pll]
     \/ Goto("freq", "status") /\ ntp' = [ntp EXCEPT !.freq = FALSE]
     \/ Goto("status", "ntpdate") /\ ntp' = [ntp EXCEPT !.pll = FALSE]
  /\ UNCHANGED <<err, old, ours, offset, base, began>>

\* ... and set the time properly.  Whether ntpdate has worked is not looked at.
set_time ==
  /\ Goto("ntpdate", "inject")
  /\ err' \in {0, err} /\ base' = err'
  /\ UNCHANGED <<ntp, old, ours, offset, began>>

\* Mutant: a negative offset without the borrow.
timeval_NoBorrow(nsec) ==
  LET mag == IF nsec < 0 THEN -nsec ELSE nsec
      sec == mag \div NSEC_PER_SEC
  IN  [tv_sec  |-> IF nsec < 0 THEN -sec ELSE sec,
       tv_usec |-> (mag % NSEC_PER_SEC) \div NSEC_PER_USEC]

\* The timeval handed to ADJ_SETOFFSET: seconds and nanoseconds of the
\* magnitude, negated so that the second part stays positive, and the
\* nanoseconds cut down to microseconds.
timeval(nsec) ==
  LET neg  == nsec < 0
      mag  == IF neg THEN -nsec ELSE nsec
      sec  == mag \div NSEC_PER_SEC
      frac == mag % NSEC_PER_SEC
      borrow == neg /\ frac # 0
  IN  [tv_sec  |-> (IF neg THEN -sec ELSE sec) - (IF borrow THEN 1 ELSE 0),
       tv_usec |-> (IF borrow THEN NSEC_PER_SEC - frac ELSE frac) \div NSEC_PER_USEC]

\* adjtimex with ADJ_SETOFFSET refuses a timeval that is not normalised.
set_fixed_offset ==
  LET tv == timeval(offset)
  IN  /\ Goto("inject", "conf")
      /\ err' = IF tv.tv_usec \in 0 .. USEC_PER_SEC - 1
                THEN err + tv.tv_sec * USEC_PER_SEC + tv.tv_usec ELSE err
      /\ UNCHANGED <<ntp, old, ours, offset, base, began>>

\* Both files are made anew, whatever an earlier test has left; without
\* CONF_FILE the program gives up.
generate_ntp_conf ==
  /\ \/ Goto("conf", "ntpd") /\ conf' = "ours" /\ drift' = "empty" /\ exitcode' = exitcode
     \/ Goto("conf", "exit") /\ exitcode' = 255 /\ UNCHANGED <<conf, drift>>
  /\ UNCHANGED <<err, ntp, old, ntpd, driftlog, offset, pid, base, began>>

\* What fork returns is not looked at.
run_ntpd ==
  /\ Goto("ntpd", "driftlog")
  /\ ntpd' = "forked" \/ (ForkFails /\ ntpd' = ntpd)
  /\ UNCHANGED <<err, ntp, old, driftlog, conf, drift, offset, pid, exitcode, base, began>>

run_driftlog ==
  /\ Goto("driftlog", "wait")
  /\ \/ driftlog' = "running" /\ pid' = 1
     \/ ForkFails /\ driftlog' = driftlog /\ pid' = -1
  /\ UNCHANGED <<err, ntp, old, ntpd, conf, drift, offset, exitcode, base, began>>

\* waitpid(pid, 0, 0): the logger, or with a pid of -1 any child, which is the
\* one that runs ntpd, if there is one.
WaitPid ==
  /\ IF pid = -1 THEN ntpd \in {"none", "killed"} ELSE driftlog = "over"
  /\ Goto("wait", "killagain")
  /\ UNCHANGED <<err, ntp, old, ours, offset, base, began>>

\* Kill ntpd (again): by name, so one that is not exec'ed yet is not found.
KillAgain ==
  /\ Goto("killagain", "cleanup")
  /\ ntpd' = IF ntpd = "running" THEN "killed" ELSE ntpd
  /\ UNCHANGED <<err, ntp, old, driftlog, conf, drift, offset, pid, exitcode, base, began>>

cleanup_conf ==
  /\ Goto("cleanup", "exit") /\ conf' = "none" /\ drift' = "none"
  /\ UNCHANGED <<err, ntp, old, ntpd, driftlog, offset, pid, exitcode, base, began>>

Main ==
  \/ CheckRoot \/ KillNtpd \/ clear_ntp_state \/ set_time \/ set_fixed_offset \/ generate_ntp_conf
  \/ run_ntpd \/ run_driftlog \/ WaitPid \/ KillAgain \/ cleanup_conf

Next ==
  \/ OldNtpd \/ NtpdStarts \/ Discipline \/ DriftlogEnds \/ Main
  \/ pc = "exit" /\ UNCHANGED vars

Spec == Init /\ [][Next]_vars

\* Every process is scheduled, and drift-log.py ends after its runtime.
FairSpec == Spec /\ WF_vars(Main) /\ WF_vars(NtpdStarts) /\ WF_vars(DriftlogEnds)

-------------------------------------------------------------------------------
(* Properties.                                                             *)

\* Type invariant.
TypeOK ==
  /\ err \in Int /\ ntp \in Ntp /\ old \in BOOLEAN
  /\ ntpd \in {"none", "forked", "running", "killed"}
  /\ driftlog \in {"none", "running", "over"}
  /\ conf \in {"none", "old", "ours"} /\ drift \in {"none", "old", "empty"}
  /\ pc \in {"kill", "offset", "freq", "status", "ntpdate", "inject", "conf", "ntpd",
             "driftlog", "wait", "killagain", "cleanup", "exit"}
  /\ offset \in Offsets /\ pid \in {-1, 0, 1} /\ exitcode \in {0, 255} /\ base \in Int

\* The start of the experiment is what it should be: when ntpd comes up it
\* finds its own configuration, no remembered drift, no leftover of the ntpd
\* before, and exactly the offset asked for, rounded down to microseconds
\* whatever its sign.
StartsFromOffset ==
  \A b \in began :
     /\ b.conf = "ours" /\ b.drift = "empty" /\ b.ntp = Clear
     /\ b.err = base + offset \div NSEC_PER_USEC

\* ntpd stays up for as long as the logger watches it.
LoggedToTheEnd == driftlog = "running" => ntpd # "killed"

\* After a complete test nothing of it is left: no ntpd, no files.
NothingIsLeft ==
  pc = "exit" /\ exitcode = 0 => ntpd = "killed" /\ conf = "none" /\ drift = "none"

\* The test ends once the logger does.
Ends == <>(pc = "exit")

\* "Kill ntpd (again)": no ntpd of the test is left once the program is over.
NoNtpdLeft == pc = "exit" => ntpd \in {"none", "killed"}
===============================================================================
