----------------------------- MODULE SetBackProofs -----------------------------
(***************************************************************************)
(* The safety properties of the programs that change the machine and set it *)
(* back, one section for each: what they leave behind, what a pass of them  *)
(* means and which failures fail them, for every set of frequencies,        *)
(* clocksources, offsets, tables and faults.  The last section puts them    *)
(* together: the properties of SetBack itself.                             *)
(***************************************************************************)
EXTENDS SetBack, Sequences, TLAPS

-------------------------------------------------------------------------------
(* change_skew: once ntpd is gone nobody else moves the frequency, so it is *)
(* what the program has set it to, and tx_freq is what it was.              *)

ChangingInv ==
  /\ Changing!TypeOK
  /\ pc \in {"skew", "test", "setback"} => privileged /\ tx_freq = orig
  /\ pc # "exit" => exitcode = 0
  /\ pc # "kill" /\ privileged => ~ntpd
  /\ pc = "test" => i <= 5 /\ freq = Changing!ppm[i] /\ ret = 0
  /\ pc \in {"skew", "test"} => ret = 0
  /\ pc \in {"kill", "offset"} => i = 1 /\ under = {} /\ ret = 0
  /\ pc # "exit" /\ ret = 0 => under = {Changing!ppm[k] : k \in 1 .. i - 1}
  /\ pc = "setback" /\ ret = 0 => i = 6
  /\ pc = "exit" /\ privileged => freq = orig
  /\ pc = "exit" /\ exitcode = 0 => under = {Changing!ppm[k] : k \in DOMAIN Changing!ppm}

\* The five frequencies.
LEMMA FiveFrequencies ==
  /\ DOMAIN Changing!ppm = 1 .. 5 /\ Len(Changing!ppm) = 5
  /\ \A k \in 1 .. 5 : Changing!ppm[k] \in -500 .. 500
BY DEF Changing!ppm

\* The invariant of change_skew holds at the start ...
LEMMA ChangingStarts == ASSUME Changing!ChangeSkewAssumption PROVE Changing!Init => ChangingInv
<1> SUFFICES ASSUME Changing!Init PROVE ChangingInv
  OBVIOUS
<1>1. freq \in -500 .. 500
  BY DEF Changing!Init, Changing!ChangeSkewAssumption
<1>2. under = {Changing!ppm[k] : k \in 1 .. i - 1}
  BY DEF Changing!Init
<1>3. Changing!TypeOK
  BY <1>1, FiveFrequencies DEF Changing!Init, Changing!TypeOK
<1> QED
  BY <1>2, <1>3 DEF Changing!Init, ChangingInv

\* ... and after every step.
LEMMA ChangingSteps ==
  ASSUME Changing!ChangeSkewAssumption
  PROVE  ChangingInv /\ [Changing!Next]_(Changing!vars) => ChangingInv'
<1> SUFFICES ASSUME ChangingInv, [Changing!Next]_(Changing!vars) PROVE ChangingInv'
  OBVIOUS
<1> USE FiveFrequencies DEF ChangingInv, Changing!TypeOK
<1>1. CASE Changing!Ntpd
  <2>1. freq' \in -500 .. 500 /\ ntpd /\ pc # "exit"
    BY <1>1 DEF Changing!Ntpd, Changing!ChangeSkewAssumption
  <2>2. pc # "test"
    BY <2>1
  <2> QED
    BY <1>1, <2>1, <2>2 DEF Changing!Ntpd
<1>2. CASE Changing!KillNtpd
  BY <1>2 DEF Changing!KillNtpd, Changing!Goto
<1>3. CASE Changing!ClearOffset
  <2>1. /\ pc = "offset" /\ tx_freq' = freq /\ orig' = freq
        /\ privileged => pc' = "skew" /\ exitcode' = exitcode
        /\ ~privileged => pc' = "exit" /\ exitcode' = 255
        /\ UNCHANGED <<freq, ntpd, privileged, i, ret, under>>
    BY <1>3 DEF Changing!ClearOffset, Changing!Goto
  <2>2. CASE privileged
    BY <2>1, <2>2
  <2>3. CASE ~privileged
    BY <2>1, <2>3
  <2> QED
    BY <2>2, <2>3
<1>4. CASE Changing!SetSkew
  BY <1>4 DEF Changing!SetSkew, Changing!Goto
<1>5. CASE Changing!RunTests
  <2>1. CASE pc' = "skew"
    <3>1. /\ pc = "test" /\ ret' = 0 /\ under' = under \cup {freq} /\ i' = i + 1
          /\ UNCHANGED <<freq, ntpd, privileged, tx_freq, exitcode, orig>>
      BY <1>5, <2>1 DEF Changing!RunTests, Changing!Goto
    <3>2. under' = {Changing!ppm[k] : k \in 1 .. i' - 1}
      <4>1. 1 .. i' - 1 = (1 .. i - 1) \cup {i}
        BY <3>1
      <4> QED
        BY <3>1, <4>1
    <3> QED
      BY <2>1, <3>1, <3>2
  <2>2. CASE pc' = "setback"
    BY <1>5, <2>2 DEF Changing!RunTests, Changing!Goto
  <2> QED
    BY <1>5, <2>1, <2>2 DEF Changing!RunTests, Changing!Goto
<1>6. CASE Changing!TestsDone
  BY <1>6 DEF Changing!TestsDone, Changing!Goto
<1>7. CASE Changing!SetBack
  BY <1>7 DEF Changing!SetBack, Changing!Goto
<1>8. CASE UNCHANGED Changing!vars
  BY <1>8 DEF Changing!vars
<1> QED
  BY <1>1, <1>2, <1>3, <1>4, <1>5, <1>6, <1>7, <1>8 DEF Changing!Next

\* Types, for every set of frequencies the kernel may run at.
THEOREM ChangingTypes ==
  ASSUME Changing!ChangeSkewAssumption PROVE Changing!Spec => []Changing!TypeOK
<1>1. ChangingInv => Changing!TypeOK
  BY DEF ChangingInv
<1> QED
  BY <1>1, ChangingStarts, ChangingSteps, PTL DEF Changing!Spec

\* However the programs end, the frequency is put back.
THEOREM ChangingSetsBack ==
  ASSUME Changing!ChangeSkewAssumption
  PROVE  Changing!Spec => []Changing!ThingsAreSetBack
<1>1. ChangingInv => Changing!ThingsAreSetBack
  BY DEF ChangingInv, Changing!ThingsAreSetBack
<1> QED
  BY <1>1, ChangingStarts, ChangingSteps, PTL DEF Changing!Spec

\* A pass means that the programs have passed under all five frequencies.
THEOREM ChangingTestsAll ==
  ASSUME Changing!ChangeSkewAssumption
  PROVE  Changing!Spec => []Changing!OkMeansAllTested
<1>1. ChangingInv => Changing!OkMeansAllTested
  BY DEF ChangingInv, Changing!OkMeansAllTested
<1> QED
  BY <1>1, ChangingStarts, ChangingSteps, PTL DEF Changing!Spec

-------------------------------------------------------------------------------
(* skew_consistency: the child is reaped on every way out, and main has its *)
(* status then.                                                            *)

TurningInv ==
  /\ Turning!TypeOK
  /\ pc = "fork" => child = "none"
  /\ pc # "fork" => (pid = 1 /\ child # "none") \/ (pid = -1 /\ child = "none")
  /\ result \in Turning!Results
  /\ child \in {"none", "running"} => result = Turning!Passed
  /\ child \in {"zombie", "reaped"} => status = Turning!Exited(result)
  /\ child = "reaped" => ret = status
  /\ pc \in {"fork", "wait", "turn"} => child # "reaped"
  /\ pc \in {"setback", "verdict", "exit"} => child \in {"none", "reaped"}
  /\ pc \in {"fork", "wait", "turn"} \/ child = "none" => ret = 0
  /\ pc # "exit" => exitcode = 0
  /\ pc = "exit" => (exitcode = 1 <=> ret # 0)

\* The numbers behind the ends of a process: the exit status keeps the signal
\* that has killed a shell's command from main, but not one that has killed the
\* child's own.
LEMMA EndsAsNumbers ==
  /\ Turning!Passed = 0 /\ Turning!Failed = 256 /\ Turning!Killed = 9
  /\ Turning!ShellKilled = 35072
  /\ Turning!Exited(0) = 0 /\ Turning!Exited(256) = 0 /\ Turning!Exited(9) = 2304
  /\ Turning!Exited(35072) = 0
  /\ Turning!Results = {0, 256, 9, 35072}
BY DEF Turning!Passed, Turning!Failed, Turning!Killed, Turning!ShellKilled, Turning!Exited,
   Turning!Results

\* The invariant of skew_consistency holds at the start ...
LEMMA TurningStarts ==
  ASSUME Turning!SkewConsistencyAssumption PROVE Turning!Init => TurningInv
<1> SUFFICES ASSUME Turning!Init PROVE TurningInv
  OBVIOUS
<1>1. freq \in -500 .. 500 /\ tx_freq \in -500 .. 500
  BY DEF Turning!Init, Turning!SkewConsistencyAssumption
<1>2. Turning!TypeOK
  BY <1>1 DEF Turning!Init, Turning!TypeOK
<1> QED
  BY <1>2, EndsAsNumbers DEF Turning!Init, TurningInv

LEMMA TurningSteps ==
  ASSUME Turning!SkewConsistencyAssumption
  PROVE  TurningInv /\ [Turning!Next]_(Turning!vars) => TurningInv'
<1> SUFFICES ASSUME TurningInv, [Turning!Next]_(Turning!vars) PROVE TurningInv'
  OBVIOUS
<1> USE DEF TurningInv, Turning!TypeOK, Turning!Goto
<1>1. CASE Turning!Child
  <2>1. PICK s \in Turning!Results : result' = s /\ status' = Turning!Exited(s)
    BY <1>1 DEF Turning!Child
  <2>2. status' \in Nat /\ result' \in Turning!Results
    BY <2>1, EndsAsNumbers
  <2> QED
    BY <1>1, <2>1, <2>2 DEF Turning!Child
<1>2. CASE Turning!Fork
  BY <1>2 DEF Turning!Fork
<1>3. CASE Turning!WaitPid
  BY <1>3 DEF Turning!WaitPid
<1>4. CASE Turning!Turn
  <2>1. ppm' \in {-500, 500}
    BY <1>4 DEF Turning!Turn
  <2>2. ppm' \in -500 .. 500
    BY <2>1
  <2> QED
    BY <1>4, <2>1, <2>2 DEF Turning!Turn
<1>5. CASE Turning!SetBack
  BY <1>5 DEF Turning!SetBack
<1>6. CASE Turning!Verdict
  BY <1>6 DEF Turning!Verdict
<1>7. CASE UNCHANGED Turning!vars
  BY <1>7 DEF Turning!vars
<1> QED
  BY <1>1, <1>2, <1>3, <1>4, <1>5, <1>6, <1>7 DEF Turning!Next, Turning!Main

\* Types, for every frequency the kernel may run at, and whether fork may fail.
THEOREM TurningTypes ==
  ASSUME Turning!SkewConsistencyAssumption
  PROVE  Turning!Spec => []Turning!TypeOK
<1>1. TurningInv => Turning!TypeOK
  BY DEF TurningInv
<1> QED
  BY <1>1, TurningStarts, TurningSteps, PTL DEF Turning!Spec

\* The child is waited for on every path.
THEOREM TurningReapsChild ==
  ASSUME Turning!SkewConsistencyAssumption
  PROVE  Turning!Spec => []Turning!ChildIsReaped
<1>1. TurningInv => Turning!ChildIsReaped
  BY DEF TurningInv, Turning!ChildIsReaped
<1> QED
  BY <1>1, TurningStarts, TurningSteps, PTL DEF Turning!Spec

\* A check that a signal has killed fails the program, and nothing else does.
THEOREM TurningSeesTheKilled ==
  ASSUME Turning!SkewConsistencyAssumption
  PROVE  Turning!Spec => []Turning!OnlyKilledCheckFails
<1>1. TurningInv => Turning!OnlyKilledCheckFails
  BY EndsAsNumbers DEF TurningInv, Turning!OnlyKilledCheckFails
<1> QED
  BY <1>1, TurningStarts, TurningSteps, PTL DEF Turning!Spec

-------------------------------------------------------------------------------
(* clocksource-switch: the clocksources below i have passed while main      *)
(* validates, and all of them once it does not.                            *)

SwitchingInv(s) ==
  /\ Switching(s)!TypeOK
  /\ before \in Switching(s)!Clocksources
  /\ pc = "start" => cur = before /\ i = 1
  /\ pc # "start" => orig_clk = before
  /\ pc \in {"start", "validate", "test"} => child = "none" /\ sane = 1 .. i - 1
  /\ pc = "test" => cur = i /\ i <= Count
  /\ pc \in {"wait", "switch"} => sane = Switching(s)!Clocksources
  /\ child # "none" => sane = Switching(s)!Clocksources
  /\ result \in Switching(s)!Results
  /\ child \in {"none", "running"} => result = Switching(s)!Passed
  /\ child \in {"zombie", "reaped"} => child_status = Switching(s)!Exited(result)
  /\ child # "none" \/ pc \in {"wait", "switch"} => pc \notin {"start", "validate", "test"}
  /\ (pc = "out" /\ status = 0) \/ (pc = "exit" /\ exitcode = 0) =>
       /\ sane = Switching(s)!Clocksources /\ child \in {"none", "reaped"}
       /\ result # Switching(s)!Killed
  /\ s \notin CallsFail /\ pc \in {"wait", "switch"} => child \in {"running", "zombie"}
  /\ s \notin CallsFail /\ pc \in {"out", "exit"} => child \in {"none", "reaped"}
  /\ s \notin CallsFail /\ sane = Switching(s)!Clocksources /\ result # Switching(s)!Killed =>
       (pc = "out" => status = 0) /\ (pc = "exit" => exitcode = 0)
  /\ s \in Terminated /\ pc = "exit" /\ ~refused => cur = before

\* The numbers again, as clocksource-switch has them.
LEMMA EndsOfTests ==
  ASSUME NEW s
  PROVE  /\ Switching(s)!Passed = 0 /\ Switching(s)!Killed = 9
         /\ Switching(s)!Exited(0) = 0 /\ Switching(s)!Exited(256) = 0
         /\ Switching(s)!Exited(9) = 2304 /\ Switching(s)!Exited(35072) = 0
         /\ Switching(s)!Results = {0, 256, 9, 35072}
BY DEF Switching!Passed, Switching!Failed, Switching!Killed, Switching!ShellKilled,
   Switching!Exited, Switching!Results

\* The invariant of clocksource-switch holds at the start ...
LEMMA SwitchingStarts ==
  ASSUME NEW s, Switching(s)!ClocksourceAssumption PROVE Switching(s)!Init => SwitchingInv(s)
<1> SUFFICES ASSUME Switching(s)!Init PROVE SwitchingInv(s)
  OBVIOUS
<1>1. Switching(s)!TypeOK
  <2>1. cur \in Switching(s)!Clocksources /\ 1 \in 1 .. Count + 1 /\ 0 \in 0 .. Count
    BY DEF Switching!Init, Switching!ClocksourceAssumption
  <2>2. /\ child = "none" /\ child_status = 0 /\ pc = "start" /\ i = 1 /\ orig_clk = 0
        /\ exitcode = 0 /\ status \in {0, 1} /\ refused = FALSE
    BY DEF Switching!Init
  <2> QED
    <3>1. refused \in BOOLEAN
      BY <2>2, Zenon
    <3>2. status \in Int /\ child_status \in Nat
      BY <2>2
    <3> QED
      BY <2>1, <2>2, <3>1, <3>2 DEF Switching!TypeOK
<1> QED
  BY <1>1, EndsOfTests DEF Switching!Init, SwitchingInv, Switching!Clocksources,
     Switching!ClocksourceAssumption

LEMMA SwitchingSteps ==
  ASSUME NEW s, Switching(s)!ClocksourceAssumption
  PROVE  SwitchingInv(s) /\ [Switching(s)!Next]_(Switching(s)!vars) => SwitchingInv(s)'
<1> SUFFICES ASSUME SwitchingInv(s), [Switching(s)!Next]_(Switching(s)!vars) PROVE SwitchingInv(s)'
  OBVIOUS
<1> USE Switching(s)!ClocksourceAssumption, EndsOfTests
    DEF SwitchingInv, Switching!TypeOK, Switching!Goto, Switching!Clocksources,
        Switching!change_clocksource, Switching!change_fails, Switching!ClocksourceAssumption
<1>1. CASE Switching(s)!Start
  BY <1>1 DEF Switching!Start
<1>2. CASE Switching(s)!Validate
  BY <1>2 DEF Switching!Validate
<1>3. CASE Switching(s)!Test
  <2>1. PICK r \in Switching(s)!run_tests :
          /\ pc = "test" /\ pc' = IF r = 0 THEN "validate" ELSE "out"
          /\ i' = IF r = 0 THEN i + 1 ELSE i
          /\ status' = IF r = 0 THEN status ELSE -1
          /\ sane' = IF r = 0 THEN sane \cup {cur} ELSE sane
          /\ UNCHANGED <<cur, child, child_status, orig_clk, exitcode, before, result, refused>>
    BY <1>3 DEF Switching!Test
  <2>2. CASE r = 0
    <3>1. sane' = 1 .. i' - 1
      <4>1. 1 .. i = (1 .. i - 1) \cup {i}
        BY <2>1
      <4> QED
        BY <2>1, <2>2, <4>1
    <3> QED
      BY <2>1, <2>2, <3>1
  <2>3. CASE r # 0
    <3>1. i \in 1 .. Count /\ i \notin sane
      BY <2>1
    <3> QED
      BY <2>1, <2>3, <3>1
  <2> QED
    BY <2>2, <2>3
<1>4. CASE Switching(s)!Fork
  <2>1. sane = 1 .. Count
    BY <1>4 DEF Switching!Fork
  <2> QED
    BY <1>4, <2>1 DEF Switching!Fork
<1>5. CASE Switching(s)!Child
  <2>1. PICK r \in Switching(s)!Results : result' = r /\ child_status' = Switching(s)!Exited(r)
    BY <1>5 DEF Switching!Child, Switching!run_tests
  <2>2. child_status' \in Nat
    BY <2>1
  <2> QED
    BY <1>5, <2>1, <2>2 DEF Switching!Child
<1>6. CASE Switching(s)!WaitPid
  BY <1>6 DEF Switching!WaitPid
<1>7. CASE Switching(s)!Switch
  BY <1>7 DEF Switching!Switch
<1>8. CASE Switching(s)!Restore
  <2>1. /\ pc = "out" /\ pc' = "exit" /\ exitcode' = IF status # 0 THEN 1 ELSE 0
        /\ UNCHANGED <<child, child_status, i, orig_clk, status, before, sane, result>>
    BY <1>8 DEF Switching!Restore
  <2>2. /\ cur' \in Switching(s)!Clocksources /\ refused' \in BOOLEAN
        /\ s \in Terminated /\ ~refused' => cur' = before
    <3>1. /\ orig_clk \in Switching(s)!Clocksources /\ 1 \in Switching(s)!Clocksources
          /\ orig_clk = before /\ cur \in Switching(s)!Clocksources
      BY <2>1
    <3>2. \/ cur' = orig_clk /\ refused' = FALSE
          \/ s \notin Terminated /\ cur' = 1 /\ refused' = FALSE
          \/ cur' = cur /\ refused' = TRUE
      BY <1>8 DEF Switching!Restore
    <3>3. refused' = FALSE \/ refused' = TRUE
      BY <3>2
    <3>4. refused' \in BOOLEAN
      BY ONLY <3>3
    <3> QED
      BY <3>1, <3>2, <3>4
  <2> QED
    BY <2>1, <2>2
<1>9. CASE UNCHANGED Switching(s)!vars
  BY <1>9 DEF Switching!vars
<1> QED
  BY <1>1, <1>2, <1>3, <1>4, <1>5, <1>6, <1>7, <1>8, <1>9 DEF Switching!Next, Switching!Main

\* Types, for every number of clocksources.
THEOREM SwitchingTypes ==
  ASSUME NEW s, Switching(s)!ClocksourceAssumption
  PROVE  Switching(s)!Spec => []Switching(s)!TypeOK
<1>1. SwitchingInv(s) => Switching(s)!TypeOK
  BY DEF SwitchingInv
<1> QED
  BY <1>1, SwitchingStarts, SwitchingSteps, PTL DEF Switching!Spec

\* Switching under the tests begins after every clocksource has passed alone.
THEOREM SwitchingValidatesFirst ==
  ASSUME NEW s, Switching(s)!ClocksourceAssumption
  PROVE  Switching(s)!Spec => []Switching(s)!SaneBeforeSwitching
<1>1. SwitchingInv(s) => Switching(s)!SaneBeforeSwitching
  BY DEF SwitchingInv, Switching!SaneBeforeSwitching
<1> QED
  BY <1>1, SwitchingStarts, SwitchingSteps, PTL DEF Switching!Spec

\* A pass means that every clocksource has passed alone and that no test of the
\* child's was killed; no more.
THEOREM SwitchingSeesTheSane ==
  ASSUME NEW s, Switching(s)!ClocksourceAssumption
  PROVE  Switching(s)!Spec => []Switching(s)!PassMeansSaneAlone
<1>1. SwitchingInv(s) => Switching(s)!PassMeansSaneAlone
  BY DEF SwitchingInv, Switching!PassMeansSaneAlone
<1> QED
  BY <1>1, SwitchingStarts, SwitchingSteps, PTL DEF Switching!Spec

\* The program ends on the clocksource it found, if the name that it has read is
\* terminated and the write that goes back to it is not refused.
THEOREM SwitchingRestores ==
  ASSUME NEW s, Switching(s)!ClocksourceAssumption, s \in Terminated
  PROVE  Switching(s)!Spec => []Switching(s)!OriginalIsRestored
<1>1. SwitchingInv(s) => Switching(s)!OriginalIsRestored
  BY DEF SwitchingInv, Switching!OriginalIsRestored
<1> QED
  BY <1>1, SwitchingStarts, SwitchingSteps, PTL DEF Switching!Spec

\* The child is waited for if only tests fail.
THEOREM SwitchingReapsChild ==
  ASSUME NEW s, Switching(s)!ClocksourceAssumption, s \notin CallsFail
  PROVE  Switching(s)!Spec => []Switching(s)!ChildIsReaped
<1>1. SwitchingInv(s) => Switching(s)!ChildIsReaped
  BY DEF SwitchingInv, Switching!ChildIsReaped
<1> QED
  BY <1>1, SwitchingStarts, SwitchingSteps, PTL DEF Switching!Spec

-------------------------------------------------------------------------------
(* set-2038: the tests run under the edge that has been set, so a failing   *)
(* one is an edge that they have not passed under.                         *)

\* Edges[k], to tell it from the variable's other uses.
Edge(s, k) == Dating(s)!Edges[k]

Times == {"start", "1901", "MAX", "2262", "1970", "2038-600", "2038-10", "2262-600", "1990"}

DatingInv(s) ==
  /\ Dating(s)!TypeOK
  /\ clock \in [from : Times, secs : Nat]
  /\ pc = "exit" => clock.from = "start"
  /\ pc = "crazy" => ret = 0 /\ ~taken /\ tested = {}
  /\ pc = "edge" => ret = 0 /\ ~taken /\ step <= Len(Dating(s)!Edges) + 1
  /\ pc = "tests" => ret = 0 /\ ~taken /\ step <= Len(Dating(s)!Edges)
  /\ pc = "exit" => (exitcode = 0 <=> ret = 0)

\* The kernel takes every time near an edge, and time_t holds it.
EdgesAreSet(s) == s \notin Refuses /\ ~(s \in is32bits /\ s \in dangerous)

TestedInv(s) ==
  /\ pc = "tests" => clock.from = Edge(s, step)
  /\ pc \in {"edge", "tests"} => tested = {Edge(s, k) : k \in 1 .. step - 1}
  /\ pc \in {"out", "exit"} =>
       (ret = 0 <=> ~taken /\ tested = {Edge(s, k) : k \in 1 .. Len(Dating(s)!Edges)})

DatingIInv(s) == DatingInv(s) /\ (EdgesAreSet(s) => TestedInv(s))

\* The tables: the edges differ from one another and from every other time.
LEMMA Tables ==
  ASSUME NEW s
  PROVE  /\ Len(Dating(s)!Edges) \in {2, 4} /\ Len(Dating(s)!Crazy) \in {2, 3}
         /\ DOMAIN Dating(s)!Edges = 1 .. Len(Dating(s)!Edges)
         /\ \A k \in 1 .. Len(Dating(s)!Edges) :
              Edge(s, k) \in {"1970", "2038-600", "2038-10", "2262-600"}
         /\ \A k, l \in 1 .. Len(Dating(s)!Edges) : Edge(s, k) = Edge(s, l) => k = l
         /\ \A k \in 1 .. Len(Dating(s)!Crazy) : Dating(s)!Crazy[k] \in {"1901", "MAX", "2262"}
<1>1. CASE s \in is32bits /\ s \notin dangerous
  BY <1>1 DEF Dating!Edges, Dating!Crazy, Edge
<1>2. CASE s \in is32bits /\ s \in dangerous
  BY <1>2 DEF Dating!Edges, Dating!Crazy, Edge
<1>3. CASE s \notin is32bits
  BY <1>3 DEF Dating!Edges, Dating!Crazy, Edge
<1> QED
  BY <1>1, <1>2, <1>3

\* The invariant of set-2038 holds at the start ...
LEMMA DatingStarts ==
  ASSUME NEW s, Dating(s)!Set2038Assumption
  PROVE  Dating(s)!Init => DatingIInv(s)
<1> SUFFICES ASSUME Dating(s)!Init PROVE DatingInv(s) /\ TestedInv(s)
  BY DEF DatingIInv
<1>1. clock \in [from : Times, secs : Nat] /\ clock.from = "start" /\ clock.secs = 0
  BY DEF Dating!Init, Times
<1>2. DatingInv(s)
  <2>1. /\ pc = "crazy" /\ step = 1 /\ ret = 0 /\ exitcode = 0 /\ elapsed = 0
        /\ tested = {} /\ taken = FALSE
    BY DEF Dating!Init
  <2>2. step \in 1 .. 5 /\ clock.secs \in Nat /\ elapsed \in Nat
    BY <1>1, <2>1
  <2>3. ret \in {-1, 0, 1} /\ exitcode \in {0, 1} /\ taken \in BOOLEAN
    BY <2>1
  <2>4. Dating(s)!TypeOK
    BY <1>1, <2>1, <2>2, <2>3 DEF Dating!TypeOK
  <2> QED
    BY <1>1, <2>1, <2>4 DEF DatingInv
<1>3. TestedInv(s)
  BY DEF Dating!Init, TestedInv
<1> QED
  BY <1>2, <1>3

\* What settime makes of the clock.
LEMMA SetTimes ==
  ASSUME NEW s, NEW edge \in Times, Dating(s)!settime(edge)
  PROVE  /\ clock' \in [from : Times, secs : Nat] /\ clock'.secs = 0
         /\ clock'.from \in Times /\ clock'.from = Dating(s)!time_t(edge)
         /\ edge = "start" => clock'.from = "start"
<1>1. Dating(s)!time_t(edge) \in Times /\ (edge = "start" => Dating(s)!time_t(edge) = "start")
  BY DEF Dating!time_t, Times
<1> QED
  BY <1>1 DEF Dating!settime

LEMMA DatingSteps ==
  ASSUME NEW s, Dating(s)!Set2038Assumption
  PROVE  DatingIInv(s) /\ [Dating(s)!Next]_(Dating(s)!vars) => DatingIInv(s)'
<1> SUFFICES ASSUME DatingInv(s), EdgesAreSet(s) => TestedInv(s), [Dating(s)!Next]_(Dating(s)!vars)
             PROVE  DatingInv(s)' /\ (EdgesAreSet(s) => TestedInv(s)')
  BY DEF DatingIInv, EdgesAreSet
<1>0. /\ clock.from \in Times /\ clock.secs \in Nat /\ elapsed \in Nat
      /\ pc \in {"crazy", "edge", "tests", "out", "exit"} /\ step \in 1 .. 5
      /\ ret \in {-1, 0, 1} /\ exitcode \in {0, 1} /\ taken \in BOOLEAN
  BY DEF DatingInv, Dating!TypeOK, Times
<1> USE <1>0, Tables DEF Dating!Goto
<1>t. ASSUME clock'.from \in Times, clock'.secs \in Nat, elapsed' \in Nat,
             pc' \in {"crazy", "edge", "tests", "out", "exit"}, step' \in 1 .. 5,
             ret' \in {-1, 0, 1}, exitcode' \in {0, 1}, taken' \in BOOLEAN
      PROVE  Dating(s)!TypeOK'
  BY <1>t DEF Dating!TypeOK, Times
<1>1. CASE Dating(s)!Tick
  <2>1. /\ pc # "exit" /\ clock' = [clock EXCEPT !.secs = @ + 1] /\ elapsed' = elapsed + 1
        /\ UNCHANGED <<pc, step, ret, exitcode, tested, taken>>
    BY <1>1 DEF Dating!Tick
  <2>2. /\ clock' \in [from : Times, secs : Nat] /\ clock'.from = clock.from
        /\ clock'.secs = clock.secs + 1
    BY <2>1 DEF DatingInv
  <2>3. clock'.secs \in Nat /\ elapsed' \in Nat
    BY <2>1, <2>2
  <2>4. Dating(s)!TypeOK'
    BY <2>1, <2>2, <2>3, <1>t
  <2> QED
    BY <2>1, <2>2, <2>4 DEF DatingInv, TestedInv
<1>2. CASE Dating(s)!SetCrazy
  <2>1. CASE pc' = "crazy"
    <3>1. /\ pc = "crazy" /\ step' = step + 1 /\ step <= Len(Dating(s)!Crazy)
          /\ UNCHANGED <<clock, ret, taken, elapsed, exitcode, tested>>
      BY <1>2, <2>1 DEF Dating!SetCrazy
    <3>2. step' \in 1 .. 5
      BY <3>1
    <3>3. Dating(s)!TypeOK'
      BY <2>1, <3>1, <3>2, <1>t
    <3> QED
      BY <2>1, <3>1, <3>3 DEF DatingInv, TestedInv
  <2>2. CASE pc' = "out"
    <3>1. /\ pc = "crazy" /\ step <= Len(Dating(s)!Crazy)
          /\ Dating(s)!settime(Dating(s)!Crazy[step])
          /\ ret' = -1 /\ taken' = TRUE /\ UNCHANGED <<step, elapsed, exitcode, tested>>
      BY <1>2, <2>2 DEF Dating!SetCrazy
    <3>2. Dating(s)!Crazy[step] \in Times
      BY <3>1 DEF Times
    <3>3. clock' \in [from : Times, secs : Nat] /\ clock'.from \in Times /\ clock'.secs \in Nat
      BY <3>1, <3>2, SetTimes
    <3>4. Dating(s)!TypeOK'
      BY <2>2, <3>1, <3>3, <1>t
    <3> QED
      BY <2>2, <3>1, <3>3, <3>4 DEF DatingInv, TestedInv
  <2> QED
    BY <1>2, <2>1, <2>2 DEF Dating!SetCrazy
<1>3. CASE Dating(s)!CrazyDone
  <2>1. /\ pc = "crazy" /\ pc' = "edge" /\ step' = 1
        /\ UNCHANGED <<clock, elapsed, ret, exitcode, tested, taken>>
    BY <1>3 DEF Dating!CrazyDone
  <2>2. Dating(s)!TypeOK'
    BY <2>1, <1>t
  <2>3. tested' = {Edge(s, k) : k \in 1 .. step' - 1}
    BY <2>1 DEF DatingInv
  <2> QED
    BY <2>1, <2>2, <2>3 DEF DatingInv, TestedInv
<1>4. CASE Dating(s)!SetEdge
  <2>1. /\ pc = "edge" /\ pc' = "tests" /\ step <= Len(Dating(s)!Edges)
        /\ Dating(s)!settime(Dating(s)!Edges[step]) \/ (s \in Refuses /\ clock' = clock)
        /\ UNCHANGED <<elapsed, step, ret, exitcode, tested, taken>>
    BY <1>4 DEF Dating!SetEdge
  <2>2. Edge(s, step) \in Times
    BY <2>1 DEF Times
  <2>3. clock' \in [from : Times, secs : Nat] /\ clock'.from \in Times /\ clock'.secs \in Nat
    BY <2>1, <2>2, SetTimes DEF DatingInv, Edge
  <2>4. Dating(s)!TypeOK'
    BY <2>1, <2>3, <1>t
  <2>5. EdgesAreSet(s) => clock'.from = Edge(s, step)
    <3> SUFFICES ASSUME EdgesAreSet(s) PROVE clock'.from = Edge(s, step)
      OBVIOUS
    <3>1. clock'.from = Dating(s)!time_t(Edge(s, step))
      BY <2>1, <2>2, SetTimes DEF EdgesAreSet, Edge
    <3>2. s \in is32bits => Edge(s, step) # "2262-600"
      BY <2>1 DEF EdgesAreSet, Edge, Dating!Edges
    <3> QED
      BY <3>1, <3>2 DEF Dating!time_t
  <2> QED
    BY <2>1, <2>3, <2>4, <2>5 DEF DatingInv, TestedInv
<1>5. CASE Dating(s)!do_tests
  <2>1. CASE pc' = "edge"
    <3>1. /\ pc = "tests" /\ step' = step + 1 /\ ret' = 0 /\ tested' = tested \cup {clock.from}
          /\ UNCHANGED <<clock, elapsed, exitcode, taken>>
      BY <1>5, <2>1 DEF Dating!do_tests
    <3>2. step <= Len(Dating(s)!Edges)
      BY <3>1 DEF DatingInv
    <3>3. step' \in 1 .. 5 /\ step' <= Len(Dating(s)!Edges) + 1
      BY <3>1, <3>2
    <3>4. Dating(s)!TypeOK'
      BY <2>1, <3>1, <3>3, <1>t
    <3>5. TestedInv(s) => tested' = {Edge(s, k) : k \in 1 .. step' - 1}
      <4>1. 1 .. step' - 1 = (1 .. step - 1) \cup {step}
        BY <3>1
      <4> QED
        BY <3>1, <4>1 DEF TestedInv
    <3> QED
      BY <2>1, <3>1, <3>3, <3>4, <3>5 DEF DatingInv, TestedInv
  <2>2. CASE pc' = "out"
    <3>1. /\ pc = "tests" /\ step' = step /\ ret' = 1 /\ tested' = tested
          /\ UNCHANGED <<clock, elapsed, exitcode, taken>>
      BY <1>5, <2>2 DEF Dating!do_tests
    <3>2. Dating(s)!TypeOK'
      BY <2>2, <3>1, <1>t
    <3>3. TestedInv(s) => Edge(s, step) \notin tested
      <4>1. step <= Len(Dating(s)!Edges)
        BY <3>1 DEF DatingInv
      <4> QED
        BY <3>1, <4>1 DEF TestedInv
    <3>4. TestedInv(s) => tested # {Edge(s, k) : k \in 1 .. Len(Dating(s)!Edges)}
      <4>1. step \in 1 .. Len(Dating(s)!Edges)
        BY <3>1 DEF DatingInv
      <4> QED
        BY <3>3, <4>1
    <3> QED
      BY <2>2, <3>1, <3>2, <3>4 DEF DatingInv, TestedInv
  <2> QED
    BY <1>5, <2>1, <2>2 DEF Dating!do_tests
<1>6. CASE Dating(s)!EdgesDone
  <2>1. /\ pc = "edge" /\ pc' = "out" /\ step > Len(Dating(s)!Edges)
        /\ UNCHANGED <<clock, elapsed, step, ret, exitcode, tested, taken>>
    BY <1>6 DEF Dating!EdgesDone
  <2>2. step - 1 = Len(Dating(s)!Edges)
    BY <2>1 DEF DatingInv
  <2>3. Dating(s)!TypeOK'
    BY <2>1, <1>t
  <2>4. TestedInv(s) => TestedInv(s)'
    BY <2>1, <2>2 DEF TestedInv, DatingInv
  <2> QED
    BY <2>1, <2>3, <2>4 DEF DatingInv
<1>7. CASE Dating(s)!Restore
  <2>1. /\ pc = "out" /\ pc' = "exit" /\ Dating(s)!settime("start")
        /\ exitcode' = (IF ret # 0 THEN 1 ELSE 0)
        /\ UNCHANGED <<elapsed, step, ret, tested, taken>>
    BY <1>7 DEF Dating!Restore
  <2>2. "start" \in Times
    BY DEF Times
  <2>3. clock' \in [from : Times, secs : Nat] /\ clock'.secs \in Nat /\ clock'.from = "start"
    BY <2>1, <2>2, SetTimes
  <2>4. Dating(s)!TypeOK'
    BY <2>1, <2>2, <2>3, <1>t
  <2> QED
    BY <2>1, <2>3, <2>4 DEF DatingInv, TestedInv
<1>8. CASE UNCHANGED Dating(s)!vars
  BY <1>8 DEF Dating!vars, DatingInv, TestedInv, Dating!TypeOK
<1> QED
  BY <1>1, <1>2, <1>3, <1>4, <1>5, <1>6, <1>7, <1>8 DEF Dating!Next

\* The machine is back in its own time, for both sizes of long, whatever the
\* kernel takes or refuses.
THEOREM DatingRestores ==
  ASSUME NEW s, Dating(s)!Set2038Assumption
  PROVE  Dating(s)!Spec => []Dating(s)!EraIsRestored
<1>1. DatingIInv(s) => Dating(s)!EraIsRestored
  BY DEF DatingIInv, DatingInv, Dating!EraIsRestored
<1> QED
  BY <1>1, DatingStarts, DatingSteps, PTL DEF Dating!Spec

\* What the invariant says of the verdict.
LEMMA DatingVerdictHolds ==
  ASSUME NEW s, EdgesAreSet(s), DatingIInv(s)
  PROVE  Dating(s)!VerdictIsRight
<1> SUFFICES ASSUME DatingInv(s), TestedInv(s), pc = "exit"
             PROVE  exitcode = 0 <=> ~taken /\ tested = {Edge(s, k) : k \in DOMAIN Dating(s)!Edges}
  BY DEF DatingIInv, Dating!VerdictIsRight, Edge
<1> QED
  BY Tables DEF DatingInv, TestedInv

\* A kernel that takes every time near an edge passes if and only if it takes no
\* crazy one and the tests have passed under every edge.
THEOREM DatingVerdict ==
  ASSUME NEW s, Dating(s)!Set2038Assumption, EdgesAreSet(s)
  PROVE  Dating(s)!Spec => []Dating(s)!VerdictIsRight
<1>1. DatingIInv(s) => Dating(s)!VerdictIsRight
  BY DatingVerdictHolds
<1> QED
  BY <1>1, DatingStarts, DatingSteps, PTL DEF Dating!Spec

-------------------------------------------------------------------------------
(* ntp-converge: what is put into the clock is the offset, and ntpd starts   *)
(* from it.                                                                *)

\* Multiplication by a natural number keeps an order.
LEMMA Monotonic ==
  ASSUME NEW k \in Nat, NEW x \in Int, NEW y \in Int, x <= y
  PROVE  x * k <= y * k
<1>1. PICK d \in Nat : y = x + d
  <2>1. y - x \in Nat
    OBVIOUS
  <2> QED
    BY <2>1
<1>2. (x + d) * k = x * k + d * k
  OBVIOUS
<1>3. d * k \in Nat
  OBVIOUS
<1> QED
  BY <1>1, <1>2, <1>3

\* A quotient and a remainder are those of the division.
LEMMA Quotient ==
  ASSUME NEW k \in Nat \ {0}, NEW q \in Int, NEW r \in 0 .. k - 1
  PROVE  (q * k + r) \div k = q
<1> DEFINE a == q * k + r
           p == a \div k
           s == a % k
<1>1. a \in Int /\ p \in Int /\ s \in 0 .. k - 1 /\ a = k * p + s
  OBVIOUS
<1> HIDE DEF a, p, s
<1>2. a = q * k + r /\ a = p * k + s
  BY <1>1 DEF a
<1>3. ~(p < q)
  <2> SUFFICES ASSUME p + 1 <= q PROVE FALSE
    BY <1>1
  <2>1. (p + 1) * k <= q * k
    BY <1>1, Monotonic
  <2>2. (p + 1) * k = p * k + k
    BY <1>1
  <2> QED
    BY <1>1, <1>2, <2>1, <2>2
<1>4. ~(q < p)
  <2> SUFFICES ASSUME q + 1 <= p PROVE FALSE
    BY <1>1
  <2>1. (q + 1) * k <= p * k
    BY <1>1, Monotonic
  <2>2. (q + 1) * k = q * k + k
    OBVIOUS
  <2> QED
    BY <1>1, <1>2, <2>1, <2>2
<1>5. p = q
  BY <1>1, <1>3, <1>4
<1> QED
  BY <1>5 DEF p, a

\* Whole seconds and the microseconds of a rest less than a second.
LEMMA Normalised ==
  ASSUME NEW s, Converging(s)!NtpConvergeAssumption,
         NEW sec \in Int, NEW frac \in 0 .. Converging(s)!NSEC_PER_SEC - 1
  PROVE  /\ frac \div NSEC_PER_USEC \in 0 .. USEC_PER_SEC - 1
         /\ sec * USEC_PER_SEC + frac \div NSEC_PER_USEC
              = (sec * Converging(s)!NSEC_PER_SEC + frac) \div NSEC_PER_USEC
<1> DEFINE q == frac \div NSEC_PER_USEC
           r == frac % NSEC_PER_USEC
<1>1. NSEC_PER_USEC \in Nat \ {0} /\ USEC_PER_SEC \in Nat \ {0}
  BY DEF Converging!NtpConvergeAssumption
<1>2. Converging(s)!NSEC_PER_SEC = USEC_PER_SEC * NSEC_PER_USEC
  BY <1>1 DEF Converging!NSEC_PER_SEC
<1>3. Converging(s)!NSEC_PER_SEC \in Nat
  BY <1>1, <1>2
<1>4. frac \in Nat /\ frac < USEC_PER_SEC * NSEC_PER_USEC
  BY <1>2, <1>3
<1>5. q \in Int /\ r \in 0 .. NSEC_PER_USEC - 1 /\ frac = NSEC_PER_USEC * q + r
  BY <1>1, <1>4
<1> HIDE DEF q, r
<1>6. q >= 0
  <2> SUFFICES ASSUME q + 1 <= 0 PROVE FALSE
    BY <1>5
  <2>1. (q + 1) * NSEC_PER_USEC <= 0 * NSEC_PER_USEC
    BY <1>1, <1>5, Monotonic
  <2>2. (q + 1) * NSEC_PER_USEC = NSEC_PER_USEC * q + NSEC_PER_USEC
    BY <1>1, <1>5
  <2>3. NSEC_PER_USEC * q \in Int
    BY <1>1, <1>5
  <2> QED
    BY <1>1, <1>4, <1>5, <2>1, <2>2, <2>3
<1>7. q < USEC_PER_SEC
  <2> SUFFICES ASSUME USEC_PER_SEC <= q PROVE FALSE
    BY <1>1, <1>5
  <2>1. USEC_PER_SEC * NSEC_PER_USEC <= q * NSEC_PER_USEC
    BY <1>1, <1>5, Monotonic
  <2>2. q * NSEC_PER_USEC = NSEC_PER_USEC * q
    BY <1>1, <1>5
  <2>3. NSEC_PER_USEC * q \in Int /\ USEC_PER_SEC * NSEC_PER_USEC \in Int
    BY <1>1, <1>5
  <2> QED
    BY <1>1, <1>4, <1>5, <2>1, <2>2, <2>3
<1>8. sec * Converging(s)!NSEC_PER_SEC + frac = (sec * USEC_PER_SEC + q) * NSEC_PER_USEC + r
  <2>1. sec * (USEC_PER_SEC * NSEC_PER_USEC) = (sec * USEC_PER_SEC) * NSEC_PER_USEC
    BY <1>1
  <2>2. (sec * USEC_PER_SEC + q) * NSEC_PER_USEC
          = (sec * USEC_PER_SEC) * NSEC_PER_USEC + q * NSEC_PER_USEC
    BY <1>1, <1>5
  <2> QED
    BY <1>1, <1>2, <1>5, <2>1, <2>2
<1>9. ((sec * USEC_PER_SEC + q) * NSEC_PER_USEC + r) \div NSEC_PER_USEC = sec * USEC_PER_SEC + q
  BY <1>1, <1>5, Quotient
<1>10. q \in 0 .. USEC_PER_SEC - 1
  BY <1>1, <1>5, <1>6, <1>7
<1> QED
  BY <1>8, <1>9, <1>10 DEF q

\* timeval: the second part is never negative nor a whole second, so the kernel
\* takes it, and the two parts are the offset, rounded down to microseconds.
LEMMA TimevalIsOffset ==
  ASSUME NEW s, Converging(s)!NtpConvergeAssumption, NEW nsec \in Int
  PROVE  LET tv == Converging(s)!timeval(nsec)
         IN  /\ tv.tv_sec \in Int /\ tv.tv_usec \in 0 .. USEC_PER_SEC - 1
             /\ tv.tv_sec * USEC_PER_SEC + tv.tv_usec = nsec \div NSEC_PER_USEC
<1> DEFINE N == Converging(s)!NSEC_PER_SEC
           mag == IF nsec < 0 THEN -nsec ELSE nsec
           sec == mag \div N
           frac == mag % N
           tv == Converging(s)!timeval(nsec)
<1>1. NSEC_PER_USEC \in Nat \ {0} /\ USEC_PER_SEC \in Nat \ {0}
  BY DEF Converging!NtpConvergeAssumption
<1>2. N \in Nat \ {0}
  <2>1. 1 * NSEC_PER_USEC <= USEC_PER_SEC * NSEC_PER_USEC
    BY <1>1, Monotonic
  <2>2. N = USEC_PER_SEC * NSEC_PER_USEC /\ 1 * NSEC_PER_USEC = NSEC_PER_USEC
    BY <1>1 DEF Converging!NSEC_PER_SEC
  <2>3. N \in Int
    BY <1>1 DEF Converging!NSEC_PER_SEC
  <2> QED
    BY <1>1, <2>1, <2>2, <2>3
<1> HIDE DEF N
<1>3. mag \in Nat
  OBVIOUS
<1>4. sec \in Int /\ frac \in 0 .. N - 1 /\ mag = N * sec + frac
  BY <1>2, <1>3
<1>5. /\ tv.tv_sec = (IF nsec < 0 THEN -sec ELSE sec) - (IF nsec < 0 /\ frac # 0 THEN 1 ELSE 0)
      /\ tv.tv_usec = (IF nsec < 0 /\ frac # 0 THEN N - frac ELSE frac) \div NSEC_PER_USEC
  BY DEF Converging!timeval, N
<1> HIDE DEF sec, frac, tv
<1> DEFINE rest == IF nsec < 0 /\ frac # 0 THEN N - frac ELSE frac
<1>6. tv.tv_sec \in Int /\ rest \in 0 .. N - 1
  BY <1>2, <1>4, <1>5
<1>7. nsec = tv.tv_sec * N + rest
  <2>1. N * sec \in Int /\ (-sec) * N = -(N * sec) /\ sec * N = N * sec
    BY <1>2, <1>4
  <2>2. (-sec - 1) * N = (-sec) * N - N
    BY <1>2, <1>4
  <2>3. CASE nsec >= 0
    BY <1>4, <1>5, <2>1, <2>3
  <2>4. CASE nsec < 0 /\ frac = 0
    BY <1>4, <1>5, <2>1, <2>4
  <2>5. CASE nsec < 0 /\ frac # 0
    <3>1. tv.tv_sec = -sec - 1 /\ rest = N - frac
      BY <1>4, <1>5, <2>5
    <3>2. nsec = -(N * sec) - frac
      BY <1>4, <2>1, <2>5
    <3> QED
      BY <1>2, <1>4, <2>1, <2>2, <3>1, <3>2
  <2> QED
    BY <2>3, <2>4, <2>5
<1>8. tv.tv_usec = rest \div NSEC_PER_USEC
  BY <1>5
<1> HIDE DEF rest
<1>9. /\ rest \div NSEC_PER_USEC \in 0 .. USEC_PER_SEC - 1
      /\ tv.tv_sec * USEC_PER_SEC + rest \div NSEC_PER_USEC = (tv.tv_sec * N + rest) \div NSEC_PER_USEC
  BY <1>6, Normalised DEF N
<1> QED
  BY <1>6, <1>7, <1>8, <1>9 DEF tv

\* The offset in microseconds, and the clock once it is in.
Given == offset \div NSEC_PER_USEC

\* Who is where when, whatever fails.
CourseInv ==
  /\ pc \in {"kill", "offset", "freq", "status", "ntpdate", "inject", "conf", "ntpd"}
       => ntpd = "none" /\ began = {}
  /\ pc \in {"kill", "offset", "freq", "status", "ntpdate", "inject", "conf", "ntpd", "driftlog"}
       => driftlog = "none"
  /\ ntpd = "killed" => pc \in {"cleanup", "exit"}
  /\ pc \in {"killagain", "cleanup", "exit"} => driftlog # "running"
  /\ pc = "wait" => \/ pid = 1 /\ driftlog # "none"
                    \/ pid = -1 /\ driftlog = "none"

\* What is left for our ntpd to find.
ReadyInv(s) ==
  /\ old => pc \in {"kill", "exit"} /\ ntpd = "none"
  /\ ntp.slew => ntp.pll
  /\ pc \in {"freq", "status"} => ~ntp.slew
  /\ pc = "status" => ~ntp.freq
  /\ pc \in {"ntpdate", "inject", "conf", "ntpd"} \/ ntpd = "forked" => ntp = Converging(s)!Clear
  /\ pc = "inject" => err = base
  /\ pc \in {"conf", "ntpd"} \/ ntpd = "forked" => err = base + Given
  /\ pc \in {"ntpd", "driftlog", "wait", "killagain", "cleanup"} => conf = "ours" /\ drift = "empty"

\* A logger that does not end at once ends after ntpd has come up.
InTimeInv(s) ==
  /\ driftlog = "over" => ntpd # "forked"
  /\ pc \in {"killagain", "cleanup", "exit"} => ntpd # "forked"
  /\ Converging(s)!StartsFromOffset

\* Without a fork that fails there is an ntpd, and it is killed.
CompleteInv(s) ==
  /\ pc \in {"driftlog", "wait", "killagain"} => ntpd # "none"
  /\ pc = "wait" => pid = 1
  /\ pc = "cleanup" => ntpd = "killed"
  /\ Converging(s)!NothingIsLeft

ConvergingInv(s) ==
  /\ Converging(s)!TypeOK /\ CourseInv /\ ReadyInv(s)
  /\ s \notin DriftlogMayFail => InTimeInv(s)
  /\ s \notin DriftlogMayFail /\ s \notin ForkFails => CompleteInv(s)

\* The invariant of ntp-converge holds at the start ...
LEMMA ConvergingStarts ==
  ASSUME NEW s, Converging(s)!NtpConvergeAssumption
  PROVE  Converging(s)!Init => ConvergingInv(s)
<1> SUFFICES ASSUME Converging(s)!Init PROVE ConvergingInv(s)
  OBVIOUS
<1>1. err \in Int /\ offset \in Offsets /\ ntp \in Converging(s)!Ntp /\ (ntp.slew => ntp.pll)
  BY DEF Converging!Init, Converging!NtpConvergeAssumption
<1>2. /\ old \in BOOLEAN /\ ntpd = "none" /\ driftlog = "none" /\ conf \in {"none", "old"}
      /\ drift \in {"none", "old"} /\ pc = "kill" /\ pid = 0 /\ exitcode = 0 /\ base = 0
      /\ began = {}
  BY DEF Converging!Init
<1>3. Converging(s)!TypeOK
  BY <1>1, <1>2 DEF Converging!TypeOK
<1>4. CourseInv /\ ReadyInv(s)
  BY <1>1, <1>2 DEF CourseInv, ReadyInv
<1>5. InTimeInv(s) /\ CompleteInv(s)
  BY <1>2 DEF InTimeInv, CompleteInv, Converging!StartsFromOffset, Converging!NothingIsLeft
<1> QED
  BY <1>3, <1>4, <1>5 DEF ConvergingInv

LEMMA ConvergingSteps ==
  ASSUME NEW s, Converging(s)!NtpConvergeAssumption
  PROVE  ConvergingInv(s) /\ [Converging(s)!Next]_(Converging(s)!vars) => ConvergingInv(s)'
<1> SUFFICES ASSUME ConvergingInv(s), [Converging(s)!Next]_(Converging(s)!vars)
             PROVE  ConvergingInv(s)'
  OBVIOUS
<1> USE DEF Converging!Goto, Converging!ours
<1>a. Converging(s)!TypeOK /\ CourseInv /\ ReadyInv(s)
  BY DEF ConvergingInv
<1>b. /\ s \notin DriftlogMayFail => InTimeInv(s)
      /\ s \notin DriftlogMayFail /\ s \notin ForkFails => CompleteInv(s)
  BY DEF ConvergingInv
<1>q. ASSUME Converging(s)!TypeOK', CourseInv', ReadyInv(s)',
             s \notin DriftlogMayFail => InTimeInv(s)',
             s \notin DriftlogMayFail /\ s \notin ForkFails => CompleteInv(s)'
      PROVE  ConvergingInv(s)'
  BY <1>q DEF ConvergingInv
<1>1. CASE Converging(s)!OldNtpd
  <2>1. /\ old /\ ntp' \in Converging(s)!Ntp /\ ntp'.pll
        /\ UNCHANGED <<err, old, ntpd, driftlog, conf, drift, pid, exitcode, pc, offset, base, began>>
    BY <1>1 DEF Converging!OldNtpd
  <2>2. pc \in {"kill", "exit"} /\ ntpd # "forked"
    BY <1>a, <2>1 DEF ReadyInv, CourseInv
  <2>3. Converging(s)!TypeOK' /\ CourseInv'
    BY <1>a, <2>1 DEF Converging!TypeOK, CourseInv
  <2>4. ReadyInv(s)'
    BY <1>a, <2>1, <2>2 DEF ReadyInv, Given
  <2>5. (InTimeInv(s) => InTimeInv(s)') /\ (CompleteInv(s) => CompleteInv(s)')
    BY <2>1 DEF InTimeInv, CompleteInv, Converging!StartsFromOffset, Converging!NothingIsLeft
  <2> QED
    BY <1>b, <1>q, <2>3, <2>4, <2>5
<1>2. CASE Converging(s)!NtpdStarts
  <2>1. /\ ntpd = "forked" /\ ntpd' = "running"
        /\ began' = {[conf |-> conf, drift |-> drift, err |-> err, ntp |-> ntp]}
        /\ UNCHANGED <<err, ntp, old, driftlog, conf, drift, pc, offset, pid, exitcode, base>>
    BY <1>2 DEF Converging!NtpdStarts
  <2>2. Converging(s)!TypeOK'
    BY <1>a, <2>1 DEF Converging!TypeOK
  <2>3. CourseInv'
    BY <1>a, <2>1 DEF CourseInv, Converging!TypeOK
  <2>4. ReadyInv(s)'
    BY <1>a, <2>1 DEF ReadyInv, CourseInv, Converging!TypeOK, Given
  <2>5. s \notin DriftlogMayFail => InTimeInv(s)'
    BY <1>a, <1>b, <2>1 DEF InTimeInv, CourseInv, Converging!TypeOK, Converging!StartsFromOffset, ReadyInv, Given
  <2>6. s \notin DriftlogMayFail /\ s \notin ForkFails => CompleteInv(s)'
    BY <1>a, <1>b, <2>1 DEF CompleteInv, CourseInv, Converging!TypeOK, Converging!NothingIsLeft, InTimeInv
  <2> QED
    BY <1>q, <2>2, <2>3, <2>4, <2>5, <2>6
<1>3. CASE Converging(s)!Discipline
  <2>1. /\ ntpd = "running" /\ err' = 0
        /\ ntp' \in Converging(s)!Ntp /\ ntp'.pll
        /\ UNCHANGED <<old, ntpd, driftlog, conf, drift, pc, offset, pid, exitcode, base, began>>
    BY <1>3 DEF Converging!Discipline
  <2>2. Converging(s)!TypeOK'
    BY <1>a, <2>1 DEF Converging!TypeOK
  <2>3. CourseInv'
    BY <1>a, <2>1 DEF CourseInv, Converging!TypeOK
  <2>4. ReadyInv(s)'
    BY <1>a, <2>1 , <1>a DEF ReadyInv, CourseInv, Converging!TypeOK, Given
  <2>5. s \notin DriftlogMayFail => InTimeInv(s)'
    BY <1>a, <1>b, <2>1 DEF InTimeInv, CourseInv, Converging!TypeOK, Converging!StartsFromOffset
  <2>6. s \notin DriftlogMayFail /\ s \notin ForkFails => CompleteInv(s)'
    BY <1>a, <1>b, <2>1 DEF CompleteInv, CourseInv, Converging!TypeOK, Converging!NothingIsLeft
  <2> QED
    BY <1>q, <2>2, <2>3, <2>4, <2>5, <2>6
<1>4. CASE Converging(s)!DriftlogEnds
  <2>1. /\ driftlog = "running" /\ driftlog' = "over"
        /\ s \in DriftlogMayFail \/ ntpd \in {"none", "running"}
        /\ UNCHANGED <<err, ntp, old, ntpd, conf, drift, pc, offset, pid, exitcode, base, began>>
    BY <1>4 DEF Converging!DriftlogEnds
  <2>2. Converging(s)!TypeOK'
    BY <1>a, <2>1 DEF Converging!TypeOK
  <2>3. CourseInv'
    BY <1>a, <2>1 DEF CourseInv, Converging!TypeOK
  <2>4. ReadyInv(s)'
    BY <1>a, <2>1 DEF ReadyInv, CourseInv, Converging!TypeOK, Given
  <2>5. s \notin DriftlogMayFail => InTimeInv(s)'
    BY <1>a, <1>b, <2>1 DEF InTimeInv, CourseInv, Converging!TypeOK, Converging!StartsFromOffset
  <2>6. s \notin DriftlogMayFail /\ s \notin ForkFails => CompleteInv(s)'
    BY <1>a, <1>b, <2>1 DEF CompleteInv, CourseInv, Converging!TypeOK, Converging!NothingIsLeft
  <2> QED
    BY <1>q, <2>2, <2>3, <2>4, <2>5, <2>6
<1>5. CASE Converging(s)!CheckRoot
  <2>1. /\ pc = "kill" /\ pc' = "exit" /\ exitcode' = 255
        /\ UNCHANGED <<err, ntp, old, ntpd, driftlog, conf, drift, offset, pid, base, began>>
    BY <1>5 DEF Converging!CheckRoot
  <2>2. Converging(s)!TypeOK'
    BY <1>a, <2>1 DEF Converging!TypeOK
  <2>3. CourseInv'
    BY <1>a, <2>1 DEF CourseInv, Converging!TypeOK
  <2>4. ReadyInv(s)'
    BY <1>a, <2>1 DEF ReadyInv, CourseInv, Converging!TypeOK, Given
  <2>5. s \notin DriftlogMayFail => InTimeInv(s)'
    BY <1>a, <1>b, <2>1 DEF InTimeInv, CourseInv, Converging!TypeOK, Converging!StartsFromOffset
  <2>6. s \notin DriftlogMayFail /\ s \notin ForkFails => CompleteInv(s)'
    BY <1>a, <1>b, <2>1 DEF CompleteInv, CourseInv, Converging!TypeOK, Converging!NothingIsLeft
  <2> QED
    BY <1>q, <2>2, <2>3, <2>4, <2>5, <2>6
<1>6. CASE Converging(s)!KillNtpd
  <2>1. /\ pc = "kill" /\ pc' = "offset" /\ old' = FALSE
        /\ UNCHANGED <<err, ntp, ntpd, driftlog, conf, drift, offset, pid, exitcode, base, began>>
    BY <1>6 DEF Converging!KillNtpd
  <2>0. old' \in BOOLEAN
    BY <2>1
  <2>2. Converging(s)!TypeOK'
    BY <1>a, <2>1, <2>0 DEF Converging!TypeOK
  <2>3. CourseInv'
    BY <1>a, <2>1 DEF CourseInv, Converging!TypeOK
  <2>4. ReadyInv(s)'
    BY <1>a, <2>1, <2>0 DEF ReadyInv, CourseInv, Converging!TypeOK, Given
  <2>5. s \notin DriftlogMayFail => InTimeInv(s)'
    BY <1>a, <1>b, <2>1 DEF InTimeInv, CourseInv, Converging!TypeOK, Converging!StartsFromOffset
  <2>6. s \notin DriftlogMayFail /\ s \notin ForkFails => CompleteInv(s)'
    BY <1>a, <1>b, <2>1 DEF CompleteInv, CourseInv, Converging!TypeOK, Converging!NothingIsLeft
  <2> QED
    BY <1>q, <2>2, <2>3, <2>4, <2>5, <2>6
<1>7. CASE Converging(s)!clear_ntp_state
  <2>1. /\ \/ pc = "offset" /\ pc' = "freq" /\ ntp' = [ntp EXCEPT !.slew = @ /\ ~ntp.pll]
           \/ pc = "freq" /\ pc' = "status" /\ ntp' = [ntp EXCEPT !.freq = FALSE]
           \/ pc = "status" /\ pc' = "ntpdate" /\ ntp' = [ntp EXCEPT !.pll = FALSE]
        /\ UNCHANGED <<err, old, ntpd, driftlog, conf, drift, offset, pid, exitcode, base, began>>
    BY <1>7 DEF Converging!clear_ntp_state
  <2>0. /\ ntp' \in Converging(s)!Ntp
        /\ ntp'.slew => ntp'.pll
        /\ pc' \in {"freq", "status"} => ~ntp'.slew
        /\ pc' = "status" => ~ntp'.freq
        /\ pc' = "ntpdate" => ntp' = Converging(s)!Clear
    <3>1. /\ ntp \in Converging(s)!Ntp /\ (ntp.slew => ntp.pll)
          /\ pc \in {"freq", "status"} => ~ntp.slew
          /\ pc = "status" => ~ntp.freq
      BY <1>a DEF Converging!TypeOK, ReadyInv
    <3>2. CASE pc = "offset"
      BY <2>1, <3>1, <3>2 DEF Converging!Ntp
    <3>3. CASE pc = "freq"
      BY <2>1, <3>1, <3>3 DEF Converging!Ntp
    <3>4. CASE pc = "status"
      BY <2>1, <3>1, <3>4 DEF Converging!Ntp, Converging!Clear
    <3> QED
      BY <2>1, <3>2, <3>3, <3>4
  <2>2. Converging(s)!TypeOK'
    BY <1>a, <2>1, <2>0 DEF Converging!TypeOK
  <2>3. CourseInv'
    BY <1>a, <2>1 DEF CourseInv, Converging!TypeOK
  <2>4. ReadyInv(s)'
    BY <1>a, <2>1, <2>0 DEF ReadyInv, CourseInv, Converging!TypeOK, Given
  <2>5. s \notin DriftlogMayFail => InTimeInv(s)'
    BY <1>a, <1>b, <2>1 DEF InTimeInv, CourseInv, Converging!TypeOK, Converging!StartsFromOffset
  <2>6. s \notin DriftlogMayFail /\ s \notin ForkFails => CompleteInv(s)'
    BY <1>a, <1>b, <2>1 DEF CompleteInv, CourseInv, Converging!TypeOK, Converging!NothingIsLeft
  <2> QED
    BY <1>q, <2>2, <2>3, <2>4, <2>5, <2>6
<1>8. CASE Converging(s)!set_time
  <2>1. /\ pc = "ntpdate" /\ pc' = "inject"
        /\ err' \in {0, err} /\ base' = err'
        /\ UNCHANGED <<ntp, old, ntpd, driftlog, conf, drift, offset, pid, exitcode, began>>
    BY <1>8 DEF Converging!set_time
  <2>2. Converging(s)!TypeOK'
    BY <1>a, <2>1 DEF Converging!TypeOK
  <2>3. CourseInv'
    BY <1>a, <2>1 DEF CourseInv, Converging!TypeOK
  <2>4. ReadyInv(s)'
    BY <1>a, <2>1 DEF ReadyInv, CourseInv, Converging!TypeOK, Given
  <2>5. s \notin DriftlogMayFail => InTimeInv(s)'
    BY <1>a, <1>b, <2>1 DEF InTimeInv, CourseInv, Converging!TypeOK, Converging!StartsFromOffset
  <2>6. s \notin DriftlogMayFail /\ s \notin ForkFails => CompleteInv(s)'
    BY <1>a, <1>b, <2>1 DEF CompleteInv, CourseInv, Converging!TypeOK, Converging!NothingIsLeft
  <2> QED
    BY <1>q, <2>2, <2>3, <2>4, <2>5, <2>6
<1>9. CASE Converging(s)!set_fixed_offset
  <2>1. /\ pc = "inject" /\ pc' = "conf"
        /\ UNCHANGED <<ntp, old, ntpd, driftlog, conf, drift, offset, pid, exitcode, base, began>>
    BY <1>9 DEF Converging!set_fixed_offset
  <2>0. err' = base + Given /\ err' \in Int
    <3>1. offset \in Int /\ err \in Int /\ err = base
      BY <1>a, <2>1 DEF Converging!TypeOK, ReadyInv, Converging!NtpConvergeAssumption
    <3>2. Given \in Int
      BY <3>1 DEF Given, Converging!NtpConvergeAssumption
    <3>3. /\ Converging(s)!timeval(offset).tv_sec \in Int
          /\ Converging(s)!timeval(offset).tv_usec \in 0 .. USEC_PER_SEC - 1
          /\ Converging(s)!timeval(offset).tv_sec * USEC_PER_SEC
               + Converging(s)!timeval(offset).tv_usec = Given
      BY <3>1, TimevalIsOffset DEF Given
    <3>4. err' = err + Converging(s)!timeval(offset).tv_sec * USEC_PER_SEC
                 + Converging(s)!timeval(offset).tv_usec
      BY <1>9, <3>3 DEF Converging!set_fixed_offset
    <3>5. Converging(s)!timeval(offset).tv_sec * USEC_PER_SEC \in Int
      BY <3>3 DEF Converging!NtpConvergeAssumption
    <3> QED
      BY <3>1, <3>2, <3>3, <3>4, <3>5
  <2>2. Converging(s)!TypeOK'
    BY <1>a, <2>1, <2>0 DEF Converging!TypeOK
  <2>3. CourseInv'
    BY <1>a, <2>1 DEF CourseInv, Converging!TypeOK
  <2>4. ReadyInv(s)'
    BY <1>a, <2>1, <2>0 DEF ReadyInv, CourseInv, Converging!TypeOK, Given
  <2>5. s \notin DriftlogMayFail => InTimeInv(s)'
    BY <1>a, <1>b, <2>1 DEF InTimeInv, CourseInv, Converging!TypeOK, Converging!StartsFromOffset
  <2>6. s \notin DriftlogMayFail /\ s \notin ForkFails => CompleteInv(s)'
    BY <1>a, <1>b, <2>1 DEF CompleteInv, CourseInv, Converging!TypeOK, Converging!NothingIsLeft
  <2> QED
    BY <1>q, <2>2, <2>3, <2>4, <2>5, <2>6
<1>10. CASE Converging(s)!generate_ntp_conf
  <2>1. /\ pc = "conf"
        /\ \/ pc' = "ntpd" /\ conf' = "ours" /\ drift' = "empty" /\ exitcode' = exitcode
           \/ pc' = "exit" /\ exitcode' = 255 /\ UNCHANGED <<conf, drift>>
        /\ UNCHANGED <<err, ntp, old, ntpd, driftlog, offset, pid, base, began>>
    BY <1>10 DEF Converging!generate_ntp_conf
  <2>2. Converging(s)!TypeOK'
    BY <1>a, <2>1 DEF Converging!TypeOK
  <2>3. CourseInv'
    BY <1>a, <2>1 DEF CourseInv, Converging!TypeOK
  <2>4. ReadyInv(s)'
    BY <1>a, <2>1 DEF ReadyInv, CourseInv, Converging!TypeOK, Given
  <2>5. s \notin DriftlogMayFail => InTimeInv(s)'
    BY <1>a, <1>b, <2>1 DEF InTimeInv, CourseInv, Converging!TypeOK, Converging!StartsFromOffset
  <2>6. s \notin DriftlogMayFail /\ s \notin ForkFails => CompleteInv(s)'
    BY <1>a, <1>b, <2>1 DEF CompleteInv, CourseInv, Converging!TypeOK, Converging!NothingIsLeft
  <2> QED
    BY <1>q, <2>2, <2>3, <2>4, <2>5, <2>6
<1>11. CASE Converging(s)!run_ntpd
  <2>1. /\ pc = "ntpd" /\ pc' = "driftlog"
        /\ ntpd' = "forked" \/ (s \in ForkFails /\ ntpd' = ntpd)
        /\ UNCHANGED <<err, ntp, old, driftlog, conf, drift, offset, pid, exitcode, base, began>>
    BY <1>11 DEF Converging!run_ntpd
  <2>2. Converging(s)!TypeOK'
    BY <1>a, <2>1 DEF Converging!TypeOK
  <2>3. CourseInv'
    BY <1>a, <2>1 DEF CourseInv, Converging!TypeOK
  <2>4. ReadyInv(s)'
    BY <1>a, <2>1 DEF ReadyInv, CourseInv, Converging!TypeOK, Given
  <2>5. s \notin DriftlogMayFail => InTimeInv(s)'
    BY <1>a, <1>b, <2>1 DEF InTimeInv, CourseInv, Converging!TypeOK, Converging!StartsFromOffset
  <2>6. s \notin DriftlogMayFail /\ s \notin ForkFails => CompleteInv(s)'
    BY <1>a, <1>b, <2>1 DEF CompleteInv, CourseInv, Converging!TypeOK, Converging!NothingIsLeft
  <2> QED
    BY <1>q, <2>2, <2>3, <2>4, <2>5, <2>6
<1>12. CASE Converging(s)!run_driftlog
  <2>1. /\ pc = "driftlog" /\ pc' = "wait"
        /\ \/ driftlog' = "running" /\ pid' = 1
           \/ s \in ForkFails /\ driftlog' = driftlog /\ pid' = -1
        /\ UNCHANGED <<err, ntp, old, ntpd, conf, drift, offset, exitcode, base, began>>
    BY <1>12 DEF Converging!run_driftlog
  <2>2. Converging(s)!TypeOK'
    BY <1>a, <2>1 DEF Converging!TypeOK
  <2>3. CourseInv'
    BY <1>a, <2>1 DEF CourseInv, Converging!TypeOK
  <2>4. ReadyInv(s)'
    BY <1>a, <2>1 DEF ReadyInv, CourseInv, Converging!TypeOK, Given
  <2>5. s \notin DriftlogMayFail => InTimeInv(s)'
    BY <1>a, <1>b, <2>1 DEF InTimeInv, CourseInv, Converging!TypeOK, Converging!StartsFromOffset
  <2>6. s \notin DriftlogMayFail /\ s \notin ForkFails => CompleteInv(s)'
    BY <1>a, <1>b, <2>1 DEF CompleteInv, CourseInv, Converging!TypeOK, Converging!NothingIsLeft
  <2> QED
    BY <1>q, <2>2, <2>3, <2>4, <2>5, <2>6
<1>13. CASE Converging(s)!WaitPid
  <2>1. /\ pc = "wait" /\ pc' = "killagain"
        /\ (pid = -1 /\ ntpd \in {"none", "killed"}) \/ (pid # -1 /\ driftlog = "over")
        /\ UNCHANGED <<err, ntp, old, ntpd, driftlog, conf, drift, offset, pid, exitcode, base, began>>
    BY <1>13 DEF Converging!WaitPid
  <2>2. Converging(s)!TypeOK'
    BY <1>a, <2>1 DEF Converging!TypeOK
  <2>3. CourseInv'
    BY <1>a, <2>1 DEF CourseInv, Converging!TypeOK
  <2>4. ReadyInv(s)'
    BY <1>a, <2>1 DEF ReadyInv, CourseInv, Converging!TypeOK, Given
  <2>5. s \notin DriftlogMayFail => InTimeInv(s)'
    BY <1>a, <1>b, <2>1 DEF InTimeInv, CourseInv, Converging!TypeOK, Converging!StartsFromOffset
  <2>6. s \notin DriftlogMayFail /\ s \notin ForkFails => CompleteInv(s)'
    BY <1>a, <1>b, <2>1 DEF CompleteInv, CourseInv, Converging!TypeOK, Converging!NothingIsLeft
  <2> QED
    BY <1>q, <2>2, <2>3, <2>4, <2>5, <2>6
<1>14. CASE Converging(s)!KillAgain
  <2>1. /\ pc = "killagain" /\ pc' = "cleanup"
        /\ ntpd' = IF ntpd = "running" THEN "killed" ELSE ntpd
        /\ UNCHANGED <<err, ntp, old, driftlog, conf, drift, offset, pid, exitcode, base, began>>
    BY <1>14 DEF Converging!KillAgain
  <2>2. Converging(s)!TypeOK'
    BY <1>a, <2>1 DEF Converging!TypeOK
  <2>3. CourseInv'
    BY <1>a, <2>1 DEF CourseInv, Converging!TypeOK
  <2>4. ReadyInv(s)'
    BY <1>a, <2>1 DEF ReadyInv, CourseInv, Converging!TypeOK, Given
  <2>5. s \notin DriftlogMayFail => InTimeInv(s)'
    BY <1>a, <1>b, <2>1 DEF InTimeInv, CourseInv, Converging!TypeOK, Converging!StartsFromOffset
  <2>6. s \notin DriftlogMayFail /\ s \notin ForkFails => CompleteInv(s)'
    BY <1>a, <1>b, <2>1 DEF CompleteInv, CourseInv, Converging!TypeOK, Converging!NothingIsLeft, InTimeInv
  <2> QED
    BY <1>q, <2>2, <2>3, <2>4, <2>5, <2>6
<1>15. CASE Converging(s)!cleanup_conf
  <2>1. /\ pc = "cleanup" /\ pc' = "exit" /\ conf' = "none" /\ drift' = "none"
        /\ UNCHANGED <<err, ntp, old, ntpd, driftlog, offset, pid, exitcode, base, began>>
    BY <1>15 DEF Converging!cleanup_conf
  <2>2. Converging(s)!TypeOK'
    BY <1>a, <2>1 DEF Converging!TypeOK
  <2>3. CourseInv'
    BY <1>a, <2>1 DEF CourseInv, Converging!TypeOK
  <2>4. ReadyInv(s)'
    BY <1>a, <2>1 DEF ReadyInv, CourseInv, Converging!TypeOK, Given
  <2>5. s \notin DriftlogMayFail => InTimeInv(s)'
    BY <1>a, <1>b, <2>1 DEF InTimeInv, CourseInv, Converging!TypeOK, Converging!StartsFromOffset
  <2>6. s \notin DriftlogMayFail /\ s \notin ForkFails => CompleteInv(s)'
    BY <1>a, <1>b, <2>1 DEF CompleteInv, CourseInv, Converging!TypeOK, Converging!NothingIsLeft
  <2> QED
    BY <1>q, <2>2, <2>3, <2>4, <2>5, <2>6
<1>16. CASE UNCHANGED Converging(s)!vars
  BY <1>16, <1>a, <1>b DEF Converging!vars, ConvergingInv, Converging!TypeOK, CourseInv, ReadyInv,
     InTimeInv, CompleteInv, Converging!StartsFromOffset, Converging!NothingIsLeft, Given
<1> QED
  BY <1>1, <1>2, <1>3, <1>4, <1>5, <1>6, <1>7, <1>8, <1>9, <1>10, <1>11, <1>12, <1>13, <1>14,
     <1>15, <1>16 DEF Converging!Next, Converging!Main

\* Types, for every offset, and every number of nanoseconds in a microsecond and
\* of microseconds in a second.
THEOREM ConvergingTypes ==
  ASSUME NEW s, Converging(s)!NtpConvergeAssumption
  PROVE  Converging(s)!Spec => []Converging(s)!TypeOK
<1>1. ConvergingInv(s) => Converging(s)!TypeOK
  BY DEF ConvergingInv
<1> QED
  BY <1>1, ConvergingStarts, ConvergingSteps, PTL DEF Converging!Spec

\* ntpd finds its own files, nothing of the ntpd before and exactly the offset
\* asked for, if the logger does not end before ntpd is up.
THEOREM ConvergingStartsFromOffset ==
  ASSUME NEW s, Converging(s)!NtpConvergeAssumption, s \notin DriftlogMayFail
  PROVE  Converging(s)!Spec => []Converging(s)!StartsFromOffset
<1>1. ConvergingInv(s) => Converging(s)!StartsFromOffset
  BY DEF ConvergingInv, InTimeInv
<1> QED
  BY <1>1, ConvergingStarts, ConvergingSteps, PTL DEF Converging!Spec

\* ntpd is not killed under the logger, whichever fork fails.
THEOREM ConvergingLoggedToTheEnd ==
  ASSUME NEW s, Converging(s)!NtpConvergeAssumption
  PROVE  Converging(s)!Spec => []Converging(s)!LoggedToTheEnd
<1>1. ConvergingInv(s) => Converging(s)!LoggedToTheEnd
  BY DEF ConvergingInv, CourseInv, Converging!LoggedToTheEnd
<1> QED
  BY <1>1, ConvergingStarts, ConvergingSteps, PTL DEF Converging!Spec

\* After a complete test there is neither an ntpd nor a file of it, if the forks
\* succeed and the logger does not end before ntpd is up.
THEOREM ConvergingLeavesNothing ==
  ASSUME NEW s, Converging(s)!NtpConvergeAssumption, s \notin DriftlogMayFail, s \notin ForkFails
  PROVE  Converging(s)!Spec => []Converging(s)!NothingIsLeft
<1>1. ConvergingInv(s) => Converging(s)!NothingIsLeft
  BY DEF ConvergingInv, CompleteInv
<1> QED
  BY <1>1, ConvergingStarts, ConvergingSteps, PTL DEF Converging!Spec

-------------------------------------------------------------------------------
(* adjtick: the only way to the end that changes anything is Reset, and an   *)
(* ntpd that comes later is not the program's.  What is found on the way is  *)
(* the rate that the tick, the fault and an ntpd make, for all of them and   *)
(* all delays.                                                             *)

\* The property is an invariant itself.
LEMMA TickingSteps ==
  Ticking!ThingsAreSetBack /\ [Ticking!Next]_(Ticking!vars) => Ticking!ThingsAreSetBack'
<1> SUFFICES ASSUME Ticking!ThingsAreSetBack, [Ticking!Next]_(Ticking!vars)
             PROVE  Ticking!ThingsAreSetBack'
  OBVIOUS
<1> USE DEF Ticking!ThingsAreSetBack, Ticking!Goto
<1>1. CASE Ticking!Start
  BY <1>1 DEF Ticking!Start, Ticking!kernelVars
<1>2. CASE Ticking!SetTick
  BY <1>2 DEF Ticking!SetTick
<1>3. CASE Ticking!Ntpd
  BY <1>3 DEF Ticking!Ntpd
<1>4. CASE Ticking!First \/ Ticking!Sleep \/ Ticking!Second
  BY <1>4 DEF Ticking!First, Ticking!Sleep, Ticking!Second
<1>5. CASE Ticking!Check
  BY <1>5 DEF Ticking!Check
<1>6. CASE Ticking!Reset
  BY <1>6 DEF Ticking!Reset
<1>7. CASE UNCHANGED Ticking!vars
  BY <1>7 DEF Ticking!vars, Ticking!kernelVars
<1> QED
  BY <1>1, <1>2, <1>3, <1>4, <1>5, <1>6, <1>7 DEF Ticking!Next

LEMMA TickingStarts == Ticking!Init => Ticking!ThingsAreSetBack
BY DEF Ticking!Init, Ticking!ThingsAreSetBack

\* However it ends, the tick is the nominal one, and frequency and offset are 0.
THEOREM TickingSetsBack == Ticking!Spec => []Ticking!ThingsAreSetBack
<1> QED
  BY TickingStarts, TickingSteps, PTL DEF Ticking!Spec

\* What adjtick finds is a quotient of products, which are told with an operator, so
\* that the provers see sums only.
Product(a, b) == a * b

\* Division rounds down, and so do the products of its result.
LEMMA Division ==
  ASSUME NEW a \in Int, NEW b \in Int, b > 0
  PROVE  /\ a \div b \in Int
         /\ Product(b, a \div b) \in Int
         /\ Product(b, a \div b) <= a /\ a < Product(b, a \div b) + b
BY DEF Product

\* A factor that is larger makes a product larger.
LEMMA ProductOrder ==
  ASSUME NEW a \in Int, NEW b \in Int, NEW c \in Int, a > 0, b <= c
  PROVE  Product(a, b) <= Product(a, c)
<1>1. a * (c - b) >= 0 /\ a * (c - b) = a * c - a * b /\ a * c \in Int /\ a * b \in Int
  OBVIOUS
<1> QED
  BY <1>1 DEF Product

\* A share, rounded: what is divided is less than the divisor more than the product.
LEMMA Share ==
  ASSUME NEW R \in Int, NEW t \in Nat, NEW m \in Int, m > 0
  PROVE  LET b == (Ticking!llabs(R) * t) \div m
         IN  /\ b \in Int /\ Product(m, b) \in Int /\ Product(R, t) \in Int
             /\ Product(R, t) < Product(m, b) + m /\ -Product(R, t) < Product(m, b) + m
<1> DEFINE a == Ticking!llabs(R) * t
<1>1. R * t \in Int /\ (-R) * t = -(R * t) /\ (R >= 0 => R * t >= 0) /\ (R < 0 => (-R) * t >= 0)
  OBVIOUS
<1>2. a \in Int /\ R * t <= a /\ -(R * t) <= a
  BY <1>1 DEF Ticking!llabs
<1> HIDE DEF a
<1>3. a \div m \in Int /\ Product(m, a \div m) \in Int /\ a < Product(m, a \div m) + m
  BY <1>2, Division
<1>4. R * t < Product(m, a \div m) + m /\ -(R * t) < Product(m, a \div m) + m
  BY ONLY <1>1, <1>2, <1>3, m \in Int
<1> QED
  BY <1>1, <1>3, <1>4 DEF a, Product

\* The estimate.  In the time S that is slept the clock gains g, at a rate R; what is
\* seen in a time m of the other clock is off by e, that is by half the windows W.
LEMMA TickEstimate ==
  ASSUME NEW S \in Int, NEW M \in Int, NEW R \in Int, NEW g \in Int, NEW m \in Int,
         NEW e \in Int, NEW W \in Nat,
         M > 0, 2 * M <= S, S <= m, g = (S * R) \div M, 2 * e <= W + 1, -2 * e <= W + 1
  PROVE  Ticking!llabs((((m + g + e) * M) \div m - M) - R) <=
           (W * M) \div (2 * m) + (Ticking!llabs(R) * (m - S)) \div m + 3
<1> DEFINE d == m + g + e
           q == (d * M) \div m
           f == (W * M) \div (2 * m)
           b == (Ticking!llabs(R) * (m - S)) \div m
           E == q - M - R
<1>0. m > 0 /\ m - S \in Nat
  OBVIOUS
\* The divisions.
<1>1. q \in Int /\ Product(m, q) \in Int /\ Product(m, q) <= d * M /\ d * M < Product(m, q) + m
  <2>1. d * M \in Int
    OBVIOUS
  <2> HIDE DEF d
  <2> QED
    BY <1>0, <2>1, Division
<1>2. /\ f \in Int /\ Product(m, f) \in Int /\ Product(M, W) \in Int
      /\ Product(M, W) < 2 * Product(m, f) + 2 * m
  <2>1. W * M \in Int /\ 2 * m \in Int /\ 2 * m > 0
    OBVIOUS
  <2>2. f \in Int /\ W * M < Product(2 * m, f) + 2 * m
    BY <2>1, Division
  <2> HIDE DEF f
  <2>3. Product(2 * m, f) = 2 * Product(m, f) /\ W * M = Product(M, W)
    BY <2>2 DEF Product
  <2> QED
    BY <2>2, <2>3 DEF Product
<1>3. /\ b \in Int /\ Product(m, b) \in Int /\ Product(R, m - S) \in Int
      /\ Product(R, m - S) < Product(m, b) + m /\ -Product(R, m - S) < Product(m, b) + m
  BY <1>0, Share
<1>4. S * R \in Int /\ Product(M, g) \in Int /\ Product(M, g) <= S * R /\ S * R < Product(M, g) + M
  <2>1. S * R \in Int
    OBVIOUS
  <2> QED
    BY <2>1, Division
\* The windows.
<1>5. /\ 2 * Product(M, e) <= Product(M, W) + M /\ -2 * Product(M, e) <= Product(M, W) + M
      /\ Product(M, e) \in Int
  <2>0. 2 * e \in Int /\ -2 * e \in Int /\ W + 1 \in Int
    OBVIOUS
  <2>1. Product(M, 2 * e) <= Product(M, W + 1) /\ Product(M, -2 * e) <= Product(M, W + 1)
    BY <2>0, ProductOrder
  <2>2. /\ Product(M, 2 * e) = 2 * Product(M, e) /\ Product(M, -2 * e) = -2 * Product(M, e)
        /\ Product(M, W + 1) = Product(M, W) + M
    BY DEF Product
  <2> QED
    BY <2>1, <2>2 DEF Product
\* How they add up.
<1>6. d * M = Product(m, M) + Product(M, g) + Product(M, e)
  BY DEF Product
<1>7. S * R = Product(m, R) - Product(R, m - S)
  BY DEF Product
<1>8. E \in Int /\ Product(m, R) \in Int /\ Product(m, M) \in Int /\ d * M \in Int
  BY <1>1 DEF Product
<1> HIDE DEF d, q, f, b
<1>9. /\ Product(m, E) = Product(m, q) - Product(m, M) - Product(m, R)
      /\ Product(m, -E) = Product(m, M) + Product(m, R) - Product(m, q)
  BY <1>1 DEF Product
<1>10. Product(m, f + b + 4) = Product(m, f) + Product(m, b) + 4 * m
  BY <1>2, <1>3 DEF Product
<1>11. f + b + 4 \in Int /\ -E \in Int
  BY <1>2, <1>3, <1>8
<1>12. ~(f + b + 4 <= E)
  <2>1. f + b + 4 <= E => Product(m, f + b + 4) <= Product(m, E)
    BY <1>0, <1>8, <1>11, ProductOrder
  <2> HIDE DEF E
  <2> QED
    BY ONLY <2>1, <1>1, <1>2, <1>3, <1>4, <1>5, <1>6, <1>7, <1>8, <1>9, <1>10, m \in Int, M \in Int,
       S \in Int, M > 0, 2 * M <= S, S <= m
<1>13. ~(f + b + 4 <= -E)
  <2>1. f + b + 4 <= -E => Product(m, f + b + 4) <= Product(m, -E)
    BY <1>0, <1>8, <1>11, ProductOrder
  <2> HIDE DEF E
  <2> QED
    BY ONLY <2>1, <1>1, <1>2, <1>3, <1>4, <1>5, <1>6, <1>7, <1>8, <1>9, <1>10, m \in Int, M \in Int,
       S \in Int, M > 0, 2 * M <= S, S <= m
<1>14. Ticking!llabs(E) \in {E, -E}
  BY <1>8 DEF Ticking!llabs
<1> HIDE DEF E
<1>15. Ticking!llabs(E) <= f + b + 3
  BY ONLY <1>2, <1>3, <1>8, <1>12, <1>13, <1>14
<1> QED
  BY <1>15 DEF E, q, d, f, b

\* What the constants may be.
LEMMA TickConstants ==
  /\ MILLION \in Nat /\ MILLION > 0 /\ SYSTICK \in Nat /\ SYSTICK > 0 /\ TOLERANCE \in Nat
  /\ SLEEP \in Nat /\ 2 * MILLION <= SLEEP /\ Gaps \subseteq Nat /\ Faults \subseteq Int
  /\ NtpdFreqs \subseteq Int /\ Slews \subseteq Int
  /\ Ticking!max \in Nat /\ Ticking!max > 0 /\ Ticking!interval \in Nat /\ Ticking!interval > 0
  /\ \A t \in Int : Ticking!ppm(t) \in Int
<1>1. Ticking!AdjTickAssumption
  BY SetBackAssumption DEF SetBackAssumption
<1>2. /\ MILLION \in Nat /\ MILLION > 0 /\ SYSTICK \in Nat /\ SYSTICK > 0 /\ TOLERANCE \in Nat
      /\ SLEEP \in Nat /\ 2 * MILLION <= SLEEP /\ Gaps \subseteq Nat /\ Faults \subseteq Int
      /\ NtpdFreqs \subseteq Int /\ Slews \subseteq Int
      /\ Ticking!interval \in Nat /\ Ticking!interval > 0
  BY <1>1 DEF Ticking!AdjTickAssumption, Ticking!GapsAssumption
<1>3. Ticking!max \in Nat
  BY <1>2 DEF Ticking!max
<1>4. Ticking!max > 0
  BY <1>2, <1>3 DEF Ticking!interval
<1>5. ASSUME NEW t \in Int PROVE Ticking!ppm(t) \in Int
  <2>1. t * MILLION \in Int
    BY <1>2
  <2> QED
    BY <1>2, <2>1 DEF Ticking!ppm
<1> QED
  BY <1>2, <1>3, <1>4, <1>5

\* The two times of a pair are as far apart as its window may hide, and that of the raw
\* clock is between the call and its end.
Paired(p) ==
  /\ p.diff \in Nat /\ p.mon \in Nat /\ p.raw \in Nat /\ p.t \in Nat /\ p.raw <= p.t
  /\ 2 * (p.raw - p.mon) <= p.diff + 1 /\ -2 * (p.raw - p.mon) <= p.diff

LEMMA PairsArePaired == \A p \in Ticking!Pairs : Paired(p)
<1>1. \A round \in Ticking!Rounds : round[1] \in Nat /\ round[2] \in Nat
  BY TickConstants DEF Ticking!Rounds
<1>2. ASSUME NEW p, Paired(p), NEW round \in Ticking!Rounds PROVE Paired(Ticking!Better(p, round))
  <2> DEFINE x == round[1]
             y == round[2]
             newdiff == x + y
             mid == (2 * p.t + newdiff) \div 2
             new == [diff |-> newdiff, mon |-> mid, raw |-> p.t + x, t |-> p.t + newdiff]
             kept == [p EXCEPT !.t = @ + newdiff]
  <2>1. x \in Nat /\ y \in Nat /\ p.t \in Nat
    BY <1>1, <1>2 DEF Paired
  <2>2. Ticking!Better(p, round) \in {new, kept}
    BY DEF Ticking!Better
  <2>3. Paired(new)
    <3> DEFINE raw == p.t + x
               t == p.t + newdiff
    <3> HIDE DEF x, y
    <3>1. /\ newdiff \in Nat /\ mid \in Nat /\ raw \in Nat /\ t \in Nat /\ raw <= t
          /\ 2 * (raw - mid) <= newdiff + 1 /\ -2 * (raw - mid) <= newdiff
      BY <2>1
    <3>2. new.diff = newdiff /\ new.mon = mid /\ new.raw = raw /\ new.t = t
      OBVIOUS
    <3> HIDE DEF newdiff, mid, raw, t, new
    <3> QED
      BY <3>1, <3>2 DEF Paired
  <2>4. Paired(kept)
    <3> HIDE DEF x, y
    <3>1. newdiff \in Nat
      BY <2>1
    <3>2. /\ kept.diff = p.diff /\ kept.mon = p.mon /\ kept.raw = p.raw
      OBVIOUS
    <3>3. kept.t \in Nat /\ p.raw <= kept.t
      <4>1. kept.t = p.t + newdiff \/ kept.t = p.t
        OBVIOUS
      <4> HIDE DEF kept, newdiff
      <4> QED
        BY <1>2, <3>1, <4>1 DEF Paired
    <3> HIDE DEF kept
    <3> QED
      BY <1>2, <3>2, <3>3 DEF Paired
  <2> QED
    BY <2>2, <2>3, <2>4
<1>3. Paired(Ticking!None)
  BY DEF Ticking!None, Paired
<1> QED
  BY <1>2, <1>3 DEF Ticking!Pairs, Ticking!Chosen

\* How far a reading's two times are apart when the one clock has gained so much.
Apart(r, gained) ==
  /\ r.mon \in Int /\ r.raw \in Int /\ r.window \in Nat
  /\ 2 * (r.raw - r.mon + gained) <= r.window + 1 /\ -2 * (r.raw - r.mon + gained) <= r.window

LEMMA ReadingIsApart ==
  ASSUME NEW p \in Ticking!Pairs, clock \in Int, gain \in Int
  PROVE  /\ Apart(Ticking!Reading(p), gain)
         /\ clock - gain <= Ticking!Reading(p).raw
         /\ Ticking!Reading(p).raw <= clock + p.t - gain
         /\ p.t \in Nat
<1>1. Paired(p)
  BY PairsArePaired
<1>2. /\ Ticking!Reading(p).mon = clock + p.mon /\ Ticking!Reading(p).raw = clock - gain + p.raw
      /\ Ticking!Reading(p).window = p.diff
  BY DEF Ticking!Reading
<1> QED
  BY <1>1, <1>2 DEF Paired, Apart

\* The rate that a tick, the fault and an ntpd made, and what it gained in the sleep.
TickRate(t) == Ticking!ppm(t) + fault + moved
TickGain(t) == (SLEEP * TickRate(t)) \div MILLION

\* Nobody but the program has changed anything since the tick was set.
Alone == privileged /\ ~disturbed

Measured == {"first", "sleep", "second", "check"}

TickTypes ==
  /\ pc \in {"start", "tick", "reset", "exit"} \cup Measured
  /\ tx_tick \in Int /\ freq \in Int /\ tx_offset \in Int /\ moved \in Int /\ fault \in Faults
  /\ clock \in Int /\ gain \in Int
  /\ privileged \in BOOLEAN /\ disturbed \in BOOLEAN /\ tick \in Int
  /\ pc \notin {"reset", "exit"} => exitcode = 0

\* What tick, frequency and offset are while they are measured.  Without a privilege the
\* first tick is never in effect.
EffectInv ==
  /\ pc \in Measured /\ privileged => tx_tick = tick
  /\ pc \in Measured /\ Alone => freq = 0 /\ tx_offset = 0
  /\ pc \in {"second", "check"} /\ Alone => moved = 0
  /\ pc \in {"start", "tick"} \cup Measured /\ ~privileged =>
       tick = SYSTICK - Ticking!max /\ tx_tick \in {SYSTICK, SYSTICK + Ticking!max}
  /\ pc \in {"reset", "exit"} /\ exitcode = 0 => privileged

\* What the readings are worth.
ReadingInv ==
  /\ pc \in {"first", "sleep"} => gain = 0
  /\ pc \in {"sleep", "second", "check"} => Apart(first, 0)
  /\ pc = "sleep" => first.raw <= clock
  /\ pc = "second" => first.raw + SLEEP <= clock - gain
  /\ pc \in {"second", "check"} /\ privileged => gain = TickGain(tick)
  /\ pc = "check" => Apart(second, gain) /\ first.raw + SLEEP <= second.raw

\* The ticks that are behind the loop.
TicksTestedInv ==
  /\ (tick - (SYSTICK - Ticking!max)) % Ticking!interval = 0
  /\ \A t \in SYSTICK - Ticking!max .. tick - 1 :
       (t - SYSTICK + Ticking!max) % Ticking!interval = 0 => <<t, 0, 0>> \in tested
  /\ pc \in {"reset", "exit"} /\ exitcode = 0 => tick >= SYSTICK + Ticking!max

\* What follows from the last verdict.
JudgedInv ==
  pc \in {"reset", "exit"} =>
    /\ exitcode = 1 /\ Alone /\ fault = 0 => Ticking!Off(Ticking!ppm(tick)) > TOLERANCE
    /\ exitcode = 0 =>
         Ticking!llabs(fault + moved) <=
           TOLERANCE + Ticking!Off(TickRate(tick - Ticking!interval))

TickInv == TickTypes /\ EffectInv /\ ReadingInv /\ TicksTestedInv /\ JudgedInv

LEMMA TickStarts == Ticking!Init => TickInv
<1> SUFFICES ASSUME Ticking!Init PROVE TickInv
  OBVIOUS
<1>1. /\ tx_tick \in {SYSTICK, SYSTICK + Ticking!max} /\ freq \in NtpdFreqs /\ fault \in Faults
      /\ tx_offset \in Slews /\ moved = 0 /\ privileged \in BOOLEAN /\ clock = 0 /\ gain = 0
      /\ pc = "start" /\ exitcode = 0
      /\ tick = SYSTICK - Ticking!max /\ disturbed = FALSE
  BY DEF Ticking!Init
<1>2. SYSTICK + Ticking!max \in Int /\ SYSTICK - Ticking!max \in Int /\ SYSTICK \in Int
  BY TickConstants
<1>3. TickTypes
  <2>1. /\ tx_tick \in Int /\ freq \in Int /\ tx_offset \in Int /\ moved \in Int
        /\ clock \in Int /\ gain \in Int /\ tick \in Int
    BY <1>1, <1>2, TickConstants
  <2> QED
    BY <1>1, <2>1, Zenon DEF TickTypes
<1>4. EffectInv /\ ReadingInv /\ JudgedInv
  BY <1>1 DEF EffectInv, ReadingInv, JudgedInv, Measured, Alone
<1>5. TicksTestedInv
  <2>1. tick - (SYSTICK - Ticking!max) = 0
    BY <1>1, <1>2
  <2>2. 0 % Ticking!interval = 0
    BY TickConstants
  <2>3. (SYSTICK - Ticking!max) .. (tick - 1) = {}
    BY <1>1, <1>2
  <2> QED
    BY <1>1, <2>1, <2>2, <2>3 DEF TicksTestedInv
<1> QED
  BY <1>3, <1>4, <1>5 DEF TickInv

\* Two multiples that are less than the factor apart are the same.
LEMMA NextMultiple ==
  ASSUME NEW n \in Nat, n > 0, NEW x \in Int, NEW y \in Int, x % n = 0
  PROVE  /\ (x + n) % n = 0
         /\ y % n = 0 /\ x <= y /\ y < x + n => y = x
<1>1. x % n = x - Product(n, x \div n) /\ x \div n \in Int
  BY DEF Product
<1>2. y % n = y - Product(n, y \div n) /\ y \div n \in Int
  BY DEF Product
<1> DEFINE p == x \div n
           q == y \div n
<1>3. p \in Int /\ q \in Int /\ x = Product(n, p) /\ (y % n = 0 => y = Product(n, q))
  BY <1>1, <1>2 DEF Product
<1> HIDE DEF p, q
<1>4. x + n = n * (p + 1)
  BY <1>3 DEF Product
<1>5. (n * (p + 1)) % n = 0
  BY <1>3
<1>6. ASSUME y % n = 0, x <= y, y < x + n PROVE y = x
  <2>1. q >= p + 1 => Product(n, p + 1) <= Product(n, q)
    BY <1>3, ProductOrder
  <2>2. q <= p => Product(n, q) <= Product(n, p)
    BY <1>3, ProductOrder
  <2>3. Product(n, p + 1) = Product(n, p) + n
    BY <1>3 DEF Product
  <2>4. Product(n, p) \in Int /\ Product(n, q) \in Int
    BY <1>3 DEF Product
  <2> QED
    BY <1>3, <1>6, <2>1, <2>2, <2>3, <2>4
<1> QED
  BY <1>4, <1>5, <1>6

\* What the program has found is the rate that the tick, the fault and an ntpd made, but
\* for what the readings hide.
LEMMA TickRateIsFound ==
  ASSUME TickInv, pc = "check", privileged
  PROVE  /\ Ticking!llabs(Ticking!eppm - TickRate(tick)) <= Ticking!Off(TickRate(tick))
         /\ Ticking!eppm \in Int /\ Ticking!ppm(tick) \in Int /\ fault \in Int /\ moved \in Int
         /\ TickRate(tick) = Ticking!ppm(tick) + fault + moved
         /\ Ticking!Off(TickRate(tick)) \in Int
<1>1. /\ Apart(first, 0) /\ Apart(second, gain) /\ gain = TickGain(tick) /\ gain \in Int
      /\ first.raw + SLEEP <= second.raw /\ tick \in Int /\ fault \in Int /\ moved \in Int
  BY TickConstants DEF TickInv, TickTypes, ReadingInv
<1>2. /\ Ticking!ppm(tick) \in Int /\ MILLION \in Int /\ MILLION > 0 /\ SLEEP \in Int
      /\ 2 * MILLION <= SLEEP
  BY <1>1, TickConstants
<1>3. TickRate(tick) \in Int /\ TickRate(tick) = Ticking!ppm(tick) + fault + moved
  BY <1>1, <1>2 DEF TickRate
<1> DEFINE m == Ticking!span
           W == first.window + second.window
           e == second.mon - first.mon - m - gain
           R == TickRate(tick)
<1>4. /\ m \in Int /\ W \in Nat /\ e \in Int /\ SLEEP <= m /\ 2 * e <= W + 1 /\ -2 * e <= W + 1
      /\ second.mon - first.mon = m + gain + e
  <2>1. /\ first.mon \in Int /\ first.raw \in Int /\ first.window \in Nat
        /\ second.mon \in Int /\ second.raw \in Int /\ second.window \in Nat
        /\ 2 * (first.raw - first.mon) <= first.window + 1
        /\ -2 * (first.raw - first.mon) <= first.window
        /\ 2 * (second.raw - second.mon + gain) <= second.window + 1
        /\ -2 * (second.raw - second.mon + gain) <= second.window
    BY <1>1 DEF Apart
  <2>2. m = second.raw - first.raw
    BY DEF Ticking!span
  <2> HIDE DEF m
  <2> QED
    BY <1>1, <1>2, <2>1, <2>2
<1>5. Ticking!eppm = ((m + gain + e) * MILLION) \div m - MILLION
  BY <1>4 DEF Ticking!eppm, Ticking!span
<1>6. Ticking!Off(R) =
        (W * MILLION) \div (2 * m) + 2 + (Ticking!llabs(R) * (m - SLEEP)) \div m + 1
  BY DEF Ticking!Off, Ticking!Uncertainty
<1>7. gain = (SLEEP * R) \div MILLION
  BY <1>1 DEF TickGain
<1> HIDE DEF m, W, e, R
<1>8. R \in Int
  BY <1>3 DEF R
<1>9. Ticking!llabs((((m + gain + e) * MILLION) \div m - MILLION) - R) <=
        (W * MILLION) \div (2 * m) + (Ticking!llabs(R) * (m - SLEEP)) \div m + 3
  BY <1>1, <1>2, <1>4, <1>7, <1>8, TickEstimate
<1>10. /\ ((m + gain + e) * MILLION) \div m \in Int
       /\ (W * MILLION) \div (2 * m) \in Int
       /\ (Ticking!llabs(R) * (m - SLEEP)) \div m \in Int
  <2>1. /\ (m + gain + e) * MILLION \in Int /\ W * MILLION \in Int
        /\ 2 * m \in Int /\ 2 * m > 0 /\ m > 0 /\ m - SLEEP \in Int
    BY <1>1, <1>2, <1>4
  <2>2. Ticking!llabs(R) \in Int
    BY <1>8 DEF Ticking!llabs
  <2>3. Ticking!llabs(R) * (m - SLEEP) \in Int
    BY <2>1, <2>2
  <2> QED
    BY <1>4, <2>1, <2>3, Division
<1>11. Ticking!Off(R) \in Int /\ Ticking!eppm \in Int
  BY <1>2, <1>5, <1>6, <1>10
<1>12. Ticking!llabs(Ticking!eppm - R) <= Ticking!Off(R)
  BY <1>5, <1>6, <1>9, <1>10
<1> QED
  BY <1>1, <1>2, <1>3, <1>11, <1>12 DEF R

\* The loop begins; or there is no CLOCK_MONOTONIC_RAW.
LEMMA TickStart == ASSUME TickInv, Ticking!Start PROVE TickInv'
<1>1. /\ pc = "start" /\ UNCHANGED <<tx_tick, freq, tx_offset, fault, privileged, clock, gain>>
      /\ UNCHANGED <<tick, first, second, tested, moved, disturbed>>
      /\ \/ pc' = "tick" /\ exitcode' = exitcode
         \/ pc' = "exit" /\ exitcode' = 255
  BY DEF Ticking!Start, Ticking!Goto, Ticking!kernelVars
<1>2. TickTypes' /\ EffectInv' /\ ReadingInv' /\ JudgedInv'
  BY <1>1 DEF TickInv, TickTypes, EffectInv, ReadingInv, JudgedInv, Alone, Measured
<1>3. TicksTestedInv'
  BY <1>1 DEF TickInv, TickTypes, TicksTestedInv
<1> QED
  BY <1>2, <1>3 DEF TickInv

\* The tick is in effect, if it is ours to set.
LEMMA TickSet == ASSUME TickInv, Ticking!SetTick PROVE TickInv'
<1>1. /\ pc = "tick" /\ pc' = "first" /\ clock' = 0 /\ gain' = 0
      /\ IF privileged THEN tx_tick' = tick /\ freq' = 0 /\ tx_offset' = 0
         ELSE UNCHANGED <<tx_tick, freq, tx_offset>>
      /\ disturbed' = FALSE
      /\ UNCHANGED <<fault, privileged, tick, first, second, exitcode, tested, moved>>
  BY DEF Ticking!SetTick, Ticking!Goto
<1>2. tx_tick' \in Int /\ freq' \in Int /\ tx_offset' \in Int
  BY <1>1 DEF TickInv, TickTypes
<1>3. TickTypes'
  <2>1. disturbed' \in BOOLEAN
    BY <1>1, Zenon
  <2> QED
    BY <1>1, <1>2, <2>1 DEF TickInv, TickTypes, Measured
<1>6. ReadingInv' /\ JudgedInv'
  BY <1>1 DEF ReadingInv, JudgedInv
<1>4. EffectInv'
  BY <1>1 DEF TickInv, EffectInv, Alone, Measured
<1>5. TicksTestedInv'
  BY <1>1 DEF TickInv, TicksTestedInv
<1> QED
  BY <1>3, <1>4, <1>5, <1>6 DEF TickInv

\* An ntpd: what it changes is not the program's, and what the last sleep was worth
\* stays.
LEMMA TickNtpd == ASSUME TickInv, Ticking!Ntpd PROVE TickInv'
<1>1. /\ pc \notin {"start", "exit"} /\ freq' \in NtpdFreqs /\ tx_offset' \in Slews
      /\ disturbed' = (disturbed \/ pc \in {"first", "sleep", "second", "check"})
      /\ UNCHANGED <<tx_tick, fault, privileged, clock, gain, pc, tick, first, second,
                     exitcode, tested, moved>>
  BY DEF Ticking!Ntpd
<1>2. freq' \in Int /\ tx_offset' \in Int
  BY <1>1, TickConstants
<1>3. (pc \in Measured => disturbed') /\ (~disturbed' => ~disturbed) /\ disturbed' \in BOOLEAN
  BY <1>1 DEF Measured, TickInv, TickTypes
<1>4. TickTypes' /\ EffectInv'
  BY <1>1, <1>2, <1>3 DEF TickInv, TickTypes, EffectInv, Alone, Measured
<1>5. ReadingInv' /\ TicksTestedInv'
  BY <1>1 DEF TickInv, ReadingInv, TicksTestedInv, TickGain, TickRate
<1>6. JudgedInv'
  BY <1>1, <1>3 DEF TickInv, JudgedInv, Alone, TickRate, Ticking!Off, Ticking!span
<1> QED
  BY <1>4, <1>5, <1>6 DEF TickInv

\* The first reading: nothing is gained yet.
LEMMA TickFirst == ASSUME TickInv, Ticking!First PROVE TickInv'
<1>1. /\ pc = "first" /\ pc' = "sleep"
      /\ UNCHANGED <<tx_tick, freq, tx_offset, fault, privileged, gain, tick, second, exitcode,
                     tested, moved, disturbed>>
  BY DEF Ticking!First, Ticking!Goto
<1>2. PICK p \in Ticking!Pairs : first' = Ticking!Reading(p) /\ clock' = clock + p.t
  BY DEF Ticking!First
<1>3. clock \in Int /\ gain \in Int /\ gain = 0
  BY <1>1 DEF TickInv, TickTypes, ReadingInv
<1>4. Apart(first', 0) /\ first'.raw <= clock' /\ clock' \in Int
  <2>1. /\ Apart(Ticking!Reading(p), gain) /\ p.t \in Nat
        /\ Ticking!Reading(p).raw <= clock + p.t - gain
    BY <1>3, ReadingIsApart
  <2>2. clock + p.t - gain = clock + p.t
    BY <1>3, <2>1
  <2> QED
    BY <1>2, <1>3, <2>1, <2>2
<1>5. TickTypes' /\ EffectInv' /\ ReadingInv' /\ JudgedInv'
  BY <1>1, <1>3, <1>4 DEF TickInv, TickTypes, EffectInv, ReadingInv, JudgedInv, Alone, Measured
<1>6. TicksTestedInv'
  BY <1>1 DEF TickInv, TicksTestedInv
<1> QED
  BY <1>5, <1>6 DEF TickInv

\* The sleep: the clock gains what tick, fault and ntpd make.
LEMMA TickSleep == ASSUME TickInv, Ticking!Sleep PROVE TickInv'
<1> DEFINE rate == Ticking!ppm(tx_tick) + freq + tx_offset + fault
           gained == (SLEEP * rate) \div MILLION
<1>1. /\ pc = "sleep" /\ pc' = "second" /\ clock' = clock + SLEEP + gained /\ gain' = gain + gained
      /\ moved' = freq + tx_offset
      /\ UNCHANGED <<tx_tick, freq, tx_offset, fault, privileged, tick, first, second, exitcode,
                     tested, disturbed>>
  BY DEF Ticking!Sleep, Ticking!Goto, Ticking!Run
<1>2. /\ clock \in Int /\ gain = 0 /\ Apart(first, 0) /\ first.raw <= clock
      /\ tx_tick \in Int /\ freq \in Int /\ tx_offset \in Int /\ fault \in Int /\ SLEEP \in Int
  BY <1>1, TickConstants DEF TickInv, TickTypes, ReadingInv
<1>3. gained \in Int
  <2>1. rate \in Int
    BY <1>2, TickConstants
  <2> HIDE DEF rate
  <2>2. SLEEP * rate \in Int
    BY <1>2, <2>1
  <2> QED
    BY <2>2, TickConstants
<1>4. privileged => gained = TickGain(tick)'
  <2>1. privileged => tx_tick = tick
    BY <1>1 DEF TickInv, EffectInv, Measured
  <2>2. Ticking!ppm(tx_tick) \in Int
    BY <1>2, TickConstants
  <2>3. TickRate(tick)' = Ticking!ppm(tick) + fault + (freq + tx_offset)
    BY <1>1 DEF TickRate
  <2>4. privileged => rate = TickRate(tick)'
    BY <1>2, <2>1, <2>2, <2>3
  <2> QED
    BY <2>4 DEF TickGain
<1> HIDE DEF gained
<1>5. TickTypes' /\ EffectInv' /\ JudgedInv'
  BY <1>1, <1>2, <1>3 DEF TickInv, TickTypes, EffectInv, JudgedInv, Alone, Measured
<1>6. ReadingInv'
  <2>1. gain' = gained /\ clock' - gain' = clock + SLEEP
    BY <1>1, <1>2, <1>3
  <2>2. first.raw + SLEEP <= clock' - gain'
    BY <1>2, <2>1 DEF Apart
  <2> QED
    BY <1>1, <1>2, <1>4, <2>1, <2>2 DEF ReadingInv
<1>7. TicksTestedInv'
  BY <1>1 DEF TickInv, TicksTestedInv
<1> QED
  BY <1>5, <1>6, <1>7 DEF TickInv

\* The second reading.
LEMMA TickSecond == ASSUME TickInv, Ticking!Second PROVE TickInv'
<1>1. /\ pc = "second" /\ pc' = "check"
      /\ UNCHANGED <<tx_tick, freq, tx_offset, fault, privileged, gain, tick, first, exitcode,
                     tested, moved, disturbed>>
  BY DEF Ticking!Second, Ticking!Goto
<1>2. PICK p \in Ticking!Pairs : second' = Ticking!Reading(p) /\ clock' = clock + p.t
  BY DEF Ticking!Second
<1>3. /\ clock \in Int /\ gain \in Int /\ Apart(first, 0) /\ first.raw + SLEEP <= clock - gain
      /\ privileged => gain = TickGain(tick)
  BY <1>1 DEF TickInv, TickTypes, ReadingInv
<1>4. Apart(second', gain) /\ clock - gain <= second'.raw /\ clock' \in Int
  BY <1>2, <1>3, ReadingIsApart
<1>5. first.raw + SLEEP <= second'.raw
  BY <1>3, <1>4, TickConstants DEF Apart
<1>6. TickTypes' /\ EffectInv' /\ JudgedInv'
  BY <1>1, <1>4 DEF TickInv, TickTypes, EffectInv, JudgedInv, Alone, Measured
<1>7. ReadingInv'
  BY <1>1, <1>3, <1>4, <1>5 DEF ReadingInv, TickGain, TickRate
<1>8. TicksTestedInv'
  BY <1>1 DEF TickInv, TicksTestedInv
<1> QED
  BY <1>6, <1>7, <1>8 DEF TickInv

\* The verdict on a tick.
LEMMA TickCheck == ASSUME TickInv, Ticking!Check PROVE TickInv'
<1> DEFINE Bad == Ticking!Unexpected \/ Ticking!llabs(Ticking!eppm - Ticking!ppm(tick)) > TOLERANCE
<1>1. /\ pc = "check"
      /\ IF Bad
         THEN pc' = "reset" /\ exitcode' = 1 /\ UNCHANGED <<tick, tested>>
         ELSE /\ pc' = IF tick + Ticking!interval < SYSTICK + Ticking!max THEN "tick" ELSE "reset"
              /\ tick' = tick + Ticking!interval /\ exitcode' = exitcode
              /\ tested' = tested \cup {<<tx_tick, freq, tx_offset>>}
      /\ UNCHANGED <<tx_tick, freq, tx_offset, fault, privileged, clock, gain, first, second,
                     moved, disturbed>>
  BY DEF Ticking!Check, Ticking!kernelVars
<1>2. /\ TickTypes /\ TicksTestedInv /\ exitcode = 0 /\ tick \in Int /\ fault \in Int
      /\ Ticking!max \in Int /\ Ticking!interval \in Int /\ SYSTICK \in Int
  BY <1>1, TickConstants DEF TickInv, TickTypes
<1>3. ~Ticking!Unexpected =>
        privileged /\ <<tx_tick, freq, tx_offset>> = <<tick, 0, 0>>
  BY <1>1, TickConstants DEF TickInv, TickTypes, EffectInv, Ticking!Unexpected, Alone, Measured
<1>4. Alone => ~Ticking!Unexpected /\ moved = 0
  BY <1>1 DEF TickInv, EffectInv, Ticking!Unexpected, Alone, Measured
<1> USE DEF Alone
<1>5. CASE Bad
  <2>1. TickTypes' /\ EffectInv' /\ ReadingInv'
    BY <1>1, <1>2, <1>5 DEF TickTypes, EffectInv, ReadingInv, Measured
  <2>2. TicksTestedInv'
    BY <1>1, <1>2, <1>5 DEF TicksTestedInv
  <2>3. JudgedInv'
    <3>1. Alone /\ fault = 0 => Ticking!Off(Ticking!ppm(tick)) > TOLERANCE
      <4> SUFFICES ASSUME Alone, fault = 0 PROVE Ticking!Off(Ticking!ppm(tick)) > TOLERANCE
        OBVIOUS
      <4>1. Ticking!llabs(Ticking!eppm - Ticking!ppm(tick)) > TOLERANCE
        BY <1>4, <1>5
      <4>2. /\ Ticking!llabs(Ticking!eppm - TickRate(tick)) <= Ticking!Off(TickRate(tick))
            /\ Ticking!eppm \in Int /\ Ticking!ppm(tick) \in Int
            /\ TickRate(tick) = Ticking!ppm(tick) + fault + moved
            /\ Ticking!Off(TickRate(tick)) \in Int
        BY <1>1, TickRateIsFound
      <4>3. TickRate(tick) = Ticking!ppm(tick)
        BY <1>4, <4>2
      <4>4. Ticking!llabs(Ticking!eppm - Ticking!ppm(tick)) \in Int /\ TOLERANCE \in Int
        BY <4>2, TickConstants DEF Ticking!llabs
      <4> QED
        BY <4>1, <4>2, <4>3, <4>4
    <3>2. Ticking!Off(Ticking!ppm(tick))' = Ticking!Off(Ticking!ppm(tick))
      BY <1>1, <1>5 DEF Ticking!Off, Ticking!span
    <3> QED
      BY <1>1, <1>5, <3>1, <3>2 DEF JudgedInv
  <2> QED
    BY <2>1, <2>2, <2>3 DEF TickInv
<1>6. CASE ~Bad
  <2>1. /\ tick' = tick + Ticking!interval /\ tested' = tested \cup {<<tick, 0, 0>>}
        /\ pc' = IF tick + Ticking!interval < SYSTICK + Ticking!max THEN "tick" ELSE "reset"
        /\ privileged /\ exitcode' = 0
    BY <1>1, <1>2, <1>3, <1>6
  <2>2. TickTypes' /\ EffectInv' /\ ReadingInv'
    BY <1>1, <1>2, <2>1 DEF TickTypes, EffectInv, ReadingInv, Measured
  <2>3. TicksTestedInv'
    <3> DEFINE n == Ticking!interval
               x == tick - (SYSTICK - Ticking!max)
    <3>1. n \in Nat /\ n > 0 /\ x \in Int /\ x % n = 0
      BY <1>2, TickConstants DEF TicksTestedInv
    <3>2. tick' - (SYSTICK - Ticking!max) = x + n
      BY <1>2, <2>1
    <3>3. (tick' - (SYSTICK - Ticking!max)) % n = 0
      <4> HIDE DEF x, n
      <4>1. (x + n) % n = 0
        BY <3>1, NextMultiple
      <4> QED
        BY <3>2, <4>1
    <3>4. ASSUME NEW t \in SYSTICK - Ticking!max .. tick' - 1, (t - SYSTICK + Ticking!max) % n = 0
          PROVE  <<t, 0, 0>> \in tested'
      <4>1. t \in Int /\ t < tick + n /\ SYSTICK - Ticking!max <= t
        BY <1>2, <2>1, <3>1
      <4>2. CASE t < tick
        BY <1>2, <2>1, <3>4, <4>1, <4>2 DEF TicksTestedInv
      <4>3. CASE t >= tick
        <5> DEFINE y == t - SYSTICK + Ticking!max
        <5>1. y \in Int /\ y % n = 0 /\ x <= y /\ y < x + n
          BY <1>2, <3>1, <3>4, <4>1, <4>3
        <5> HIDE DEF x, y, n
        <5>2. y = x
          BY <3>1, <5>1, NextMultiple
        <5>3. t = tick
          BY <1>2, <4>1, <5>2 DEF x, y
        <5> QED
          BY <2>1, <5>3
      <4> QED
        BY <1>2, <4>1, <4>2, <4>3
    <3>5. pc' = "reset" => tick' >= SYSTICK + Ticking!max
      BY <1>2, <2>1
    <3> HIDE DEF n, x
    <3>6. pc' \in {"tick", "reset"}
      BY <2>1
    <3> QED
      BY <3>3, <3>4, <3>5, <3>6 DEF TicksTestedInv, n
  <2>4. JudgedInv'
    <3>1. ~(Ticking!llabs(Ticking!eppm - Ticking!ppm(tick)) > TOLERANCE)
      BY <1>6
    <3> DEFINE r == Ticking!ppm(tick)
               v == Ticking!eppm
               o == Ticking!Off(TickRate(tick))
    <3>2. /\ Ticking!llabs(v - (r + fault + moved)) <= o /\ moved \in Int /\ v \in Int /\ r \in Int /\ o \in Int
          /\ ~(Ticking!llabs(v - r) > TOLERANCE) /\ TOLERANCE \in Int
      <4>1. /\ Ticking!llabs(v - TickRate(tick)) <= o /\ v \in Int /\ r \in Int /\ o \in Int
            /\ TickRate(tick) = r + fault + moved /\ moved \in Int
        BY <1>1, <2>1, TickRateIsFound
      <4> QED
        BY <3>1, <4>1, TickConstants
    <3> HIDE DEF r, v, o
    <3>3. Ticking!llabs(fault + moved) <= TOLERANCE + o
      BY ONLY <1>2, <3>2 DEF Ticking!llabs
    <3>4. tick' - Ticking!interval' = tick /\ fault' = fault /\ moved' = moved
      BY <1>1, <1>2, <2>1 DEF Ticking!interval, Ticking!max
    <3>5. Ticking!Off(TickRate(tick - Ticking!interval))' = o
      BY <1>1, <3>4 DEF o, Ticking!Off, Ticking!span, TickRate
    <3> QED
      BY <2>1, <3>3, <3>4, <3>5 DEF JudgedInv
  <2> QED
    BY <2>2, <2>3, <2>4 DEF TickInv
<1> QED
  BY <1>5, <1>6

\* The end: what was found stays.
LEMMA TickReset == ASSUME TickInv, Ticking!Reset PROVE TickInv'
<1>1. /\ pc = "reset" /\ pc' = "exit"
      /\ IF privileged THEN tx_tick' = SYSTICK /\ freq' = 0 /\ tx_offset' = 0
         ELSE UNCHANGED <<tx_tick, freq, tx_offset>>
      /\ UNCHANGED <<fault, privileged, clock, gain, tick, first, second, exitcode, tested,
                     moved, disturbed>>
  BY DEF Ticking!Reset, Ticking!Goto
<1>2. tx_tick' \in Int /\ freq' \in Int /\ tx_offset' \in Int
  BY <1>1, TickConstants DEF TickInv, TickTypes
<1>3. TickTypes' /\ EffectInv' /\ ReadingInv'
  BY <1>1, <1>2 DEF TickInv, TickTypes, EffectInv, ReadingInv, Alone, Measured
<1>4. TicksTestedInv'
  BY <1>1 DEF TickInv, TicksTestedInv
<1>5. JudgedInv'
  BY <1>1 DEF TickInv, JudgedInv, Alone, TickRate, Ticking!Off, Ticking!span
<1> QED
  BY <1>3, <1>4, <1>5 DEF TickInv

\* Every step keeps the invariant.
LEMMA TickSteps == TickInv /\ [Ticking!Next]_(Ticking!vars) => TickInv'
<1> SUFFICES ASSUME TickInv, [Ticking!Next]_(Ticking!vars) PROVE TickInv'
  OBVIOUS
<1>1. CASE UNCHANGED Ticking!vars
  <2>1. UNCHANGED <<tx_tick, freq, tx_offset, fault, privileged, clock, gain, pc, tick, first,
                    second, exitcode, tested, moved, disturbed>>
    BY <1>1 DEF Ticking!vars, Ticking!kernelVars
  <2> QED
    BY <2>1
    DEF TickInv, TickTypes, EffectInv, ReadingInv, TicksTestedInv, JudgedInv, Alone, TickGain, TickRate,
        Ticking!Off, Ticking!span
<1> QED
  BY <1>1, TickStart, TickSet, TickNtpd, TickFirst, TickSleep, TickSecond, TickCheck, TickReset
  DEF Ticking!Next

\* The inductive invariant of adjtick, for every tick, fault and choice of delays.
THEOREM TickingInvariant == Ticking!Spec => []TickInv
BY TickStarts, TickSteps, PTL DEF Ticking!Spec

\* What a pass and a failure mean.
LEMMA TickVerdict == TickInv => Ticking!VerdictIsRight /\ Ticking!FaultFails
<1> SUFFICES ASSUME TickInv PROVE Ticking!VerdictIsRight /\ Ticking!FaultFails
  OBVIOUS
<1>1. pc = "exit" /\ exitcode = 0 => privileged
  BY DEF TickInv, EffectInv
<1>2. ASSUME NEW t \in Ticking!Ticks, t < tick PROVE <<t, 0, 0>> \in tested
  <2>1. /\ t \in SYSTICK - Ticking!max .. tick - 1
        /\ (t - SYSTICK + Ticking!max) % Ticking!interval = 0
    BY <1>2, TickConstants DEF Ticking!Ticks, TickInv, TickTypes
  <2> QED
    BY <2>1 DEF TickInv, TicksTestedInv
<1>3. ASSUME pc = "exit", exitcode = 0, NEW t \in Ticking!Ticks PROVE t < tick
  <2>1. tick \in Int /\ tick >= SYSTICK + Ticking!max
    BY <1>3 DEF TickInv, TickTypes, TicksTestedInv
  <2> QED
    BY <2>1, TickConstants DEF Ticking!Ticks
<1>4. pc = "exit" /\ exitcode = 1 /\ privileged /\ ~disturbed /\ fault = 0 =>
        Ticking!Off(Ticking!ppm(tick)) > TOLERANCE
  BY DEF TickInv, JudgedInv, Alone
<1>5. Ticking!FaultFails
  BY DEF TickInv, JudgedInv, TickRate, Ticking!FaultFails
<1> QED
  BY <1>1, <1>2, <1>3, <1>4, <1>5 DEF Ticking!VerdictIsRight

\* A pass means that every tick was in effect and the clock followed the last of them,
\* whatever an ntpd has done and taken back; a sound clock that none has touched passes,
\* where the readings can tell.
THEOREM TickingVerdict == Ticking!Spec => [](Ticking!VerdictIsRight /\ Ticking!FaultFails)
BY TickingInvariant, TickVerdict, PTL

-------------------------------------------------------------------------------
(* valid-adjtimex: what has been taken is what the loops have been through.  *)

\* What n turns of a loop over a table leave.
TakenOf(table, n) == {<<table[k], Validating!Clamped(table[k])>> : k \in 1 .. n}

TwoTables ==
  TakenOf(valid_freq, Len(valid_freq)) \cup TakenOf(outofrange_freq, Len(outofrange_freq))

ValidatingInv ==
  /\ i \in Nat \ {0}
  /\ pc \in {"clear", "valid", "range", "invalid", "out", "exit"}
  /\ pc \notin {"out", "exit"} => exitcode = 0
  /\ pc = "clear" => i = 1 /\ taken = {}
  /\ pc = "valid" => i <= Len(valid_freq) + 1 /\ taken = TakenOf(valid_freq, i - 1)
  /\ pc = "range" => /\ i <= Len(outofrange_freq) + 1
                     /\ taken = TakenOf(valid_freq, Len(valid_freq)) \cup TakenOf(outofrange_freq, i - 1)
  /\ pc = "invalid" \/ (pc \in {"out", "exit"} /\ exitcode = 0) => taken = TwoTables
  /\ kernel = "sound" /\ privileged => exitcode = 0
  /\ pc # "clear" /\ privileged => status # "set"
  /\ Validating!FreqIsReset

\* What the kernel may answer to an entry of each table, and that it may be what
\* the program expects.
LEMMA AnswersToValid ==
  ASSUME Validating!ValidAdjtimexAssumption,
         NEW k \in 1 .. Len(valid_freq), NEW answer \in Validating!Outcomes(valid_freq[k])
  PROVE  /\ Validating!Refused(answer) \/ answer[1] = Validating!Clamped(valid_freq[k])
         /\ kernel = "sound" /\ privileged => ~Validating!Refused(answer)
<1> DEFINE f == valid_freq[k]
<1>1. f \in -MAXFREQ .. MAXFREQ /\ MAXFREQ \in Nat
  BY DEF Validating!ValidAdjtimexAssumption
<1>2. f \notin Validating!ToSet(invalid_freq)
  BY <1>1 DEF Validating!ValidAdjtimexAssumption, Validating!ToSet
<1>3. Validating!Clamped(f) = f
  BY <1>1 DEF Validating!Clamped
<1> HIDE DEF f
<1>4. answer = <<>> \/ answer = <<f>>
  BY <1>3 DEF Validating!Outcomes, f
<1>5. kernel = "sound" /\ privileged => answer = <<f>>
  BY <1>2, <1>3 DEF Validating!Outcomes, Validating!WronglyRefused, f
<1> QED
  BY <1>3, <1>4, <1>5 DEF Validating!Refused, f

LEMMA AnswersOutOfRange ==
  ASSUME Validating!ValidAdjtimexAssumption,
         NEW k \in 1 .. Len(outofrange_freq), NEW answer \in Validating!Outcomes(outofrange_freq[k])
  PROVE  LET f == outofrange_freq[k]
         IN  /\ Validating!Refused(answer) \/ answer = <<f>> \/ answer[1] = Validating!Clamped(f)
             /\ kernel = "sound" /\ privileged => ~Validating!Refused(answer) /\ answer # <<f>>
<1> DEFINE f == outofrange_freq[k]
<1>1. f \in Int \ (-MAXFREQ .. MAXFREQ) /\ MAXFREQ \in Nat
  BY DEF Validating!ValidAdjtimexAssumption
<1>2. f \notin Validating!ToSet(invalid_freq)
  <2>1. f \in Validating!ToSet(outofrange_freq)
    BY DEF Validating!ValidAdjtimexAssumption, Validating!ToSet
  <2> QED
    BY <2>1 DEF Validating!ValidAdjtimexAssumption
<1>3. Validating!Clamped(f) # f
  BY <1>1 DEF Validating!Clamped
<1> HIDE DEF f
<1>4. answer = <<>> \/ answer = <<f>> \/ answer = <<Validating!Clamped(f)>>
  BY DEF Validating!Outcomes, f
<1>5. kernel = "sound" /\ privileged => answer = <<Validating!Clamped(f)>>
  BY <1>2 DEF Validating!Outcomes, Validating!WronglyRefused, f
<1> QED
  BY <1>3, <1>4, <1>5 DEF Validating!Refused, f

LEMMA AnswersToInvalid ==
  ASSUME Validating!ValidAdjtimexAssumption, kernel = "sound",
         NEW k \in 1 .. Len(invalid_freq), NEW answer \in Validating!Outcomes(invalid_freq[k])
  PROVE  Validating!Refused(answer)
<1>1. invalid_freq[k] \in Validating!ToSet(invalid_freq)
  BY DEF Validating!ValidAdjtimexAssumption, Validating!ToSet
<1> QED
  BY <1>1 DEF Validating!Outcomes, Validating!Refused

\* One more turn.
LEMMA OneMoreTaken ==
  ASSUME NEW table, NEW n \in Nat \ {0}
  PROVE  TakenOf(table, n) = TakenOf(table, n - 1) \cup {<<table[n], Validating!Clamped(table[n])>>}
<1>1. 1 .. n = (1 .. n - 1) \cup {n}
  OBVIOUS
<1> QED
  BY <1>1 DEF TakenOf

\* The invariant of valid-adjtimex holds at the start ...
LEMMA ValidatingStarts == Validating!Init => ValidatingInv
BY DEF Validating!Init, ValidatingInv, TakenOf, Validating!FreqIsReset

LEMMA ValidatingSteps ==
  ASSUME Validating!ValidAdjtimexAssumption
  PROVE  ValidatingInv /\ [Validating!Next]_(Validating!vars) => ValidatingInv'
<1> SUFFICES ASSUME ValidatingInv, [Validating!Next]_(Validating!vars) PROVE ValidatingInv'
  OBVIOUS
<1> USE DEF Validating!Goto, Validating!FreqIsReset
<1>0. /\ Len(valid_freq) \in Nat /\ Len(outofrange_freq) \in Nat /\ Len(invalid_freq) \in Nat
      /\ i \in Nat \ {0}
  BY DEF Validating!ValidAdjtimexAssumption, ValidatingInv
<1>1. CASE Validating!clear_time_state
  <2>1. taken' = TakenOf(valid_freq, i' - 1)
    BY <1>1 DEF Validating!clear_time_state, ValidatingInv, TakenOf
  <2> QED
    BY <1>0, <1>1, <2>1 DEF Validating!clear_time_state, ValidatingInv
<1>2. CASE Validating!Valid
  <2>1. /\ pc = "valid" /\ UNCHANGED <<status, kernel, is64, privileged>>
        /\ i <= Len(valid_freq) + 1 /\ taken = TakenOf(valid_freq, i - 1) /\ exitcode = 0
    BY <1>2 DEF Validating!Valid, Validating!Turn, ValidatingInv
  <2>2. CASE i > Len(valid_freq)
    <3>1. /\ pc' = "range" /\ i' = 1 /\ UNCHANGED <<freq, exitcode, taken>>
          /\ i - 1 = Len(valid_freq)
      BY <1>0, <1>2, <2>1, <2>2 DEF Validating!Valid, Validating!Turn
    <3>2. taken' = TakenOf(valid_freq, Len(valid_freq)) \cup TakenOf(outofrange_freq, i' - 1)
      BY <2>1, <3>1 DEF TakenOf
    <3> QED
      BY <1>0, <2>1, <3>1, <3>2 DEF ValidatingInv
  <2>3. CASE i \in 1 .. Len(valid_freq)
    <3>1. PICK answer \in Validating!Outcomes(valid_freq[i]) :
            /\ Validating!adjtimex(valid_freq[i], answer)
            /\ IF Validating!Fails(valid_freq[i], answer)
               THEN pc' = "out" /\ exitcode' = 1 /\ i' = i
               ELSE pc' = "valid" /\ exitcode' = exitcode /\ i' = i + 1
      BY <1>0, <1>2, <2>3 DEF Validating!Valid, Validating!Turn
    <3>2. Validating!Fails(valid_freq[i], answer) <=> Validating!Refused(answer)
      BY <2>1 DEF Validating!Fails
    <3>3. kernel = "sound" /\ privileged => ~Validating!Refused(answer)
      BY <2>3, AnswersToValid
    <3>4. CASE Validating!Refused(answer)
      BY <1>0, <2>1, <3>1, <3>2, <3>3, <3>4 DEF ValidatingInv
    <3>5. CASE ~Validating!Refused(answer)
      <4>1. taken' = taken \cup {<<valid_freq[i], Validating!Clamped(valid_freq[i])>>}
        BY <2>3, <3>1, <3>5, AnswersToValid DEF Validating!adjtimex
      <4>2. i' - 1 = i /\ i' \in Nat \ {0} /\ i' <= Len(valid_freq) + 1
        BY <1>0, <2>3, <3>1, <3>2, <3>5
      <4>3. taken' = TakenOf(valid_freq, i' - 1)
        BY <1>0, <2>1, <4>1, <4>2, OneMoreTaken
      <4> QED
        BY <2>1, <3>1, <3>2, <3>5, <4>2, <4>3 DEF ValidatingInv
    <3> QED
      BY <3>4, <3>5
  <2> QED
    BY <1>0, <2>2, <2>3
<1>3. CASE Validating!OutOfRange
  <2>1. /\ pc = "range" /\ UNCHANGED <<status, kernel, is64, privileged>>
        /\ i <= Len(outofrange_freq) + 1 /\ exitcode = 0
        /\ taken = TakenOf(valid_freq, Len(valid_freq)) \cup TakenOf(outofrange_freq, i - 1)
    BY <1>3 DEF Validating!OutOfRange, Validating!Turn, ValidatingInv
  <2>2. CASE i > Len(outofrange_freq)
    <3>1. /\ pc' \in {"invalid", "out"} /\ i' = 1 /\ UNCHANGED <<freq, exitcode, taken>>
          /\ i - 1 = Len(outofrange_freq)
      BY <1>0, <1>3, <2>1, <2>2 DEF Validating!OutOfRange, Validating!Turn
    <3>2. taken' = TwoTables
      BY <2>1, <3>1 DEF TwoTables
    <3> QED
      BY <1>0, <2>1, <3>1, <3>2 DEF ValidatingInv
  <2>3. CASE i \in 1 .. Len(outofrange_freq)
    <3> DEFINE f == outofrange_freq[i]
    <3>1. PICK answer \in Validating!Outcomes(f) :
            /\ Validating!adjtimex(f, answer)
            /\ IF Validating!Fails(f, answer)
               THEN pc' = "out" /\ exitcode' = 1 /\ i' = i
               ELSE pc' = "range" /\ exitcode' = exitcode /\ i' = i + 1
      BY <1>0, <1>3, <2>3 DEF Validating!OutOfRange, Validating!Turn
    <3>2. Validating!Fails(f, answer) <=> Validating!Refused(answer) \/ answer = <<f>>
      BY <2>1 DEF Validating!Fails
    <3>3. kernel = "sound" /\ privileged => ~Validating!Fails(f, answer)
      BY <2>3, <3>2, AnswersOutOfRange
    <3>4. CASE Validating!Fails(f, answer)
      BY <1>0, <2>1, <3>1, <3>3, <3>4 DEF ValidatingInv
    <3>5. CASE ~Validating!Fails(f, answer)
      <4>1. taken' = taken \cup {<<f, Validating!Clamped(f)>>}
        BY <2>3, <3>1, <3>2, <3>5, AnswersOutOfRange DEF Validating!adjtimex
      <4>2. i' - 1 = i /\ i' \in Nat \ {0} /\ i' <= Len(outofrange_freq) + 1
        BY <1>0, <2>3, <3>1, <3>5
      <4>3. TakenOf(outofrange_freq, i) = TakenOf(outofrange_freq, i - 1) \cup {<<f, Validating!Clamped(f)>>}
        BY <1>0, OneMoreTaken
      <4>4. taken' = TakenOf(valid_freq, Len(valid_freq)) \cup TakenOf(outofrange_freq, i' - 1)
        BY <2>1, <4>1, <4>2, <4>3
      <4> QED
        BY <2>1, <3>1, <3>5, <4>2, <4>4 DEF ValidatingInv
    <3> QED
      BY <3>4, <3>5
  <2> QED
    BY <1>0, <2>2, <2>3
<1>4. CASE Validating!Invalid
  <2>1. /\ pc = "invalid" /\ UNCHANGED <<status, kernel, is64, privileged>>
        /\ exitcode = 0 /\ taken = TwoTables
    BY <1>4 DEF Validating!Invalid, Validating!Turn, ValidatingInv
  <2>2. CASE i > Len(invalid_freq)
    BY <1>0, <1>4, <2>1, <2>2 DEF Validating!Invalid, Validating!Turn, ValidatingInv
  <2>3. CASE i \in 1 .. Len(invalid_freq)
    <3> DEFINE f == invalid_freq[i]
    <3>1. PICK answer \in Validating!Outcomes(f) :
            /\ Validating!adjtimex(f, answer)
            /\ IF Validating!Fails(f, answer)
               THEN pc' = "out" /\ exitcode' = 1 /\ i' = i
               ELSE pc' = "invalid" /\ exitcode' = exitcode /\ i' = i + 1
      BY <1>0, <1>4, <2>3 DEF Validating!Invalid, Validating!Turn
    <3>2. Validating!Fails(f, answer) <=> ~Validating!Refused(answer)
      BY <2>1 DEF Validating!Fails
    <3>3. kernel = "sound" => Validating!Refused(answer)
      BY <2>3, AnswersToInvalid
    <3>4. CASE Validating!Refused(answer)
      <4>1. taken' = taken
        BY <3>1, <3>4 DEF Validating!adjtimex
      <4> QED
        BY <1>0, <2>1, <3>1, <3>2, <3>4, <4>1 DEF ValidatingInv
    <3>5. CASE ~Validating!Refused(answer)
      BY <1>0, <2>1, <3>1, <3>2, <3>3, <3>5 DEF ValidatingInv
    <3> QED
      BY <3>4, <3>5
  <2> QED
    BY <1>0, <2>2, <2>3
<1>5. CASE Validating!Out
  BY <1>5 DEF Validating!Out, ValidatingInv
<1>6. CASE UNCHANGED Validating!vars
  BY <1>6 DEF Validating!vars, ValidatingInv
<1> QED
  BY <1>1, <1>2, <1>3, <1>4, <1>5, <1>6 DEF Validating!Next

\* No frequency is left behind, whatever the kernel takes.
THEOREM ValidatingResets ==
  ASSUME Validating!ValidAdjtimexAssumption
  PROVE  Validating!Spec => []Validating!FreqIsReset
<1>1. ValidatingInv => Validating!FreqIsReset
  BY DEF ValidatingInv
<1> QED
  BY <1>1, ValidatingStarts, ValidatingSteps, PTL DEF Validating!Spec

\* The two tables one after the other.
LEMMA BothTables ==
  ASSUME Validating!ValidAdjtimexAssumption
  PROVE  TwoTables
           = {<<f, Validating!Clamped(f)>> : f \in Validating!ToSet(valid_freq \o outofrange_freq)}
<1>1. /\ DOMAIN valid_freq = 1 .. Len(valid_freq) /\ Len(valid_freq) \in Nat
      /\ DOMAIN outofrange_freq = 1 .. Len(outofrange_freq) /\ Len(outofrange_freq) \in Nat
  BY DEF Validating!ValidAdjtimexAssumption
<1> DEFINE both == valid_freq \o outofrange_freq
<1>2. /\ DOMAIN both = 1 .. Len(valid_freq) + Len(outofrange_freq)
      /\ \A k \in 1 .. Len(valid_freq) : both[k] = valid_freq[k]
      /\ \A k \in 1 .. Len(outofrange_freq) : both[Len(valid_freq) + k] = outofrange_freq[k]
  BY <1>1 DEF Validating!ValidAdjtimexAssumption
<1> HIDE DEF both
<1>3. Validating!ToSet(both) = {valid_freq[k] : k \in 1 .. Len(valid_freq)}
                                 \cup {outofrange_freq[k] : k \in 1 .. Len(outofrange_freq)}
  <2>1. ASSUME NEW k \in DOMAIN both
        PROVE  both[k] \in {valid_freq[l] : l \in 1 .. Len(valid_freq)}
                             \cup {outofrange_freq[l] : l \in 1 .. Len(outofrange_freq)}
    <3>1. CASE k <= Len(valid_freq)
      BY <1>1, <1>2, <3>1
    <3>2. CASE k > Len(valid_freq)
      <4>1. k - Len(valid_freq) \in 1 .. Len(outofrange_freq)
            /\ k = Len(valid_freq) + (k - Len(valid_freq))
        BY <1>1, <1>2, <3>2
      <4> QED
        BY <1>2, <4>1
    <3> QED
      BY <1>1, <1>2, <3>1, <3>2
  <2>2. ASSUME NEW k \in 1 .. Len(valid_freq) PROVE valid_freq[k] \in Validating!ToSet(both)
    BY <1>1, <1>2 DEF Validating!ToSet
  <2>3. ASSUME NEW k \in 1 .. Len(outofrange_freq)
        PROVE  outofrange_freq[k] \in Validating!ToSet(both)
    <3>1. Len(valid_freq) + k \in DOMAIN both
      BY <1>1, <1>2
    <3> QED
      BY <1>2, <3>1 DEF Validating!ToSet
  <2> QED
    BY <2>1, <2>2, <2>3 DEF Validating!ToSet
<1> QED
  BY <1>3 DEF TwoTables, TakenOf, both

\* A pass means that the tables were taken, and a sound kernel passes.
THEOREM ValidatingVerdict ==
  ASSUME Validating!ValidAdjtimexAssumption
  PROVE  Validating!Spec => []Validating!VerdictIsRight
<1>1. ValidatingInv => Validating!VerdictIsRight
  BY BothTables DEF ValidatingInv, Validating!VerdictIsRight
<1> QED
  BY <1>1, ValidatingStarts, ValidatingSteps, PTL DEF Validating!Spec

-------------------------------------------------------------------------------
(* adj-setoffset: the offsets come in pairs, so what has been added to the   *)
(* clock is known from how far the loop over the first table has got.       *)

\* The sum of the offsets before the i-th.
Sum == CASE i \in {3, 5} -> 500 [] i = 7 -> 500 * SECOND [] OTHER -> 0

OffsettingInv ==
  /\ pc \in {"clear", "valid", "invalid", "exit"}
  /\ pc = "clear" => i = 1 /\ net = 0
  /\ pc = "valid" => i \in 1 .. 8 /\ net = Sum /\ (i > 1 => privileged)
  /\ pc = "invalid" => i \in 1 .. 13
  /\ pc = "invalid" \/ (pc = "exit" /\ exitcode = 0) => net = 0 /\ privileged
  /\ pc # "exit" \/ (kernel = "old" /\ privileged) => exitcode = 0

\* The lengths of the tables; the nanoseconds of the first, which an old kernel
\* takes whatever their sign, and those of the second, at least a second's.
LEMMA TwoLengths == Len(Offsetting!valid_vals) = 7 /\ Len(Offsetting!invalid_vals) = 12
BY DEF Offsetting!valid_vals, Offsetting!invalid_vals

LEMMA ValidNanoseconds ==
  ASSUME Offsetting!AdjSetoffsetAssumption, NEW k \in 1 .. 7
  PROVE  Offsetting!valid_vals[k][2] \in -SECOND + 1 .. SECOND - 1
BY DEF Offsetting!valid_vals, Offsetting!AdjSetoffsetAssumption

LEMMA InvalidNanoseconds ==
  ASSUME Offsetting!AdjSetoffsetAssumption, NEW k \in 1 .. 12
  PROVE  Offsetting!invalid_vals[k][2] \notin -SECOND + 1 .. SECOND - 1
<1>1. ((k - 1) % 4) + 1 \in 1 .. 4
  OBVIOUS
<1>2. Offsetting!invalid_vals[k][2]
        = <<SECOND, SECOND + 10, -SECOND, -SECOND - 10>>[((k - 1) % 4) + 1]
  BY DEF Offsetting!invalid_vals
<1> QED
  BY <1>1, <1>2 DEF Offsetting!AdjSetoffsetAssumption

\* One more offset.
LEMMA NextSum ==
  ASSUME Offsetting!AdjSetoffsetAssumption, i \in 1 .. 7, i' = i + 1, net = Sum,
         net' = net + (Offsetting!valid_vals[i][1] * SECOND + Offsetting!valid_vals[i][2])
  PROVE  net' = Sum'
<1> USE DEF Offsetting!valid_vals, Offsetting!AdjSetoffsetAssumption, Sum
<1>1. CASE i \in {1, 2, 3}
  BY <1>1
<1>2. CASE i \in {4, 5}
  BY <1>2
<1>3. CASE i \in {6, 7}
  BY <1>3
<1> QED
  BY <1>1, <1>2, <1>3

\* The invariant of adj-setoffset holds at the start ...
LEMMA OffsettingStarts == Offsetting!Init => OffsettingInv
BY DEF Offsetting!Init, OffsettingInv

LEMMA OffsettingSteps ==
  ASSUME Offsetting!AdjSetoffsetAssumption
  PROVE  OffsettingInv /\ [Offsetting!Next]_(Offsetting!vars) => OffsettingInv'
<1> SUFFICES ASSUME OffsettingInv, [Offsetting!Next]_(Offsetting!vars) PROVE OffsettingInv'
  OBVIOUS
<1> USE DEF Offsetting!Goto
<1>1. CASE Offsetting!clear_time_state
  BY <1>1 DEF Offsetting!clear_time_state, OffsettingInv, Sum
<1>2. CASE Offsetting!Valid
  <2>0. Len(Offsetting!valid_vals) = 7
    BY TwoLengths
  <2>1. /\ pc = "valid" /\ UNCHANGED <<status, privileged, kernel>> /\ exitcode = 0
        /\ i \in 1 .. 8 /\ net = Sum /\ (i > 1 => privileged)
    BY <1>2 DEF Offsetting!Valid, Offsetting!Turn, OffsettingInv
  <2>2. CASE i = 8
    <3>1. i > Len(Offsetting!valid_vals)
      BY <2>0, <2>2
    <3>2. pc' = "invalid" /\ i' = 1 /\ UNCHANGED <<net, exitcode>>
      BY <1>2, <2>1, <2>2, <3>1 DEF Offsetting!Valid, Offsetting!Turn
    <3> QED
      BY <2>1, <2>2, <3>2 DEF Offsetting!Valid, Offsetting!Turn, OffsettingInv, Sum
  <2>3. CASE i \in 1 .. 7
    <3>1. PICK takes \in Offsetting!Takes(Offsetting!valid_vals[i]) :
            /\ net' = net + (IF takes
                              THEN Offsetting!valid_vals[i][1] * SECOND
                                     + Offsetting!valid_vals[i][2]
                              ELSE 0)
            /\ IF takes = TRUE
               THEN pc' = "valid" /\ i' = i + 1 /\ exitcode' = exitcode
               ELSE pc' = "exit" /\ i' = i /\ exitcode' = 255
      <4>1. i <= Len(Offsetting!valid_vals) /\ ~(i > Len(Offsetting!valid_vals))
        BY <2>0, <2>3
      <4> QED
        BY <1>2, <4>1, Zenon DEF Offsetting!Valid, Offsetting!Turn
    <3>2. kernel = "old" /\ privileged => takes = TRUE
      BY <2>3, <3>1, ValidNanoseconds DEF Offsetting!Takes
    <3>5. takes = TRUE => privileged
      <4>1. ~privileged => Offsetting!Takes(Offsetting!valid_vals[i]) = {FALSE}
        BY Zenon DEF Offsetting!Takes
      <4> QED
        BY <4>1, Zenon
    <3>3. CASE takes = TRUE
      <4>1. /\ pc' = "valid" /\ i' = i + 1 /\ exitcode' = exitcode /\ privileged
            /\ net' = net + (Offsetting!valid_vals[i][1] * SECOND + Offsetting!valid_vals[i][2])
        BY <3>5, <3>1, <3>3, Zenon
      <4>2. net' = Sum'
        BY <2>1, <2>3, <4>1, NextSum
      <4>3. i' \in 1 .. 8
        BY <2>3, <4>1
      <4> QED
        BY <2>1, <4>1, <4>2, <4>3 DEF OffsettingInv
    <3>4. CASE takes # TRUE
      <4>1. pc' = "exit" /\ exitcode' = 255 /\ ~(kernel = "old" /\ privileged)
        BY <3>1, <3>2, <3>4, Zenon
      <4> QED
        BY <2>1, <4>1 DEF OffsettingInv
    <3> QED
      BY <3>3, <3>4
  <2> QED
    BY <2>1, <2>2, <2>3
<1>3. CASE Offsetting!Invalid
  <2>0. Len(Offsetting!invalid_vals) = 12
    BY TwoLengths
  <2>1. /\ pc = "invalid" /\ UNCHANGED <<status, privileged, kernel>> /\ exitcode = 0
        /\ i \in 1 .. 13 /\ net = 0 /\ privileged
    BY <1>3 DEF Offsetting!Invalid, Offsetting!Turn, OffsettingInv
  <2>2. CASE i = 13
    <3>1. i > Len(Offsetting!invalid_vals)
      BY <2>0, <2>2
    <3>2. pc' = "exit" /\ i' = 1 /\ UNCHANGED <<net, exitcode>>
      BY <1>3, <2>1, <2>2, <3>1 DEF Offsetting!Invalid, Offsetting!Turn
    <3> QED
      BY <2>1, <2>2, <3>2 DEF Offsetting!Invalid, Offsetting!Turn, OffsettingInv
  <2>3. CASE i \in 1 .. 12
    <3> DEFINE val == Offsetting!invalid_vals[i]
    <3>1. PICK takes \in Offsetting!Takes(val) :
            /\ net' = net + (IF takes THEN val[1] * SECOND + val[2] ELSE 0)
            /\ IF takes = FALSE
               THEN pc' = "invalid" /\ i' = i + 1 /\ exitcode' = exitcode
               ELSE pc' = "exit" /\ i' = i /\ exitcode' = 255
      <4>1. i <= Len(Offsetting!invalid_vals) /\ ~(i > Len(Offsetting!invalid_vals))
        BY <2>0, <2>3
      <4> QED
        BY <1>3, <4>1, Zenon DEF Offsetting!Invalid, Offsetting!Turn
    <3>2. kernel = "old" => takes = FALSE
      <4>1. val[2] \notin -SECOND + 1 .. SECOND - 1
        BY <2>3, InvalidNanoseconds
      <4>2. kernel = "old" => Offsetting!Takes(val) = {val[2] \in -SECOND + 1 .. SECOND - 1}
        BY <2>1 DEF Offsetting!Takes
      <4>3. (val[2] \in -SECOND + 1 .. SECOND - 1) = FALSE
        BY <4>1
      <4> QED
        BY <3>1, <4>2, <4>3
    <3>3. CASE takes = FALSE
      BY <2>1, <2>3, <3>1, <3>3 DEF OffsettingInv
    <3>4. CASE takes # FALSE
      <4>1. pc' = "exit" /\ exitcode' = 255 /\ kernel # "old"
        BY <3>1, <3>2, <3>4, Zenon
      <4> QED
        BY <2>1, <4>1 DEF OffsettingInv
    <3> QED
      BY <3>3, <3>4
  <2> QED
    BY <2>1, <2>2, <2>3
<1>4. CASE UNCHANGED Offsetting!vars
  BY <1>4 DEF Offsetting!vars, OffsettingInv, Sum
<1> QED
  BY <1>1, <1>2, <1>3, <1>4 DEF Offsetting!Next

\* A pass leaves the clock where it was, and an old kernel passes.
THEOREM OffsettingVerdict ==
  ASSUME Offsetting!AdjSetoffsetAssumption
  PROVE  Offsetting!Spec => []Offsetting!VerdictIsRight
<1>1. OffsettingInv => Offsetting!VerdictIsRight
  BY DEF OffsettingInv, Offsetting!VerdictIsRight
<1> QED
  BY <1>1, OffsettingStarts, OffsettingSteps, PTL DEF Offsetting!Spec

-------------------------------------------------------------------------------
(* set-tai: between set and get the offset is the one set, or one more if    *)
(* something has changed it.                                               *)

TaiInv ==
  /\ i \in Nat /\ LAST \in Nat
  /\ pc \in {"set", "get", "exit"}
  /\ pc \in {"set", "get"} => exitcode = 0 /\ i <= LAST
  /\ privileged /\ pc = "set" => ~disturbed
  /\ privileged /\ pc = "get" => tai = IF disturbed THEN i + 1 ELSE i
  /\ privileged /\ pc = "exit" => \/ exitcode = 1 /\ disturbed
                                  \/ exitcode = 0 /\ ~disturbed /\ tai = LAST

\* The invariant of set-tai holds at the start ...
LEMMA TaiStarts == ASSUME Tai!SetTaiAssumption PROVE Tai!Init => TaiInv
BY DEF Tai!SetTaiAssumption, Tai!Init, TaiInv

LEMMA TaiSteps == TaiInv /\ [Tai!Next]_(Tai!vars) => TaiInv'
<1> SUFFICES ASSUME TaiInv, [Tai!Next]_(Tai!vars) PROVE TaiInv'
  OBVIOUS
<1> USE DEF TaiInv, Tai!Goto
<1>1. CASE Tai!Disturb
  BY <1>1 DEF Tai!Disturb
<1>2. CASE Tai!set_tai
  BY <1>2 DEF Tai!set_tai
<1>3. CASE Tai!get_tai
  BY <1>3 DEF Tai!get_tai
<1>4. CASE UNCHANGED Tai!vars
  BY <1>4 DEF Tai!vars
<1> QED
  BY <1>1, <1>2, <1>3, <1>4 DEF Tai!Next

\* It fails where it may not set the offset or that is changed under it, and passes
\* only if every one was in effect.
THEOREM TaiVerdict ==
  ASSUME Tai!SetTaiAssumption PROVE Tai!Spec => []Tai!VerdictIsRight
<1>1. TaiInv => Tai!VerdictIsRight
  BY DEF TaiInv, Tai!VerdictIsRight
<1> QED
  BY <1>1, TaiStarts, TaiSteps, PTL DEF Tai!Spec

-------------------------------------------------------------------------------
(* The suite: a behaviour is one of a program in a set-up, and an invariant  *)
(* of the program is one of the suite in that set-up.                      *)

SuiteInv ==
  /\ setup = "changing" => ChangingInv
  /\ setup = "turning" => TurningInv
  /\ \A s \in Switchings : setup = s => SwitchingInv(s)
  /\ \A s \in Datings : setup = s => DatingIInv(s)
  /\ \A s \in Convergings : setup = s => ConvergingInv(s)
  /\ setup = "ticking" => Ticking!ThingsAreSetBack /\ TickInv
  /\ setup = "validating" => ValidatingInv
  /\ setup = "offsetting" => OffsettingInv
  /\ setup = "tai" => TaiInv

\* The set-ups differ from one another.
LEMMA SetupsDiffer ==
  LET Single == {"changing", "turning", "ticking", "validating", "offsetting", "tai"}
  IN  /\ Single \cap Switchings = {} /\ Single \cap Datings = {} /\ Single \cap Convergings = {}
      /\ Switchings \cap Datings = {} /\ Switchings \cap Convergings = {}
      /\ Datings \cap Convergings = {}
BY DEF Switchings, Datings, Convergings

\* The invariant of the suite holds at the start ...
LEMMA SuiteStarts == Init => SuiteInv
<1> SUFFICES ASSUME Init PROVE SuiteInv
  OBVIOUS
<1> USE SetBackAssumption DEF SetBackAssumption
<1>1. CASE setup = "changing" /\ Changing!Init
  BY <1>1, ChangingStarts DEF SuiteInv, Switchings, Datings, Convergings
<1>2. CASE setup = "turning" /\ Turning!Init
  BY <1>2, TurningStarts DEF SuiteInv, Switchings, Datings, Convergings
<1>3. CASE \E s \in Switchings : setup = s /\ Switching(s)!Init
  BY <1>3, SwitchingStarts DEF SuiteInv, Switchings, Datings, Convergings
<1>4. CASE \E s \in Datings : setup = s /\ Dating(s)!Init
  BY <1>4, DatingStarts DEF SuiteInv, Switchings, Datings, Convergings
<1>5. CASE \E s \in Convergings : setup = s /\ Converging(s)!Init
  BY <1>5, ConvergingStarts DEF SuiteInv, Switchings, Datings, Convergings
<1>6. CASE setup = "ticking" /\ Ticking!Init
  BY <1>6, TickingStarts, TickStarts DEF SuiteInv, Switchings, Datings, Convergings
<1>7. CASE setup = "validating" /\ Validating!Init
  BY <1>7, ValidatingStarts DEF SuiteInv, Switchings, Datings, Convergings
<1>8. CASE setup = "offsetting" /\ Offsetting!Init
  BY <1>8, OffsettingStarts DEF SuiteInv, Switchings, Datings, Convergings
<1>9. CASE setup = "tai" /\ Tai!Init
  BY <1>9, TaiStarts DEF SuiteInv, Switchings, Datings, Convergings
<1> QED
  BY <1>1, <1>2, <1>3, <1>4, <1>5, <1>6, <1>7, <1>8, <1>9, Zenon DEF Init

LEMMA SuiteSteps == SuiteInv /\ [Next]_vars => SuiteInv'
<1> SUFFICES ASSUME SuiteInv, [Next]_vars PROVE SuiteInv'
  OBVIOUS
<1> USE SetBackAssumption DEF SetBackAssumption
<1>1. CASE ChangeSkew("changing") /\ Changing!Next
  <2>1. setup = "changing" /\ setup' = "changing" /\ ChangingInv'
    BY <1>1, ChangingSteps DEF ChangeSkew, SuiteInv
  <2> QED
    BY <2>1 DEF SuiteInv, Switchings, Datings, Convergings
<1>2. CASE SkewConsistency("turning") /\ Turning!Next
  <2>1. setup = "turning" /\ setup' = "turning" /\ TurningInv'
    BY <1>2, TurningSteps DEF SkewConsistency, SuiteInv
  <2> QED
    BY <2>1 DEF SuiteInv, Switchings, Datings, Convergings
<1>3. ASSUME NEW s \in Switchings, ClocksourceSwitch(s), Switching(s)!Next PROVE SuiteInv'
  <2>1. setup = s /\ setup' = s /\ SwitchingInv(s)'
    BY <1>3, SwitchingSteps DEF ClocksourceSwitch, SuiteInv
  <2> QED
    BY <2>1 DEF SuiteInv, Switchings, Datings, Convergings
<1>4. ASSUME NEW s \in Datings, Set2038(s), Dating(s)!Next PROVE SuiteInv'
  <2>1. setup = s /\ setup' = s /\ DatingIInv(s)'
    BY <1>4, DatingSteps DEF Set2038, SuiteInv
  <2> QED
    BY <2>1 DEF SuiteInv, Switchings, Datings, Convergings
<1>5. ASSUME NEW s \in Convergings, NtpConverge(s), Converging(s)!Next PROVE SuiteInv'
  <2>1. setup = s /\ setup' = s /\ ConvergingInv(s)'
    BY <1>5, ConvergingSteps DEF NtpConverge, SuiteInv
  <2> QED
    BY <2>1 DEF SuiteInv, Switchings, Datings, Convergings
<1>6. CASE AdjTick("ticking") /\ Ticking!Next
  <2>1. setup = "ticking" /\ setup' = "ticking" /\ Ticking!ThingsAreSetBack' /\ TickInv'
    BY <1>6, TickingSteps, TickSteps DEF AdjTick, SuiteInv
  <2> QED
    BY <2>1 DEF SuiteInv, Switchings, Datings, Convergings
<1>7. CASE ValidAdjtimex("validating") /\ Validating!Next
  <2>1. setup = "validating" /\ setup' = "validating" /\ ValidatingInv'
    BY <1>7, ValidatingSteps DEF ValidAdjtimex, SuiteInv
  <2> QED
    BY <2>1 DEF SuiteInv, Switchings, Datings, Convergings
<1>8. CASE AdjSetoffset("offsetting") /\ Offsetting!Next
  <2>1. setup = "offsetting" /\ setup' = "offsetting" /\ OffsettingInv'
    BY <1>8, OffsettingSteps DEF AdjSetoffset, SuiteInv
  <2> QED
    BY <2>1 DEF SuiteInv, Switchings, Datings, Convergings
<1>9. CASE SetTai("tai") /\ Tai!Next
  <2>1. setup = "tai" /\ setup' = "tai" /\ TaiInv'
    BY <1>9, TaiSteps DEF SetTai, SuiteInv
  <2> QED
    BY <2>1 DEF SuiteInv, Switchings, Datings, Convergings
<1>10. CASE UNCHANGED vars
  <2> USE <1>10 DEF vars, skewVars, childVars, turnVars, switchVars, eraVars, ntpVars, tickVars, kernelVars
  <2>1. setup' = setup
    OBVIOUS
  <2>2. setup = "changing" => ChangingInv'
    BY ChangingSteps DEF SuiteInv, Changing!vars
  <2>3. setup = "turning" => TurningInv'
    BY TurningSteps DEF SuiteInv, Turning!vars
  <2>4. ASSUME NEW s \in Switchings, setup = s PROVE SwitchingInv(s)'
    BY <2>4, SwitchingSteps DEF SuiteInv, Switching!vars
  <2>5. ASSUME NEW s \in Datings, setup = s PROVE DatingIInv(s)'
    BY <2>5, DatingSteps DEF SuiteInv, Dating!vars
  <2>6. ASSUME NEW s \in Convergings, setup = s PROVE ConvergingInv(s)'
    BY <2>6, ConvergingSteps DEF SuiteInv, Converging!vars
  <2>7. setup = "ticking" => Ticking!ThingsAreSetBack' /\ TickInv'
    BY TickingSteps, TickSteps DEF SuiteInv, Ticking!vars, Ticking!kernelVars
  <2>8. setup = "validating" => ValidatingInv'
    BY ValidatingSteps DEF SuiteInv, Validating!vars
  <2>9. setup = "offsetting" => OffsettingInv'
    BY OffsettingSteps DEF SuiteInv, Offsetting!vars
  <2>10. setup = "tai" => TaiInv'
    BY TaiSteps DEF SuiteInv, Tai!vars
  <2> QED
    BY <2>1, <2>2, <2>3, <2>4, <2>5, <2>6, <2>7, <2>8, <2>9, <2>10 DEF SuiteInv
<1> QED
  BY <1>1, <1>2, <1>3, <1>4, <1>5, <1>6, <1>7, <1>8, <1>9, <1>10, Zenon DEF Next

\* Types, in every set-up.
THEOREM SuiteTypes == Spec => []TypeOK
<1>1. SuiteInv => TypeOK
  BY DEF SuiteInv, TypeOK, ChangingInv, TurningInv, SwitchingInv, DatingIInv, DatingInv,
     ConvergingInv
<1> QED
  BY <1>1, SuiteStarts, SuiteSteps, PTL DEF Spec

\* However the tests go, the machine has at exit what the program found or what
\* its contract says it leaves; the clocksource too, if its name was read with its end
\* and the write that goes back to it is not refused.
THEOREM SuiteRestoresMachine == Spec => []MachineIsRestored
<1>1. SuiteInv => KeepsContract
  <2> SUFFICES ASSUME SuiteInv, pc = "exit", privileged, exitcode # 255,
                      NEW knob \in Knobs, Moved(knob)
               PROVE  knob \in Leaves(Program)
    BY DEF KeepsContract
  <2>1. CASE setup = "changing"
    BY <2>1 DEF Moved, SuiteInv, ChangingInv, Switchings, Datings
  <2>2. CASE setup = "turning"
    BY <2>2 DEF Moved, Program, Leaves, Switchings, Datings
  <2>3. CASE setup = "ticking"
    BY <2>3 DEF Moved, SuiteInv, Ticking!ThingsAreSetBack, Switchings, Datings
  <2>4. CASE setup = "validating"
    BY <2>4 DEF Moved, SuiteInv, ValidatingInv, Validating!FreqIsReset,
       Switchings, Datings
  <2>5. CASE setup \in Switchings
    BY <2>5, SetupsDiffer DEF Moved, Program, Leaves
  <2>6. CASE setup \in Datings
    BY <2>6, SetupsDiffer DEF Moved, Program, Leaves
  <2> QED
    BY <2>1, <2>2, <2>3, <2>4, <2>5, <2>6 DEF Moved
<1>2. SuiteInv => MachineIsRestored
  BY <1>1 DEF SuiteInv, MachineIsRestored, ChangingInv, Changing!ThingsAreSetBack, ValidatingInv,
     SwitchingInv, Switching!OriginalIsRestored, DatingIInv, DatingInv, Dating!EraIsRestored
<1> QED
  BY <1>2, SuiteStarts, SuiteSteps, PTL DEF Spec

\* No child, no ntpd and no file of it is left behind.
THEOREM SuiteLeavesNothing == Spec => []NothingIsLeft
<1>1. SuiteInv => NothingIsLeft
  BY DEF SuiteInv, NothingIsLeft, TurningInv, Turning!ChildIsReaped, SwitchingInv,
     Switching!ChildIsReaped, ConvergingInv, CompleteInv
<1> QED
  BY <1>1, SuiteStarts, SuiteSteps, PTL DEF Spec

\* What a pass means: in five of the programs that everything on the list was tried and
\* came out as it should, in the two that only see what becomes of a child that no signal
\* has killed its command.
THEOREM SuitePassesAreEarned == Spec => []PassMeansWhatMainSaw
<1>1. SuiteInv /\ setup = "changing" => Changing!OkMeansAllTested
  BY DEF SuiteInv, ChangingInv, Changing!OkMeansAllTested
<1>2. SuiteInv /\ setup = "turning" => Turning!OnlyKilledCheckFails
  BY EndsAsNumbers DEF SuiteInv, TurningInv, Turning!OnlyKilledCheckFails
<1>3. ASSUME SuiteInv, NEW s \in Switchings, setup = s PROVE Switching(s)!PassMeansSaneAlone
  BY <1>3 DEF SuiteInv, SwitchingInv, Switching!PassMeansSaneAlone
<1>4. ASSUME SuiteInv, NEW s \in Datings \ (Refuses \cup (is32bits \cap dangerous)), setup = s
      PROVE  Dating(s)!VerdictIsRight
  BY <1>4, DatingVerdictHolds DEF SuiteInv, EdgesAreSet
<1>5. SuiteInv /\ setup = "validating" => Validating!VerdictIsRight
  BY SetBackAssumption, BothTables DEF SetBackAssumption, SuiteInv, ValidatingInv,
     Validating!VerdictIsRight
<1>6. SuiteInv /\ setup = "offsetting" => Offsetting!VerdictIsRight
  BY DEF SuiteInv, OffsettingInv, Offsetting!VerdictIsRight
<1>7. SuiteInv /\ setup = "tai" => Tai!VerdictIsRight
  BY DEF SuiteInv, TaiInv, Tai!VerdictIsRight
<1>8. SuiteInv => PassMeansWhatMainSaw
  BY <1>1, <1>2, <1>3, <1>4, <1>5, <1>6, <1>7 DEF PassMeansWhatMainSaw
<1> QED
  BY <1>8, SuiteStarts, SuiteSteps, PTL DEF Spec

\* adjtick: a pass means that every tick was in effect and the clock followed it, and
\* a sound clock that no ntpd has touched passes, where the readings can tell.
THEOREM SuiteJudgesTicks == Spec => []TickIsJudged
<1>1. SuiteInv => TickIsJudged
  BY TickVerdict DEF SuiteInv, TickIsJudged
<1> QED
  BY <1>1, SuiteStarts, SuiteSteps, PTL DEF Spec

\* Switching begins when every clocksource is known to be good, ntpd starts from the
\* offset asked for, and the logger sees all of it.
THEOREM SuiteExperimentIsSound == Spec => []ExperimentIsSound
<1>1. SuiteInv => ExperimentIsSound
  BY DEF SuiteInv, ExperimentIsSound, SwitchingInv, Switching!SaneBeforeSwitching, ConvergingInv,
     InTimeInv, CourseInv, Converging!LoggedToTheEnd
<1> QED
  BY <1>1, SuiteStarts, SuiteSteps, PTL DEF Spec
===============================================================================
