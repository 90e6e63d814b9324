------------------------------- MODULE Set2038 -------------------------------
(***************************************************************************)
(* set-2038.c: times the kernel must refuse, then the consistency tests     *)
(* under times near the edges of the time types, then the clock is set      *)
(* back.  A time is kept as the edge it is counted from and the seconds     *)
(* that have passed since it was set, which is all that can be told from    *)
(* the outcome.                                                            *)
(***************************************************************************)
EXTENDS Processes, Sequences

CONSTANTS
  is32bits,   \* sizeof(long) == 4
  dangerous,  \* -d
  BadKernel,  \* TRUE: the kernel may take times it must refuse
  Refuses,    \* TRUE: the kernel may refuse a time near an edge
  MaxSecs     \* bound: seconds the program takes

\* What the constants may be.
Set2038Assumption ==
  {is32bits, dangerous, BadKernel, Refuses} \subseteq BOOLEAN /\ MaxSecs \in Nat

VARIABLES
  clock,    \* [from, secs]: the edge (or "start") and the seconds since
  elapsed,  \* history: the seconds since the program took note of the start
  pc, step, ret, exitcode,
  tested,   \* history: the edges the tests have run, and passed, under
  taken     \* history: a time that must be refused was taken

vars == <<clock, elapsed, pc, step, ret, exitcode, tested, taken>>

\* First, crazy values that must not work; YEAR_2262 only for a 64 bit time.
Crazy == IF is32bits THEN <<"1901", "MAX">> ELSE <<"1901", "MAX", "2262">>

\* Then behaviour near edges; the last two only if -d allows it on 32 bits.
Edges == IF is32bits /\ ~dangerous THEN <<"1970", "2038-600">>
         ELSE <<"1970", "2038-600", "2038-10", "2262-600">>

Init ==
  /\ clock = [from |-> "start", secs |-> 0] /\ elapsed = 0
  /\ pc = "crazy" /\ step = 1 /\ ret = 0 /\ exitcode = 0
  /\ tested = {} /\ taken = FALSE

\* A second passes.
Tick ==
  /\ pc # "exit" /\ elapsed < MaxSecs
  /\ clock' = [clock EXCEPT !.secs = @ + 1]
  /\ elapsed' = elapsed + 1
  /\ UNCHANGED <<pc, step, ret, exitcode, tested, taken>>

Goto(from, to) == pc = from /\ pc' = to

\* (time_t)time: 32 bits turn the last edge into a day of 1990.
time_t(edge) == IF is32bits /\ edge = "2262-600" THEN "1990" ELSE edge

\* settime as settimeofday has done it: the clock starts from there.
settime(edge) == clock' = [from |-> time_t(edge), secs |-> 0]

\* settime of a crazy value: refused, or the test has failed.
SetCrazy ==
  /\ step <= Len(Crazy)
  /\ \/ Goto("crazy", "crazy") /\ step' = step + 1 /\ UNCHANGED <<clock, ret, taken>>
     \/ /\ BadKernel /\ Goto("crazy", "out") /\ settime(Crazy[step])
        /\ ret' = -1 /\ taken' = TRUE /\ step' = step
  /\ UNCHANGED <<elapsed, exitcode, tested>>

CrazyDone ==
  /\ step > Len(Crazy) /\ Goto("crazy", "edge")
  /\ step' = 1
  /\ UNCHANGED <<clock, elapsed, ret, exitcode, tested, taken>>

\* settime near an edge; the result is not looked at.
SetEdge ==
  /\ step <= Len(Edges) /\ Goto("edge", "tests")
  /\ settime(Edges[step]) \/ (Refuses /\ UNCHANGED clock)
  /\ UNCHANGED <<elapsed, step, ret, exitcode, tested, taken>>

\* Mutant: a failure leaves main at once.
do_tests_Leaves ==
  /\ \E inconsistency \in Results, nanosleep \in Results, nsleep_lat \in Results :
       LET passed == inconsistency = 0 /\ nanosleep = 0 /\ nsleep_lat = 0
       IN  /\ Goto("tests", IF passed THEN "edge" ELSE "exit")
           /\ step' = IF passed THEN step + 1 ELSE step
           /\ exitcode' = IF passed THEN exitcode ELSE 1
           /\ tested' = IF passed THEN tested \cup {clock.from} ELSE tested
  /\ UNCHANGED <<clock, elapsed, ret, taken>>

\* do_tests: three programs, their results or'ed.
do_tests ==
  /\ \E inconsistency \in Results, nanosleep \in Results, nsleep_lat \in Results :
       LET passed == inconsistency = 0 /\ nanosleep = 0 /\ nsleep_lat = 0
       IN  /\ Goto("tests", IF passed THEN "edge" ELSE "out")
           /\ step' = IF passed THEN step + 1 ELSE step
           /\ ret' = IF passed THEN 0 ELSE 1
           /\ tested' = IF passed THEN tested \cup {clock.from} ELSE tested
  /\ UNCHANGED <<clock, elapsed, exitcode, taken>>

EdgesDone ==
  /\ step > Len(Edges) /\ Goto("edge", "out")
  /\ UNCHANGED <<clock, elapsed, step, ret, exitcode, tested, taken>>

\* out: restore clock, and exit.
Restore ==
  /\ Goto("out", "exit")
  /\ settime("start")
  /\ exitcode' = IF ret # 0 THEN 1 ELSE 0
  /\ UNCHANGED <<elapsed, step, ret, tested, taken>>

Next ==
  \/ Tick \/ SetCrazy \/ CrazyDone \/ SetEdge \/ do_tests \/ EdgesDone \/ Restore
  \/ pc = "exit" /\ UNCHANGED vars

Spec == Init /\ [][Next]_vars

-------------------------------------------------------------------------------
(* Properties.                                                             *)

\* Type invariant.
TypeOK ==
  /\ clock.from \in {"start", "1901", "MAX", "2262", "1970", "2038-600", "2038-10", "2262-600",
                     "1990"}
  /\ clock.secs \in Nat /\ elapsed \in Nat
  /\ pc \in {"crazy", "edge", "tests", "out", "exit"} /\ step \in 1 .. 5
  /\ ret \in {-1, 0, 1} /\ exitcode \in {0, 1} /\ taken \in BOOLEAN

\* However the tests go, the machine is not left near an edge: the program
\* exits with the clock back in the time it was started in.
EraIsRestored == pc = "exit" => clock.from = "start"

\* The program passes if and only if no crazy time was taken and the tests have
\* passed under every edge.
VerdictIsRight ==
  pc = "exit" =>
    (exitcode = 0 <=> ~taken /\ tested = {Edges[k] : k \in DOMAIN Edges})

\* "Now test behavior near edges": a pass means that it was tested there.
PassMeansTested ==
  pc = "exit" /\ exitcode = 0 => {Edges[k] : k \in DOMAIN Edges} \subseteq tested

\* "restore clock": at exit the clock shows the time it would have shown.
ClockIsRestored == pc = "exit" => clock = [from |-> "start", secs |-> elapsed]
===============================================================================
