----------------------------- MODULE ClocksProofs -----------------------------
(***************************************************************************)
(* The safety properties of the programs that read a clock over and over    *)
(* and judge it, one section for each, for all constants of Clocks.  The     *)
(* last section puts them together: the properties of Clocks itself.         *)
(***************************************************************************)
EXTENDS Clocks, TLAPS, WellFoundedInduction

-------------------------------------------------------------------------------
(* inconsistency-check, for every length of the list and of the run and      *)
(* every width of a second.  BatchInv is what a batch is whatever the clock  *)
(* does.  ForwardInv is what holds as long as the clock has not stepped      *)
(* back: the samples taken so far are in order and no later than the clock,  *)
(* and the seconds since then are those that have really passed.             *)


Testing == pc \in {"while", "fill", "check"}

\* Where the batch is, and what a verdict of no inconsistency is worth: nothing
\* is known of the first pair.
BatchInv ==
  /\ Checking!TypeOK
  /\ pc = "fill" => i < CALLS_PER_LOOP
  /\ pc = "check" => i = CALLS_PER_LOOP
  /\ pc \in {"while", "next"} /\ inconsistent = 0 /\ i = CALLS_PER_LOOP =>
       \A c \in Checking!Calls \ {0} : c + 1 \in Checking!Calls =>
         Checking!in_order(list[c], list[c + 1])

Seconds(n) == NSEC_PER_SEC * n

TicksInv == ticks = Seconds(clock.tv_sec - FirstSecond) + clock.tv_nsec

SamplesInv ==
  pc \in {"fill", "check"} =>
    /\ \A c \in Checking!Calls : c < i => Checking!in_order(list[c], clock)
    /\ \A c \in Checking!Calls : c + 1 < i => Checking!in_order(list[c], list[c + 1])

ElapsedInv ==
  Testing =>
    /\ then + elapsed = clock.tv_sec
    /\ then <= now /\ now <= clock.tv_sec
    /\ then <= list[0].tv_sec /\ list[0].tv_sec <= clock.tv_sec

VerdictInv == "FAILED" \notin verdicts /\ exitcode = 0

ForwardInv == steps = 0 => TicksInv /\ SamplesInv /\ ElapsedInv /\ VerdictInv

-------------------------------------------------------------------------------
\* What the proofs use of the constants.
LEMMA CheckingConstants ==
  /\ WORD \in Nat /\ WORD > 0 /\ CALLS_PER_LOOP \in Nat /\ CALLS_PER_LOOP > 0
  /\ NSEC_PER_SEC \in Nat /\ NSEC_PER_SEC > 0
  /\ runtime \in Int /\ runtime < WORD /\ FirstSecond \in Checking!Words /\ 0 \in Checking!Calls
  /\ userclock \in Nat /\ MaxTicks \in Nat /\ StepsBack \in Nat
BY ClocksAssumption
DEF ClocksAssumption, Checking!InconsistencyAssumption, Checking!Words, Checking!Calls

\* An unsigned number is a value of the type, and one that fits is itself.
LEMMA UnsignedIsWord ==
  ASSUME NEW n \in Int
  PROVE  Checking!Unsigned(n) \in Checking!Words /\ (n \in Checking!Words =>
    Checking!Unsigned(n) = n)
BY CheckingConstants DEF Checking!Unsigned, Checking!Words

\* A nanosecond is added with its carry.
LEMMA AddOne ==
  ASSUME NEW c \in Checking!Instants
  PROVE  LET d == Checking!timespec_add(c, 1)
         IN  \/ /\ c.tv_nsec + 1 < NSEC_PER_SEC
                /\ d.tv_sec = c.tv_sec /\ d.tv_nsec = c.tv_nsec + 1
             \/ /\ c.tv_nsec + 1 = NSEC_PER_SEC
                /\ d.tv_sec = c.tv_sec + 1 /\ d.tv_nsec = 0
<1> DEFINE n == c.tv_nsec + 1
<1>1. n \in Nat /\ n <= NSEC_PER_SEC /\ c.tv_sec \in Int /\ NSEC_PER_SEC \in Nat \ {0}
  <2>1. c.tv_sec \in Checking!Words /\ c.tv_nsec \in 0 .. NSEC_PER_SEC - 1
    BY DEF Checking!Instants
  <2> QED
    BY <2>1, CheckingConstants DEF Checking!Words
<1>2. n < NSEC_PER_SEC => n \div NSEC_PER_SEC = 0 /\ n % NSEC_PER_SEC = n
  BY <1>1
<1>3. n = NSEC_PER_SEC => n \div NSEC_PER_SEC = 1 /\ n % NSEC_PER_SEC = 0
  BY <1>1
<1> QED
  BY <1>1, <1>2, <1>3 DEF Checking!timespec_add

\* in_order is a total order of the instants.
LEMMA Order ==
  /\ \A a \in Checking!Instants : Checking!in_order(a, a)
  /\ \A a, b, c \in Checking!Instants : Checking!in_order(a, b) /\ Checking!in_order(b, c) =>
       Checking!in_order(a, c)
  /\ \A a, b \in Checking!Instants : Checking!in_order(a, b) => a.tv_sec <= b.tv_sec
BY DEF Checking!Instants, Checking!Words, Checking!in_order

\* A set of calls that is not empty has a last one.
LEMMA LastOf ==
  ASSUME NEW S, S \subseteq Checking!Calls, S # {}
  PROVE  \E c \in S : \A d \in S : d <= c
<1> DEFINE R == {ss \in Nat \X Nat : ss[1] < ss[2]}
           T == {CALLS_PER_LOOP - c : c \in S}
<1>1. IsWellFoundedOn(R, Nat)
  BY NatLessThanWellFounded, Zenon DEF OpToRel
<1>2. T \subseteq Nat /\ T # {}
  <2>1. \A c \in Checking!Calls : CALLS_PER_LOOP - c \in Nat
    BY CheckingConstants DEF Checking!Calls
  <2>2. PICK c \in S : TRUE
    OBVIOUS
  <2>3. CALLS_PER_LOOP - c \in T
    BY <2>2
  <2> QED
    BY <2>1, <2>3
<1>3. PICK x \in T : \A y \in T : ~(<<y, x>> \in R)
  <2> HIDE DEF R, T
  <2> QED
    BY <1>1, <1>2, WFMin, Zenon
<1>4. \A y \in T : ~(y < x)
  BY <1>2, <1>3
<1>5. PICK c \in S : x = CALLS_PER_LOOP - c
  BY <1>3
<1>6. ASSUME NEW d \in S PROVE d <= c
  <2>1. ~(CALLS_PER_LOOP - d < x)
    BY <1>4
  <2> QED
    BY <1>5, <2>1, CheckingConstants DEF Checking!Calls
<1> QED
  BY <1>6

\* The scan finds a pair out of order, if there is one, and the last one.
LEMMA LastInconsistent ==
  /\ Checking!last_inconsistent \in Checking!Calls
  /\ Checking!last_inconsistent = 0 =>
       \A c \in Checking!Calls \ {0} : c + 1 \in Checking!Calls =>
         Checking!in_order(list[c], list[c + 1])
  /\ Checking!last_inconsistent # 0 =>
       \E c \in Checking!Calls : c + 1 \in Checking!Calls /\
         ~Checking!in_order(list[c], list[c + 1])
<1> DEFINE bad == {c \in Checking!Calls : c + 1 \in Checking!Calls /\
      ~Checking!in_order(list[c], list[c + 1])}
           final == CHOOSE c \in bad : \A d \in bad : d <= c
<1>1. Checking!last_inconsistent = IF bad = {} THEN 0 ELSE final
  BY DEF Checking!last_inconsistent
<1>2. bad \subseteq Checking!Calls
  OBVIOUS
<1>3. CASE bad = {}
  <2>1. \A c \in Checking!Calls : c + 1 \in Checking!Calls =>
          Checking!in_order(list[c], list[c + 1])
    BY <1>3
  <2> HIDE DEF bad
  <2> QED
    BY <1>1, <1>3, <2>1, CheckingConstants
<1>4. CASE bad # {}
  <2>1. final \in bad /\ \A d \in bad : d <= final
    <3> HIDE DEF bad
    <3>1. \E c \in bad : \A d \in bad : d <= c
      BY <1>2, <1>4, LastOf
    <3> QED
      BY <3>1
  <2>2. Checking!last_inconsistent = final
    BY <1>1, <1>4
  <2> HIDE DEF final
  <2>3. Checking!last_inconsistent \in Checking!Calls /\ \E c \in Checking!Calls :
          c + 1 \in Checking!Calls /\ ~Checking!in_order(list[c], list[c + 1])
    BY <1>2, <2>1, <2>2
  <2>4. ASSUME Checking!last_inconsistent = 0, NEW c \in Checking!Calls \ {0},
               c + 1 \in Checking!Calls
        PROVE  Checking!in_order(list[c], list[c + 1])
    <3>1. c \notin bad
      <4>1. \A d \in bad : d <= 0
        BY <2>1, <2>2, <2>4
      <4>2. c > 0
        BY CheckingConstants DEF Checking!Calls
      <4> HIDE DEF bad
      <4> QED
        BY <4>1, <4>2, CheckingConstants DEF Checking!Calls
    <3> QED
      BY <2>4, <3>1
  <2> QED
    BY <2>3, <2>4
<1> QED
  BY <1>3, <1>4

-------------------------------------------------------------------------------
\* A batch, whatever the clock does.
LEMMA BatchStarts == Checking!Init => BatchInv
<1> SUFFICES ASSUME Checking!Init PROVE BatchInv
  OBVIOUS
<1>1. clock \in Checking!Instants
  <2>1. FirstSecond \in Checking!Words /\ 0 \in 0 .. NSEC_PER_SEC - 1
    BY CheckingConstants
  <2> QED
    BY <2>1 DEF Checking!Init, Checking!Instants
<1>2. /\ 0 \in 0 .. MaxTicks /\ 0 \in 0 .. StepsBack /\ 0 \in 0 .. CALLS_PER_LOOP
      /\ 0 \in Checking!Words /\ 0 \in Nat /\ 0 \in {0, 1} /\ 0 # CALLS_PER_LOOP
  BY CheckingConstants DEF Checking!Words
<1>3. Checking!TypeOK
  BY <1>1, <1>2, CheckingConstants DEF Checking!Init, Checking!TypeOK
<1> QED
  BY <1>2, <1>3 DEF Checking!Init, BatchInv

\* The clock may become any instant.
LEMMA ClockBatch ==
  ASSUME BatchInv, Checking!Tick \/ Checking!StepBack
  PROVE  BatchInv'
<1>1. UNCHANGED <<pc, clockid, list, i, inconsistent, now, then, exitcode, verdicts>>
  BY DEF Checking!Tick, Checking!StepBack
<1>2. clock' \in Checking!Instants /\ ticks' \in 0 .. MaxTicks /\ steps' \in 0 .. StepsBack /\
        elapsed' \in Nat
  <2>1. CASE Checking!Tick
    <3> DEFINE c == Checking!timespec_add(clock, 1)
    <3>1. /\ clock \in Checking!Instants /\ ticks \in 0 .. MaxTicks /\ ticks < MaxTicks /\
               ticks' = ticks + 1
          /\ elapsed \in Nat /\ elapsed' = elapsed + (c.tv_sec - clock.tv_sec)
          /\ steps \in 0 .. StepsBack /\ steps' = steps
          /\ clock' = [c EXCEPT !.tv_sec = Checking!Unsigned(@)]
      BY <2>1 DEF Checking!Tick, BatchInv, Checking!TypeOK
    <3>2. c = [tv_sec |-> c.tv_sec, tv_nsec |-> c.tv_nsec]
      BY DEF Checking!timespec_add
    <3>3. /\ c.tv_nsec \in 0 .. NSEC_PER_SEC - 1 /\ c.tv_sec \in Int
          /\ c.tv_sec - clock.tv_sec \in Nat
      <4>1. clock.tv_sec \in Checking!Words /\ clock.tv_nsec \in 0 .. NSEC_PER_SEC - 1
        BY <3>1 DEF Checking!Instants
      <4>2. \/ /\ clock.tv_nsec + 1 < NSEC_PER_SEC
               /\ c.tv_sec = clock.tv_sec /\ c.tv_nsec = clock.tv_nsec + 1
            \/ c.tv_sec = clock.tv_sec + 1 /\ c.tv_nsec = 0
        BY <3>1, AddOne
      <4> HIDE DEF c
      <4> QED
        BY <4>1, <4>2, CheckingConstants DEF Checking!Words
    <3> HIDE DEF c
    <3>4. clock' = [tv_sec |-> Checking!Unsigned(c.tv_sec), tv_nsec |-> c.tv_nsec]
      BY <3>1, <3>2
    <3>5. clock' \in Checking!Instants
      BY <3>3, <3>4, UnsignedIsWord DEF Checking!Instants
    <3> QED
      BY <3>1, <3>3, <3>5, CheckingConstants
  <2>2. CASE Checking!StepBack
    <3>1. /\ clock' \in Checking!Instants /\ steps' = steps + 1 /\ steps < StepsBack
          /\ ticks' = ticks /\ elapsed' = elapsed
      BY <2>2 DEF Checking!StepBack
    <3>2. steps \in 0 .. StepsBack /\ ticks \in 0 .. MaxTicks /\ elapsed \in Nat
      BY DEF BatchInv, Checking!TypeOK
    <3> QED
      BY <3>1, <3>2, CheckingConstants
  <2> QED
    BY <2>1, <2>2
<1>3. Checking!TypeOK'
  BY <1>1, <1>2 DEF BatchInv, Checking!TypeOK
<1> QED
  BY <1>1, <1>3 DEF BatchInv

\* So are the samples, and the scan sees all of them but the first pair.
LEMMA BatchSteps ==
  ASSUME BatchInv, [Checking!Next]_(Checking!vars)
  PROVE  BatchInv'
<1> USE DEF BatchInv
<1>0. /\ clock \in Checking!Instants /\ ticks \in 0 .. MaxTicks /\ steps \in 0 .. StepsBack
      /\ elapsed \in Nat /\ clockid \in Nat /\ list \in [Checking!Calls -> Checking!Instants]
      /\ i \in 0 .. CALLS_PER_LOOP /\ inconsistent \in Checking!Calls /\
           now \in Checking!Words /\ then \in Checking!Words
      /\ clock.tv_sec \in Checking!Words /\ 0 \in Checking!Calls /\
           list[0].tv_sec \in Checking!Words
  BY CheckingConstants DEF Checking!TypeOK, Checking!Instants
<1>1. CASE Checking!NextClock
  <2>1. /\ UNCHANGED <<clock, ticks, steps, i, inconsistent, exitcode, verdicts>>
        /\ pc = "next" /\ pc' \in {"next", "while", "exit"}
        /\ clockid' \in {clockid, clockid + 1}
        /\ \/ UNCHANGED <<list, now, then, elapsed>>
           \/ /\ list' = [list EXCEPT ![0] = clock]
              /\ now' = clock.tv_sec /\ then' = clock.tv_sec /\ elapsed' = 0
    BY <1>1 DEF Checking!NextClock, Checking!Goto
  <2>2. list' \in [Checking!Calls -> Checking!Instants] /\ \A c \in Checking!Calls \ {0} :
          list'[c] = list[c]
    BY <1>0, <2>1
  <2>3. now' \in Checking!Words /\ then' \in Checking!Words /\ elapsed' \in Nat /\
          clockid' \in Nat
    BY <1>0, <2>1
  <2>4. Checking!TypeOK'
    BY <2>1, <2>2, <2>3 DEF Checking!TypeOK
  <2>5. \A c \in Checking!Calls \ {0} : c + 1 \in Checking!Calls => c + 1 \in Checking!Calls \ {0}
    BY CheckingConstants DEF Checking!Calls
  <2> QED
    BY <2>1, <2>2, <2>4, <2>5
<1>2. CASE Checking!TestTime
  <2>1. /\ UNCHANGED <<clock, ticks, steps, elapsed, list, now, then, exitcode>>
        /\ \/ pc' = "fill" /\ i' = 0 /\ inconsistent' = 0 /\ UNCHANGED <<clockid, verdicts>>
           \/ /\ pc = "while" /\ pc' = "next" /\ verdicts' = verdicts \cup {"OK"}
              /\ clockid' = clockid + 1 /\ UNCHANGED <<i, inconsistent>>
    BY <1>2 DEF Checking!TestTime, Checking!Goto, Checking!clockVars
  <2>2. i' \in 0 .. CALLS_PER_LOOP /\ inconsistent' \in Checking!Calls /\ clockid' \in Nat
    BY <1>0, <2>1, CheckingConstants
  <2>3. Checking!TypeOK'
    BY <2>1, <2>2 DEF Checking!TypeOK
  <2> QED
    BY <2>1, <2>3, CheckingConstants
<1>3. CASE Checking!Fill
  <2>1. /\ pc = "fill" /\ list' = [list EXCEPT ![i] = clock] /\ i' = i + 1
        /\ (i + 1 < CALLS_PER_LOOP /\ pc' = "fill") \/ (~(i + 1 < CALLS_PER_LOOP) /\
             pc' = "check")
        /\ UNCHANGED <<clock, ticks, steps, elapsed, clockid, inconsistent, now, then, exitcode,
                       verdicts>>
    BY <1>3 DEF Checking!Fill, Checking!Goto, Checking!clockVars
  <2>2. i < CALLS_PER_LOOP
    BY <2>1
  <2>3. /\ i' \in 0 .. CALLS_PER_LOOP /\ (pc' = "fill" => i' < CALLS_PER_LOOP)
        /\ (pc' = "check" => i' = CALLS_PER_LOOP)
    BY <1>0, <2>1, <2>2, CheckingConstants
  <2>4. list' \in [Checking!Calls -> Checking!Instants]
    BY <1>0, <2>1
  <2>5. Checking!TypeOK'
    BY <2>1, <2>3, <2>4 DEF Checking!TypeOK
  <2> QED
    BY <2>1, <2>3, <2>5
<1>4. CASE Checking!Check
  <2>1. /\ pc = "check" /\ inconsistent' = Checking!last_inconsistent
        /\ UNCHANGED <<clock, ticks, steps, elapsed, clockid, list, i, then>>
        /\ \/ pc' = "exit" /\ exitcode' = 1 /\ verdicts' = verdicts \cup {"FAILED"} /\ now' = now
           \/ pc' = "while" /\ now' = list[0].tv_sec /\ UNCHANGED <<exitcode, verdicts>>
    BY <1>4 DEF Checking!Check, Checking!Goto, Checking!clockVars
  <2>2. Checking!TypeOK'
    BY <1>0, <2>1, LastInconsistent DEF Checking!TypeOK
  <2>3. inconsistent' = 0 =>
          \A c \in Checking!Calls \ {0} : c + 1 \in Checking!Calls =>
            Checking!in_order(list'[c], list'[c + 1])
    BY <2>1, LastInconsistent
  <2> QED
    BY <2>1, <2>2, <2>3
<1>5. CASE UNCHANGED Checking!vars
  BY <1>5 DEF Checking!vars, Checking!clockVars, Checking!TypeOK
<1> QED
  BY <1>1, <1>2, <1>3, <1>4, <1>5, ClockBatch DEF Checking!Next

\* The batch invariant holds in every run of inconsistency-check.
THEOREM BatchInvariant == Checking!Spec => []BatchInv
<1>1. BatchInv /\ [Checking!Next]_(Checking!vars) => BatchInv'
  BY BatchSteps
<1> QED
  BY <1>1, BatchStarts, PTL DEF Checking!Spec

-------------------------------------------------------------------------------
\* A clock that has only moved forward.
LEMMA SecondsStep ==
  \A n \in Int : Seconds(n) \in Int /\ Seconds(n + 1) = Seconds(n) + NSEC_PER_SEC
BY CheckingConstants DEF Seconds

\* So many ticks take it no further than this.
LEMMA SecondsOfTicks ==
  ASSUME NEW n \in Int, Seconds(n) <= MaxTicks
  PROVE  FirstSecond + n \in Int /\ FirstSecond + n < WORD
<1> DEFINE q == MaxTicks \div NSEC_PER_SEC
<1>1. q \in Int /\ MaxTicks < NSEC_PER_SEC * (q + 1)
  BY CheckingConstants
<1>2. FirstSecond + q < WORD
  BY ClocksAssumption DEF ClocksAssumption
<1> HIDE DEF q
<1>3. CASE n >= q + 1
  <2>1. NSEC_PER_SEC * n >= NSEC_PER_SEC * (q + 1)
    BY <1>1, <1>3, CheckingConstants
  <2> QED
    BY <1>1, <2>1, CheckingConstants DEF Seconds
<1> QED
  BY <1>1, <1>2, <1>3, CheckingConstants DEF Checking!Words

\* It holds at the start ...
LEMMA ForwardStarts == Checking!Init => ForwardInv
BY CheckingConstants, SMT
DEF Checking!Init, ForwardInv, TicksInv, SamplesInv, ElapsedInv, VerdictInv, Testing, Seconds,
    Checking!Words

\* The samples stay behind the clock, and the seconds go on as they really pass.
LEMMA TickForward ==
  ASSUME BatchInv, ForwardInv, Checking!Tick, steps' = 0
  PROVE  ForwardInv'
<1> DEFINE c == Checking!timespec_add(clock, 1)
<1>1. /\ UNCHANGED <<pc, clockid, list, i, inconsistent, now, then, exitcode, verdicts>>
      /\ clock' = [c EXCEPT !.tv_sec = Checking!Unsigned(@)]
      /\ ticks < MaxTicks /\ ticks' = ticks + 1
      /\ elapsed' = elapsed + (c.tv_sec - clock.tv_sec)
      /\ TicksInv /\ SamplesInv /\ ElapsedInv /\ VerdictInv
  BY DEF Checking!Tick, ForwardInv
<1>2. /\ clock \in Checking!Instants /\ clock' \in Checking!Instants /\
           list \in [Checking!Calls -> Checking!Instants]
      /\ ticks \in Nat /\ elapsed \in Nat /\ then \in Checking!Words /\ now \in Checking!Words /\
           0 \in Checking!Calls
      /\ list[0] \in Checking!Instants
  BY ClockBatch, CheckingConstants DEF BatchInv, Checking!TypeOK
<1>3. /\ clock.tv_sec \in Checking!Words /\ clock.tv_nsec \in 0 .. NSEC_PER_SEC - 1
      /\ list[0].tv_sec \in Checking!Words
  BY <1>2 DEF Checking!Instants
<1>4. \/ /\ clock.tv_nsec + 1 < NSEC_PER_SEC
         /\ c.tv_sec = clock.tv_sec /\ c.tv_nsec = clock.tv_nsec + 1
      \/ /\ clock.tv_nsec + 1 = NSEC_PER_SEC
         /\ c.tv_sec = clock.tv_sec + 1 /\ c.tv_nsec = 0
  BY <1>2, AddOne
<1>5. /\ c.tv_sec \in Int /\ c.tv_nsec \in 0 .. NSEC_PER_SEC - 1 /\ clock.tv_sec <= c.tv_sec
      /\ c = [tv_sec |-> c.tv_sec, tv_nsec |-> c.tv_nsec]
  <2>1. c = [tv_sec |-> c.tv_sec, tv_nsec |-> c.tv_nsec]
    BY DEF Checking!timespec_add
  <2>2. c.tv_nsec \in 0 .. NSEC_PER_SEC - 1
    <3> HIDE DEF c
    <3> QED
      BY <1>3, <1>4, CheckingConstants
  <2>3. c.tv_sec \in Int /\ clock.tv_sec <= c.tv_sec
    <3> HIDE DEF c
    <3> QED
      BY <1>3, <1>4, CheckingConstants DEF Checking!Words
  <2> QED
    BY <2>1, <2>2, <2>3
<1> HIDE DEF c
<1>6. ticks + 1 = Seconds(c.tv_sec - FirstSecond) + c.tv_nsec
  <2>1. ticks = Seconds(clock.tv_sec - FirstSecond) + clock.tv_nsec
    BY <1>1 DEF TicksInv
  <2>2. clock.tv_sec - FirstSecond \in Int
    BY <1>3, CheckingConstants DEF Checking!Words
  <2>3. CASE c.tv_sec = clock.tv_sec /\ c.tv_nsec = clock.tv_nsec + 1
    BY <1>3, <2>1, <2>2, <2>3, SecondsStep
  <2>4. CASE clock.tv_nsec + 1 = NSEC_PER_SEC /\ c.tv_sec = clock.tv_sec + 1 /\ c.tv_nsec = 0
    <3>1. c.tv_sec - FirstSecond = (clock.tv_sec - FirstSecond) + 1
      BY <1>3, <2>4, CheckingConstants DEF Checking!Words
    <3>2. Seconds(c.tv_sec - FirstSecond) = Seconds(clock.tv_sec - FirstSecond) + NSEC_PER_SEC
      BY <2>2, <3>1, SecondsStep
    <3> QED
      BY <1>3, <2>1, <2>2, <2>4, <3>2, SecondsStep
  <2> QED
    BY <1>4, <2>3, <2>4
<1>7. c.tv_sec \in Checking!Words
  <2>1. c.tv_sec - FirstSecond \in Int
    BY <1>5, CheckingConstants DEF Checking!Words
  <2>2. Seconds(c.tv_sec - FirstSecond) \in Int
    BY <2>1, SecondsStep
  <2>3. Seconds(c.tv_sec - FirstSecond) <= MaxTicks
    BY <1>1, <1>2, <1>5, <1>6, <2>2, CheckingConstants
  <2>4. FirstSecond + (c.tv_sec - FirstSecond) < WORD
    BY <2>1, <2>3, SecondsOfTicks
  <2> QED
    BY <1>3, <1>5, <2>4, CheckingConstants DEF Checking!Words
<1>8. clock' = c
  BY <1>1, <1>5, <1>7, UnsignedIsWord
<1>9. Checking!in_order(clock, clock')
  <2>1. c.tv_sec > clock.tv_sec \/ (c.tv_sec = clock.tv_sec /\ c.tv_nsec = clock.tv_nsec + 1)
    BY <1>3, <1>4, CheckingConstants DEF Checking!Words
  <2> QED
    BY <1>3, <1>8, <2>1 DEF Checking!in_order, Checking!Words
<1>10. TicksInv'
  BY <1>1, <1>6, <1>8, CheckingConstants DEF TicksInv
<1>11. SamplesInv'
  BY <1>1, <1>2, <1>9, Order DEF SamplesInv
<1>12. ElapsedInv'
  <2>1. CASE Testing
    <3>1. /\ then + elapsed = clock.tv_sec /\ then <= now /\ now <= clock.tv_sec
          /\ then <= list[0].tv_sec /\ list[0].tv_sec <= clock.tv_sec
      BY <1>1, <2>1 DEF ElapsedInv
    <3>2. then \in Int /\ now \in Int /\ elapsed \in Int /\ clock.tv_sec \in Int /\
            list[0].tv_sec \in Int
      BY <1>2, <1>3, CheckingConstants DEF Checking!Words
    <3>3. /\ then + elapsed' = c.tv_sec /\ now <= c.tv_sec /\ list[0].tv_sec <= c.tv_sec
      BY <1>1, <1>5, <3>1, <3>2
    <3> QED
      BY <1>1, <1>8, <3>1, <3>3 DEF ElapsedInv
  <2>2. CASE ~Testing
    BY <1>1, <2>2 DEF ElapsedInv, Testing
  <2> QED
    BY <2>1, <2>2
<1>13. VerdictInv'
  BY <1>1 DEF VerdictInv
<1> QED
  BY <1>10, <1>11, <1>12, <1>13 DEF ForwardInv

\* What the program does of it: it samples, judges and goes on.
LEMMA ProgramForward ==
  ASSUME BatchInv, ForwardInv, steps = 0,
         Checking!NextClock \/ Checking!TestTime \/ Checking!Fill \/ Checking!Check
  PROVE  ForwardInv'
<1>0. /\ clock \in Checking!Instants /\ list \in [Checking!Calls -> Checking!Instants] /\
           i \in Nat /\ then \in Int /\ now \in Int
      /\ clock.tv_sec \in Int /\ 0 \in Checking!Calls /\ elapsed \in Nat
      /\ TicksInv /\ SamplesInv /\ ElapsedInv /\ VerdictInv
  BY CheckingConstants
  DEF BatchInv, Checking!TypeOK, Checking!Instants, Checking!Words, ForwardInv
<1>1. CASE Checking!NextClock
  <2>1. /\ UNCHANGED <<clock, ticks, steps, exitcode, verdicts>>
        /\ \/ /\ pc' = "while" /\ list' = [list EXCEPT ![0] = clock]
              /\ now' = clock.tv_sec /\ then' = clock.tv_sec /\ elapsed' = 0
           \/ pc' \in {"next", "exit"}
    BY <1>1 DEF Checking!NextClock, Checking!Goto
  <2>2. ElapsedInv'
    <3>1. CASE pc' = "while"
      <4>1. list'[0] = clock /\ then' = clock.tv_sec /\ now' = clock.tv_sec /\ elapsed' = 0
        BY <1>0, <2>1, <3>1
      <4> QED
        BY <1>0, <2>1, <4>1 DEF ElapsedInv
    <3>2. CASE pc' \in {"next", "exit"}
      BY <3>2 DEF ElapsedInv, Testing
    <3> QED
      BY <2>1, <3>1, <3>2
  <2>3. TicksInv' /\ SamplesInv' /\ VerdictInv'
    BY <1>0, <2>1 DEF TicksInv, SamplesInv, VerdictInv
  <2> QED
    BY <2>2, <2>3 DEF ForwardInv
<1>2. CASE Checking!TestTime
  <2>1. /\ UNCHANGED <<clock, ticks, steps, elapsed, list, now, then, exitcode>> /\ pc = "while"
        /\ \/ pc' = "fill" /\ i' = 0 /\ UNCHANGED verdicts
           \/ pc' = "next" /\ verdicts' = verdicts \cup {"OK"}
    BY <1>2 DEF Checking!TestTime, Checking!Goto, Checking!clockVars
  <2>2. SamplesInv'
    BY <2>1, CheckingConstants DEF SamplesInv, Checking!Calls
  <2>3. TicksInv' /\ ElapsedInv' /\ VerdictInv'
    BY <1>0, <2>1 DEF TicksInv, ElapsedInv, VerdictInv, Testing
  <2> QED
    BY <2>2, <2>3 DEF ForwardInv
<1>3. CASE Checking!Fill
  <2>1. /\ pc = "fill" /\ pc' \in {"fill", "check"} /\ list' = [list EXCEPT ![i] = clock]
        /\ i' = i + 1 /\ UNCHANGED <<clock, ticks, steps, elapsed, now, then, exitcode, verdicts>>
    BY <1>3 DEF Checking!Fill, Checking!Goto, Checking!clockVars
  <2>2. /\ \A c \in Checking!Calls : c < i => Checking!in_order(list[c], clock)
        /\ \A c \in Checking!Calls : c + 1 < i => Checking!in_order(list[c], list[c + 1])
    BY <1>0, <2>1 DEF SamplesInv
  <2>3. i \in Checking!Calls /\ list'[i] = clock /\ \A c \in Checking!Calls : c # i =>
          list'[c] = list[c]
    <3>1. i \in Checking!Calls
      BY <1>0, <2>1, CheckingConstants DEF BatchInv, Checking!Calls
    <3> QED
      BY <1>0, <2>1, <3>1
  <2>4. ASSUME NEW c \in Checking!Calls, c < i' PROVE Checking!in_order(list'[c], clock')
    <3>1. c < i \/ c = i
      BY <1>0, <2>1, <2>4, CheckingConstants DEF Checking!Calls
    <3> QED
      BY <1>0, <2>1, <2>2, <2>3, <3>1, Order
  <2>5. ASSUME NEW c \in Checking!Calls, c + 1 < i'
        PROVE  Checking!in_order(list'[c], list'[c + 1])
    <3>1. c < i /\ c # i /\ c + 1 \in Checking!Calls /\ (c + 1 < i \/ c + 1 = i)
      BY <1>0, <2>1, <2>3, <2>5, CheckingConstants DEF Checking!Calls
    <3>2. CASE c + 1 < i
      <4>1. c + 1 # i
        BY <1>0, <3>2
      <4> QED
        BY <2>2, <2>3, <3>1, <3>2, <4>1
    <3>3. CASE c + 1 = i
      BY <2>2, <2>3, <3>1, <3>3
    <3> QED
      BY <3>1, <3>2, <3>3
  <2>6. SamplesInv'
    BY <2>4, <2>5 DEF SamplesInv
  <2>7. ElapsedInv'
    <3>1. /\ then + elapsed = clock.tv_sec /\ then <= now /\ now <= clock.tv_sec
          /\ then <= list[0].tv_sec /\ list[0].tv_sec <= clock.tv_sec
      BY <1>0, <2>1 DEF ElapsedInv, Testing
    <3>2. list'[0] = clock \/ list'[0] = list[0]
      BY <1>0, <2>3
    <3>3. then <= list'[0].tv_sec /\ list'[0].tv_sec <= clock.tv_sec
      BY <1>0, <3>1, <3>2
    <3> QED
      BY <2>1, <3>1, <3>3 DEF ElapsedInv
  <2>8. TicksInv' /\ VerdictInv'
    BY <1>0, <2>1 DEF TicksInv, VerdictInv
  <2> QED
    BY <2>6, <2>7, <2>8 DEF ForwardInv
<1>4. CASE Checking!Check
  <2>1. pc = "check" /\ i = CALLS_PER_LOOP
    BY <1>4 DEF Checking!Check, Checking!Goto, BatchInv
  <2>2. Checking!last_inconsistent = 0
    <3>1. \A c \in Checking!Calls : c + 1 \in Checking!Calls => c + 1 < i
      BY <2>1, CheckingConstants DEF Checking!Calls
    <3>2. \A c \in Checking!Calls : c + 1 \in Checking!Calls =>
            Checking!in_order(list[c], list[c + 1])
      BY <1>0, <2>1, <3>1 DEF SamplesInv
    <3> QED
      BY <3>2, LastInconsistent
  <2>3. /\ pc' = "while" /\ now' = list[0].tv_sec
        /\ UNCHANGED <<clock, ticks, steps, elapsed, list, then, exitcode, verdicts>>
    BY <1>4, <2>2 DEF Checking!Check, Checking!Goto, Checking!clockVars
  <2>4. ElapsedInv'
    BY <1>0, <2>1, <2>3 DEF ElapsedInv, Testing
  <2>5. TicksInv' /\ SamplesInv' /\ VerdictInv'
    BY <1>0, <2>3 DEF TicksInv, SamplesInv, VerdictInv
  <2> QED
    BY <2>4, <2>5 DEF ForwardInv
<1> QED
  BY <1>1, <1>2, <1>3, <1>4

\* ... and after every step, on a clock that does not wrap.
LEMMA ForwardSteps ==
  ASSUME BatchInv, ForwardInv, [Checking!Next]_(Checking!vars)
  PROVE  ForwardInv'
<1>1. CASE steps' # 0
  BY <1>1 DEF ForwardInv
<1>2. CASE steps' = 0 /\ Checking!Tick
  BY <1>2, TickForward
<1>3. CASE steps' = 0 /\ Checking!StepBack
  <2>1. steps \in Nat /\ steps' = steps + 1
    BY <1>3 DEF Checking!StepBack, BatchInv, Checking!TypeOK
  <2> QED
    BY <1>3, <2>1
<1>4. CASE steps' = 0 /\
        (Checking!NextClock \/ Checking!TestTime \/ Checking!Fill \/ Checking!Check)
  <2>1. steps = 0
    BY <1>4
    DEF Checking!NextClock, Checking!TestTime, Checking!Fill, Checking!Check, Checking!clockVars
  <2> QED
    BY <1>4, <2>1, ProgramForward
<1>5. CASE UNCHANGED Checking!vars
  BY <1>5
  DEF Checking!vars, Checking!clockVars, ForwardInv, TicksInv, SamplesInv, ElapsedInv,
      VerdictInv, Testing
<1> QED
  BY <1>1, <1>2, <1>3, <1>4, <1>5 DEF Checking!Next

\* A clock that goes forward stays with what the loop knows of it.
THEOREM ForwardInvariant ==
  Checking!Spec => []ForwardInv
<1>1. BatchInv /\ ForwardInv /\ [Checking!Next]_(Checking!vars) => ForwardInv'
  BY ForwardSteps
<1> QED
  BY <1>1, ForwardStarts, BatchInvariant, PTL DEF Checking!Spec

-------------------------------------------------------------------------------
(* What the invariants say of the properties.                              *)

\* Types.
LEMMA CheckingTypes == BatchInv => Checking!TypeOK
BY DEF BatchInv

\* A clock that only moves forward passes, also over the rollover of 2038.
LEMMA NoFalseAlarms == ForwardInv => Checking!NoFalseAlarm
BY DEF ForwardInv, VerdictInv, Checking!NoFalseAlarm

\* On such a clock the test of each clock lasts as long as asked for.
LEMMA HealthyRuns == BatchInv /\ ForwardInv => Checking!HealthyRunIsLongEnough
<1> SUFFICES ASSUME BatchInv, ForwardInv, steps = 0, pc = "while", ~Checking!Runs
             PROVE  elapsed >= runtime
  BY DEF Checking!HealthyRunIsLongEnough
<1>1. then + elapsed = clock.tv_sec /\ then <= now /\ now <= clock.tv_sec
  BY DEF ForwardInv, ElapsedInv, Testing
<1>2. then \in Checking!Words /\ now \in Checking!Words /\ clock.tv_sec \in Checking!Words /\
        elapsed \in Nat
  BY DEF BatchInv, Checking!TypeOK, Checking!Instants
<1>3. now - then \in Checking!Words /\ now - then <= elapsed
  BY <1>1, <1>2, CheckingConstants DEF Checking!Words
<1>4. Checking!Unsigned(now - then) = now - then
  BY <1>2, <1>3, UnsignedIsWord, CheckingConstants DEF Checking!Words
<1>5. ~(now - then < Checking!Unsigned(runtime))
  BY <1>4 DEF Checking!Runs
<1>6. CASE runtime >= 0
  <2>1. Checking!Unsigned(runtime) = runtime
    BY <1>6, UnsignedIsWord, CheckingConstants DEF Checking!Words
  <2> QED
    BY <1>2, <1>3, <1>5, <2>1, CheckingConstants DEF Checking!Words
<1> QED
  BY <1>2, <1>6, CheckingConstants

\* Whatever the clock does, a batch that is passed over is in order but for its
\* first pair.
LEMMA LaterStepsBackFail == BatchInv => Checking!LaterStepBackFails
BY DEF BatchInv, Checking!LaterStepBackFails

-------------------------------------------------------------------------------
(* nanosleep, for any clocks, lengths, delays and early ends of a sleep.     *)
(* FailInv follows one test through its two sleeps: where the target lies    *)
(* ahead of the clock when it is checked, the kernel was early.  DelayInv is *)
(* the converse: what a sleep was short by can only be made up for by ticks  *)
(* in which the program was held up.  SleptInv is the progress of the two    *)
(* loops.                                                                  *)


SleepingTypes ==
  /\ clock \in Nat /\ wake \in Nat /\ target \in Nat
  /\ pc \in {"abs", "absleep", "abread", "rel", "relstart", "relsleep", "relread", "exit"}
  /\ clockid \in 1 .. NrClocks + 1 /\ length \in Sleeping!Lengths /\ exitcode \in {0, 1}
  /\ late \in 0 .. MaxLate /\ slept \subseteq Sleeping!Supported \X Sleeping!Lengths
  /\ early \in Nat
  /\ back \in {"none", "abs", "absleep", "abread", "rel", "relstart", "relsleep", "relread"}

\* A clock is tested only if it can be read, and on from the first sleep if it
\* can be slept on.
ClockInv ==
  /\ pc \notin {"abs", "exit"} => clockid <= NrClocks /\ clockid \notin NoClock
  /\ pc \notin {"abs", "absleep", "exit"} => clockid \notin NoSleep
  /\ pc # "exit" => exitcode = 0

\* What the sleep in progress waits for.
WakeInv ==
  /\ pc \in {"absleep", "relstart", "relsleep"} => target > 0
  /\ pc = "absleep" /\ clockid \notin NoSleep =>
       wake = target \/ (wake <= target /\ back = "abread")
  /\ pc = "relstart" => target <= clock + length \/ back \in Sleeping!Exposed
  /\ pc = "relsleep" => target <= wake \/ back \in Sleeping!Exposed

FailInv ==
  /\ pc \in {"abread", "relread"} => target <= clock \/ early > 0 \/ back \in Sleeping!Exposed
  /\ exitcode = 1 => Sleeping!FailureIsReal

\* What the sleeps so far were short by, in all.
DelayInv ==
  /\ pc = "absleep" => early = 0
  /\ pc = "abread" => early <= Early /\ (early <= late \/ early + clock <= target + late)
  /\ pc \in {"rel", "relstart", "relsleep"} => early <= Early /\ early <= late
  /\ pc = "relstart" => early + clock + length <= target + late
  /\ pc = "relsleep" => early + wake <= target + late
  /\ pc = "relread" => early <= late \/ early + clock <= target + late
  /\ pc = "abs" \/ (pc = "exit" /\ exitcode = 0) => early <= late
  /\ early <= 2 * Early

Longer(n) == n * FACTOR

\* The clocks before this one are done.  Of this one, the lengths slept are the
\* first ones of the loop, up to the next.
SleptInv ==
  /\ \A c \in Sleeping!Supported, n \in Sleeping!Lengths : c < clockid => <<c, n>> \in slept
  /\ \A c \in Sleeping!Supported, n \in Sleeping!Lengths : <<c, n>> \in slept => c <= clockid
  /\ length = FIRST \/ <<clockid, FIRST>> \in slept
  /\ \A n \in Sleeping!Lengths : <<clockid, n>> \in slept /\ Longer(n) <= LAST =>
       Longer(n) = length \/ <<clockid, Longer(n)>> \in slept
  /\ pc = "exit" /\ exitcode = 0 => clockid > NrClocks

SleepingInv == SleepingTypes /\ ClockInv /\ WakeInv /\ FailInv /\ DelayInv /\ SleptInv

-------------------------------------------------------------------------------
(* The lengths.                                                            *)

\* What the assumption says of the constants, one by one.
LEMMA SleepingConstants ==
  /\ NrClocks \in Nat /\ FIRST \in Nat /\ FIRST > 0 /\ LAST \in Nat /\ FIRST <= LAST
  /\ Early \in Nat /\ MaxLate \in Nat /\ SleepsStepBack \in BOOLEAN
  /\ FACTOR \in Nat
BY ClocksAssumption DEF ClocksAssumption, Sleeping!NanosleepAssumption

\* Every length of the loop is one of Lengths ...
LEMMA LengthsAreClosed ==
  /\ Sleeping!Lengths \subseteq FIRST .. LAST /\ FIRST \in Sleeping!Lengths
  /\ \A n \in Sleeping!Lengths : n \in Nat /\ Longer(n) \in Nat
  /\ \A n \in Sleeping!Lengths : Longer(n) <= LAST => Longer(n) \in Sleeping!Lengths
<1>1. FIRST \in Sleeping!Lengths /\ Sleeping!Lengths \subseteq FIRST .. LAST
  BY SleepingConstants DEF Sleeping!Lengths, Sleeping!Closed
<1>2. \A n \in Nat : n * FACTOR \in Nat /\ (n > 0 => n * FACTOR >= n)
  BY ClocksAssumption DEF ClocksAssumption, Sleeping!NanosleepAssumption
<1>3. ASSUME NEW n \in Sleeping!Lengths PROVE n \in Nat /\ Longer(n) \in Nat /\ Longer(n) >= FIRST
  BY <1>1, <1>2, SleepingConstants DEF Longer
<1>4. ASSUME NEW n \in Sleeping!Lengths, Longer(n) <= LAST PROVE Longer(n) \in Sleeping!Lengths
  <2>1. Longer(n) \in FIRST .. LAST
    BY <1>3, <1>4, SleepingConstants
  <2>2. ASSUME NEW S \in SUBSET (FIRST .. LAST), Sleeping!Closed(S) PROVE Longer(n) \in S
    <3>1. n \in S
      BY <2>2 DEF Sleeping!Lengths
    <3> QED
      BY <1>4, <2>2, <3>1 DEF Sleeping!Closed, Longer
  <2> QED
    BY <2>1, <2>2 DEF Sleeping!Lengths
<1> QED
  BY <1>1, <1>3, <1>4

\* ... and they are no more than these.
LEMMA LengthsAreLeast ==
  ASSUME NEW S, S \subseteq Sleeping!Lengths, FIRST \in S,
         \A n \in S : Longer(n) <= LAST => Longer(n) \in S
  PROVE  S = Sleeping!Lengths
<1>1. S \in SUBSET (FIRST .. LAST)
  BY LengthsAreClosed
<1>2. Sleeping!Closed(S)
  BY DEF Sleeping!Closed, Longer
<1> QED
  BY <1>1, <1>2 DEF Sleeping!Lengths

-------------------------------------------------------------------------------
(* The steps.                                                              *)

\* The inductive invariant holds at the start.
LEMMA SleepingStarts == Sleeping!Init => SleepingInv
<1> SUFFICES ASSUME Sleeping!Init PROVE SleepingInv
  OBVIOUS
<1>1. 1 \in 1 .. NrClocks + 1 /\ 0 \in 0 .. MaxLate
  BY SleepingConstants
<1>2. SleepingTypes
  BY <1>1, LengthsAreClosed DEF Sleeping!Init, SleepingTypes
<1>3. ClockInv /\ WakeInv /\ FailInv /\ DelayInv
  BY SleepingConstants DEF Sleeping!Init, ClockInv, WakeInv, FailInv, DelayInv
<1>4. SleptInv
  BY DEF Sleeping!Init, SleptInv, Sleeping!Supported
<1> QED
  BY <1>2, <1>3, <1>4 DEF SleepingInv

\* Where neither loop goes on and nothing is counted as slept.
LEMMA SameSleep ==
  ASSUME SleepingInv, UNCHANGED <<clockid, length, slept>>, pc' # "exit"
  PROVE  SleptInv'
BY DEF SleepingInv, SleptInv, Longer

\* A tick is one of sleep, or one of delay.
LEMMA SleepingTick ==
  ASSUME SleepingInv, Sleeping!Tick
  PROVE  SleepingInv'
<1> USE SleepingConstants, LengthsAreClosed DEF SleepingInv, SleepingTypes
<1>1. /\ pc # "exit" /\ clock' = clock + 1 /\ late' \in 0 .. MaxLate
      /\ Sleeping!Asleep => late' = late
      /\ ~Sleeping!Asleep => late' = late + 1
      /\ UNCHANGED <<wake, pc, clockid, length, target, exitcode, early, back, slept>>
  BY DEF Sleeping!Tick, Sleeping!history
<1>2. SleepingTypes' /\ ClockInv' /\ WakeInv' /\ FailInv'
  BY <1>1 DEF ClockInv, WakeInv, FailInv, Sleeping!FailureIsReal
<1>3. late' = late \/ late' = late + 1
  BY <1>1
<1>4. DelayInv'
  <2>1. /\ late \in Int /\ late' \in Int /\ clock \in Int /\ wake \in Int /\ target \in Int
        /\ early \in Int /\ length \in Int /\ Early \in Int /\ DelayInv
    BY <1>1
  <2>2. CASE late' = late
    <3>1. pc \in {"absleep", "relsleep"}
      BY <1>1, <2>1, <2>2 DEF Sleeping!Asleep
    <3> QED
      BY ONLY <1>1, <2>1, <2>2, <3>1 DEF DelayInv
  <2>3. CASE late' = late + 1
    BY ONLY <1>1, <2>1, <2>3 DEF DelayInv
  <2> QED
    BY <1>3, <2>2, <2>3
<1>5. SleptInv'
  BY <1>1, SameSleep
<1> QED
  BY <1>2, <1>4, <1>5

\* A step back only makes an absolute sleep longer, or comes where it is exposed.
LEMMA SleepingStepBack ==
  ASSUME SleepingInv, Sleeping!StepBack
  PROVE  SleepingInv'
<1> USE SleepingConstants, LengthsAreClosed
    DEF SleepingInv, SleepingTypes, Sleeping!Asleep, Sleeping!Exposed
<1>1. /\ pc # "exit" /\ back = "none" /\ clock > 0 /\ clock' = clock - 1
      /\ pc = "absleep" => clockid \notin NoSleep
      /\ UNCHANGED <<pc, clockid, length, target, exitcode, late, early, slept>>
  BY DEF Sleeping!StepBack
<1>2. exitcode = 0
  BY <1>1 DEF ClockInv
<1>3. SleptInv'
  BY <1>1, SameSleep
<1>4. CASE pc = "absleep" /\ ~(clock < wake)
  <2>1. back' = "abread" /\ wake' = wake - 1 /\ wake = target /\ target > 0
    BY <1>1, <1>4 DEF Sleeping!StepBack, WakeInv
  <2>2. SleepingTypes' /\ ClockInv'
    BY <1>1, <1>4, <2>1 DEF ClockInv
  <2>3. WakeInv' /\ FailInv' /\ DelayInv'
    BY <1>1, <1>2, <1>4, <2>1 DEF WakeInv, FailInv, DelayInv
  <2> QED
    BY <1>3, <2>2, <2>3
<1>5. CASE ~(pc = "absleep" /\ ~(clock < wake))
  <2>1. back' = pc /\ wake' = IF pc = "relsleep" THEN wake - 1 ELSE wake
    BY <1>1, <1>5 DEF Sleeping!StepBack
  <2>2. wake' \in Nat
    <3>1. pc = "relsleep" => wake > 0
      BY <1>1 DEF WakeInv, DelayInv
    <3> QED
      BY <2>1, <3>1
  <2>3. SleepingTypes' /\ ClockInv'
    BY <1>1, <2>1, <2>2 DEF ClockInv
  <2>4. WakeInv' /\ FailInv'
    BY <1>1, <1>2, <1>5, <2>1 DEF WakeInv, FailInv
  <2>5. DelayInv'
    BY <1>1, <2>1 DEF DelayInv
  <2> QED
    BY <1>3, <2>3, <2>4, <2>5
<1> QED
  BY <1>4, <1>5

\* The program's own steps: the first sleep,
LEMMA SleepingFirst ==
  ASSUME SleepingInv, Sleeping!GetTarget \/ Sleeping!NotSupported \/ Sleeping!CheckAbs
  PROVE  SleepingInv'
<1> USE SleepingConstants, LengthsAreClosed DEF SleepingInv, SleepingTypes, Sleeping!Goto
<1>1. CASE Sleeping!GetTarget
  <2>1. /\ clockid <= NrClocks /\ clockid \notin NoClock /\ pc = "abs" /\ pc' = "absleep"
        /\ target' = clock + length /\ late' = 0 /\ early' = 0
        /\ clockid \in NoSleep => wake' = clock
        /\ clockid \notin NoSleep => wake' = target'
        /\ back' = "none" /\ UNCHANGED <<clock, clockid, length, exitcode, slept>>
    BY <1>1 DEF Sleeping!GetTarget
  <2>2. length \in Nat /\ exitcode = 0 /\ 0 \in 0 .. MaxLate
    BY <2>1 DEF ClockInv
  <2>3. target' \in Nat /\ target' > 0 /\ wake' \in Nat
    BY <2>1, <2>2
  <2>4. SleepingTypes' /\ ClockInv'
    BY <2>1, <2>2, <2>3 DEF ClockInv
  <2>5. WakeInv' /\ FailInv' /\ DelayInv'
    BY <2>1, <2>2, <2>3 DEF WakeInv, FailInv, DelayInv
  <2>6. SleptInv'
    BY <2>1, SameSleep
  <2> QED
    BY <2>4, <2>5, <2>6
<1>2. CASE Sleeping!NotSupported
  <2>1. /\ clockid <= NrClocks /\ pc' = "abs" /\ length' = FIRST /\ clockid' = clockid + 1
        /\ UNCHANGED <<clock, wake, target, exitcode, late, early, back, slept>>
        /\ (pc = "abs" /\ clockid \in NoClock) \/ (pc = "absleep" /\ clockid \in NoSleep)
    BY <1>2 DEF Sleeping!NotSupported, Sleeping!NextClock, Sleeping!history
  <2>2. exitcode = 0
    BY <2>1 DEF ClockInv
  <2>3. SleepingTypes' /\ ClockInv'
    BY <2>1, <2>2 DEF ClockInv
  <2>4. WakeInv' /\ FailInv' /\ DelayInv'
    BY <2>1, <2>2 DEF WakeInv, FailInv, DelayInv
  <2>5. clockid \notin Sleeping!Supported
    BY <2>1 DEF Sleeping!Supported
  <2>6. \A n \in Sleeping!Lengths : <<clockid', n>> \notin slept
    <3>1. \A n \in Sleeping!Lengths : <<clockid', n>> \in slept =>
            clockid' \in Sleeping!Supported /\ clockid' <= clockid
      BY DEF SleptInv
    <3> QED
      BY <2>1, <3>1
  <2>7. SleptInv'
    <3>1. ASSUME NEW c \in Sleeping!Supported, NEW n \in Sleeping!Lengths, c < clockid'
          PROVE  <<c, n>> \in slept
      <4>1. c < clockid
        BY <2>1, <2>5, <3>1 DEF Sleeping!Supported
      <4> QED
        BY <4>1 DEF SleptInv
    <3>2. ASSUME NEW c \in Sleeping!Supported, NEW n \in Sleeping!Lengths, <<c, n>> \in slept
          PROVE  c <= clockid'
      <4>1. c <= clockid
        BY <3>2 DEF SleptInv
      <4> QED
        BY <2>1, <4>1 DEF Sleeping!Supported
    <3> QED
      BY <2>1, <2>6, <3>1, <3>2 DEF SleptInv, Longer
  <2> QED
    BY <2>3, <2>4, <2>7
<1>3. CASE Sleeping!CheckAbs
  <2>1. /\ pc = "abread" /\
             UNCHANGED <<clock, wake, clockid, length, target, late, early, back, slept>>
        /\ \/ target <= clock /\ pc' = "rel" /\ exitcode' = exitcode
           \/ ~(target <= clock) /\ pc' = "exit" /\ exitcode' = 1
    BY <1>3 DEF Sleeping!CheckAbs, Sleeping!in_order, Sleeping!history
  <2>2. exitcode = 0
    BY <2>1 DEF ClockInv
  <2>3. SleepingTypes' /\ ClockInv' /\ WakeInv'
    BY <2>1, <2>2 DEF ClockInv, WakeInv
  <2>4. FailInv'
    BY <2>1, <2>2 DEF FailInv, Sleeping!FailureIsReal
  <2>5. DelayInv'
    BY <2>1, <2>2 DEF DelayInv
  <2>6. SleptInv'
    BY <2>1 DEF SleptInv, Longer
  <2> QED
    BY <2>3, <2>4, <2>5, <2>6
<1> QED
  BY <1>1, <1>2, <1>3

\* the end of either,
LEMMA SleepingWakeUp ==
  ASSUME SleepingInv, Sleeping!WakeUp
  PROVE  SleepingInv'
<1> USE SleepingConstants, LengthsAreClosed DEF SleepingInv, SleepingTypes, Sleeping!Goto
<1>1. /\ clockid \notin NoSleep /\ clock >= wake - Early
      /\ (pc = "absleep" /\ pc' = "abread") \/ (pc = "relsleep" /\ pc' = "relread")
      /\ clock < wake => early' = early + (wake - clock)
      /\ ~(clock < wake) => early' = early
      /\ UNCHANGED <<clock, wake, clockid, length, target, exitcode, late, back, slept>>
  BY DEF Sleeping!WakeUp
<1>2. exitcode = 0
  BY <1>1 DEF ClockInv
<1>3. early' \in Nat /\ early' >= early /\ early' <= early + Early
  BY <1>1
<1>4. SleepingTypes' /\ ClockInv' /\ WakeInv'
  BY <1>1, <1>3 DEF ClockInv, WakeInv
<1>5. FailInv'
  BY <1>1, <1>2 DEF FailInv, WakeInv, Sleeping!Exposed
<1>6. DelayInv'
  <2>1. early <= Early /\ early <= late /\ wake <= target + late - early
    BY <1>1 DEF DelayInv, WakeInv
  <2>2. CASE clock < wake
    <3>1. early' = early + (wake - clock) /\ early' + clock <= target + late
      BY <1>1, <2>1, <2>2
    <3> QED
      BY <1>1, <1>3, <2>1, <2>2, <3>1 DEF DelayInv, WakeInv
  <2>3. CASE ~(clock < wake)
    <3>1. early' = early
      BY <1>1, <2>3
    <3> QED
      BY <1>1, <1>3, <2>1, <2>3, <3>1 DEF DelayInv, WakeInv
  <2> QED
    BY <2>2, <2>3
<1>7. SleptInv'
  BY <1>1, SameSleep
<1> QED
  BY <1>4, <1>5, <1>6, <1>7

\* the second sleep, whose target is taken before it begins,
LEMMA SleepingSecond ==
  ASSUME SleepingInv, Sleeping!GetRelTarget \/ Sleeping!RelSleep
  PROVE  SleepingInv'
<1> USE SleepingConstants, LengthsAreClosed DEF SleepingInv, SleepingTypes, Sleeping!Goto
<1>1. CASE Sleeping!GetRelTarget
  <2>1. /\ pc = "rel" /\ pc' = "relstart" /\ target' = clock + length
        /\ UNCHANGED <<clock, wake, clockid, length, exitcode, late, early, back, slept>>
    BY <1>1 DEF Sleeping!GetRelTarget, Sleeping!history
  <2>2. SleepingTypes' /\ ClockInv'
    BY <2>1 DEF ClockInv
  <2>3. exitcode = 0 /\ early <= late /\ early <= Early /\ target' > 0
    BY <2>1 DEF ClockInv, DelayInv
  <2>4. WakeInv' /\ FailInv' /\ DelayInv'
    BY <2>1, <2>3 DEF WakeInv, FailInv, DelayInv
  <2>5. SleptInv'
    BY <2>1, SameSleep
  <2> QED
    BY <2>2, <2>4, <2>5
<1>2. CASE Sleeping!RelSleep
  <2>1. /\ pc = "relstart" /\ pc' = "relsleep" /\ wake' = clock + length
        /\ UNCHANGED <<clock, clockid, length, target, exitcode, late, early, back, slept>>
    BY <1>2 DEF Sleeping!RelSleep, Sleeping!history
  <2>2. SleepingTypes' /\ ClockInv'
    BY <2>1 DEF ClockInv
  <2>3. exitcode = 0 /\ early <= late /\ early <= Early /\ early + clock + length <= target + late
    BY <2>1 DEF ClockInv, DelayInv
  <2>4. WakeInv' /\ FailInv' /\ DelayInv'
    BY <2>1, <2>3 DEF WakeInv, FailInv, DelayInv
  <2>5. SleptInv'
    BY <2>1, SameSleep
  <2> QED
    BY <2>2, <2>4, <2>5
<1> QED
  BY <1>1, <1>2

\* The lengths that the loop has slept and the one just slept are all there are.
LEMMA LoopIsDone ==
  ASSUME SleepingInv, clockid \in Sleeping!Supported, ~(Longer(length) <= LAST)
  PROVE  \A n \in Sleeping!Lengths : <<clockid, n>> \in slept \/ n = length
<1> DEFINE S == {n \in Sleeping!Lengths : <<clockid, n>> \in slept \/ n = length}
<1>1. FIRST \in S
  BY LengthsAreClosed DEF SleepingInv, SleptInv
<1>2. ASSUME NEW n \in S, Longer(n) <= LAST PROVE Longer(n) \in S
  <2>1. n \in Sleeping!Lengths /\ <<clockid, n>> \in slept
    BY <1>2
  <2>2. Longer(n) \in Sleeping!Lengths
    BY <1>2, <2>1, LengthsAreClosed
  <2> QED
    BY <1>2, <2>1, <2>2 DEF SleepingInv, SleptInv
<1>3. S = Sleeping!Lengths
  <2> HIDE DEF S
  <2>1. S \subseteq Sleeping!Lengths
    BY DEF S
  <2> QED
    BY <1>1, <1>2, <2>1, LengthsAreLeast
<1> QED
  BY <1>3

\* and the verdicts.
LEMMA SleepingCheckRel ==
  ASSUME SleepingInv, Sleeping!CheckRel
  PROVE  SleepingInv'
<1> USE SleepingConstants, LengthsAreClosed DEF SleepingInv, SleepingTypes, Sleeping!Goto
<1>1. /\ pc = "relread" /\ exitcode = 0 /\ clockid \in Sleeping!Supported
      /\ UNCHANGED <<clock, wake, target, late, early, back>>
  BY DEF Sleeping!CheckRel, ClockInv, Sleeping!Supported
<1>2. CASE target <= clock
  <2>1. /\ pc' = "abs" /\ Sleeping!NextLength /\ exitcode' = 0
        /\ slept' = slept \cup {<<clockid, length>>}
    BY <1>1, <1>2 DEF Sleeping!CheckRel, Sleeping!in_order
  <2>2. \/ Longer(length) <= LAST /\ length' = Longer(length) /\ clockid' = clockid
        \/ ~(Longer(length) <= LAST) /\ length' = FIRST /\ clockid' = clockid + 1
    BY <2>1 DEF Sleeping!NextLength, Sleeping!NextClock, Longer
  <2>3. clockid <= NrClocks
    BY <1>1 DEF Sleeping!Supported
  <2>4. clockid' \in 1 .. NrClocks + 1 /\ length' \in Sleeping!Lengths
    BY <2>2, <2>3
  <2>5. slept' \subseteq Sleeping!Supported \X Sleeping!Lengths
    BY <1>1, <2>1
  <2>6. SleepingTypes' /\ ClockInv' /\ WakeInv'
    BY <1>1, <2>1, <2>4, <2>5 DEF ClockInv, WakeInv
  <2>7. FailInv' /\ DelayInv'
    BY <1>1, <1>2, <2>1 DEF FailInv, DelayInv
  <2>8. ASSUME NEW c \in Sleeping!Supported, NEW n \in Sleeping!Lengths
        PROVE  /\ <<c, n>> \in slept' <=> <<c, n>> \in slept \/ (c = clockid /\ n = length)
               /\ c < clockid => <<c, n>> \in slept
               /\ <<c, n>> \in slept => c <= clockid
    BY <2>1 DEF SleptInv
  <2>9. CASE Longer(length) <= LAST
    <3>1. length' = Longer(length) /\ clockid' = clockid
      BY <2>2, <2>9
    <3>2. \A c \in Sleeping!Supported, n \in Sleeping!Lengths : c < clockid' =>
            <<c, n>> \in slept'
      BY <2>1, <2>8, <3>1
    <3>3. \A c \in Sleeping!Supported, n \in Sleeping!Lengths : <<c, n>> \in slept' =>
            c <= clockid'
      BY <1>1, <2>8, <3>1
    <3>4. <<clockid, FIRST>> \in slept'
      BY <1>1, <2>1 DEF SleptInv
    <3>5. ASSUME NEW n \in Sleeping!Lengths, <<clockid, n>> \in slept', Longer(n) <= LAST
          PROVE  Longer(n) = length' \/ <<clockid, Longer(n)>> \in slept'
      <4>1. CASE n = length
        BY <3>1, <4>1
      <4>2. CASE <<clockid, n>> \in slept
        BY <2>1, <3>5, <4>2 DEF SleptInv
      <4> QED
        BY <1>1, <2>8, <3>5, <4>1, <4>2
    <3>6. SleptInv'
      BY <2>1, <3>1, <3>2, <3>3, <3>4, <3>5 DEF SleptInv, Longer
    <3> QED
      BY <2>6, <2>7, <3>6
  <2>10. CASE ~(Longer(length) <= LAST)
    <3>1. length' = FIRST /\ clockid' = clockid + 1
      BY <2>2, <2>10
    <3>2. ASSUME NEW c \in Sleeping!Supported, NEW n \in Sleeping!Lengths, c < clockid'
          PROVE  <<c, n>> \in slept'
      <4>1. c < clockid \/ c = clockid
        BY <2>3, <3>1, <3>2 DEF Sleeping!Supported
      <4>2. CASE c = clockid
        BY <1>1, <2>8, <2>10, <4>2, LoopIsDone
      <4> QED
        BY <2>8, <4>1, <4>2
    <3>3. ASSUME NEW c \in Sleeping!Supported, NEW n \in Sleeping!Lengths, <<c, n>> \in slept'
          PROVE  c <= clockid
      BY <1>1, <2>8, <3>3 DEF Sleeping!Supported
    <3>4. ASSUME NEW c \in Sleeping!Supported, NEW n \in Sleeping!Lengths, <<c, n>> \in slept'
          PROVE  c <= clockid'
      BY <3>1, <3>3, <3>4 DEF Sleeping!Supported
    <3>5. \A n \in Sleeping!Lengths : <<clockid', n>> \notin slept'
      <4>1. ASSUME NEW n \in Sleeping!Lengths, <<clockid', n>> \in slept' PROVE FALSE
        <5>1. clockid' \in Sleeping!Supported
          BY <2>5, <4>1
        <5> QED
          BY <3>1, <3>3, <4>1, <5>1
      <4> QED
        BY <4>1
    <3>6. SleptInv'
      BY <2>1, <3>1, <3>2, <3>4, <3>5 DEF SleptInv, Longer
    <3> QED
      BY <2>6, <2>7, <3>6
  <2> QED
    BY <2>9, <2>10
<1>3. CASE ~(target <= clock)
  <2>1. /\ pc' = "exit" /\ exitcode' = 1 /\ UNCHANGED <<clockid, length, slept>>
    BY <1>1, <1>3 DEF Sleeping!CheckRel, Sleeping!in_order
  <2>2. SleepingTypes' /\ ClockInv' /\ WakeInv' /\ FailInv' /\ DelayInv'
    BY <1>1, <1>3, <2>1 DEF ClockInv, WakeInv, FailInv, Sleeping!FailureIsReal, DelayInv
  <2>3. SleptInv'
    BY <2>1 DEF SleptInv, Longer
  <2> QED
    BY <2>2, <2>3
<1> QED
  BY <1>2, <1>3

\* The last clock is done.
LEMMA SleepingPass ==
  ASSUME SleepingInv, Sleeping!Pass
  PROVE  SleepingInv'
<1>1. /\ clockid > NrClocks /\ pc = "abs" /\ pc' = "exit"
      /\ UNCHANGED <<clock, wake, clockid, length, target, exitcode, late, early, back, slept>>
  BY DEF Sleeping!Pass, Sleeping!Goto, Sleeping!history
<1> QED
  BY <1>1
  DEF SleepingInv, SleepingTypes, ClockInv, WakeInv, FailInv, Sleeping!FailureIsReal, DelayInv,
      SleptInv, Longer

\* Every step keeps the invariant.
LEMMA SleepingSteps == SleepingInv /\ [Sleeping!Next]_(Sleeping!vars) => SleepingInv'
<1> SUFFICES ASSUME SleepingInv, [Sleeping!Next]_(Sleeping!vars) PROVE SleepingInv'
  OBVIOUS
<1>1. CASE UNCHANGED Sleeping!vars
  BY <1>1
  DEF Sleeping!vars, Sleeping!history, SleepingInv, SleepingTypes, ClockInv, WakeInv, FailInv,
      Sleeping!FailureIsReal, DelayInv,
     SleptInv, Longer
<1> QED
  BY <1>1, SleepingTick, SleepingStepBack, SleepingFirst, SleepingWakeUp, SleepingSecond,
     SleepingCheckRel, SleepingPass
  DEF Sleeping!Next, Sleeping!Main

\* The inductive invariant of nanosleep, for every list of lengths and clocks.
THEOREM SleepingInvariant == Sleeping!Spec => []SleepingInv
BY SleepingStarts, SleepingSteps, PTL DEF Sleeping!Spec

-------------------------------------------------------------------------------
(* What the invariant says of the properties.                              *)

\* Types; in particular every length slept is one of the loop's.
LEMMA SleepingTypesHold == SleepingInv => Sleeping!TypeOK
BY SleepingConstants DEF SleepingInv, SleepingTypes, DelayInv, Sleeping!TypeOK

\* The program fails only for a sleep that ended too early.
LEMMA FailuresAreReal == SleepingInv => Sleeping!FailureIsReal
BY DEF SleepingInv, FailInv, Sleeping!FailureIsReal

\* It lets pass no sleep that is shorter by more than the program was held up.
LEMMA EarlyWakesFail == SleepingInv => Sleeping!EarlyWakeFails
BY DEF SleepingInv, DelayInv, Sleeping!EarlyWakeFails

\* If it passes it has slept every length on every clock that can be slept on.
LEMMA PassesHaveSleptAll == SleepingInv => Sleeping!PassMeansAllSlept
<1> SUFFICES ASSUME SleepingInv, pc = "exit", exitcode = 0
             PROVE  slept = Sleeping!Supported \X Sleeping!Lengths
  BY DEF Sleeping!PassMeansAllSlept
<1>1. clockid > NrClocks /\ clockid \in Int /\ NrClocks \in Int
  BY SleepingConstants DEF SleepingInv, SleptInv, SleepingTypes
<1>2. ASSUME NEW c \in Sleeping!Supported, NEW n \in Sleeping!Lengths PROVE <<c, n>> \in slept
  <2>1. c < clockid
    BY <1>1 DEF Sleeping!Supported
  <2> QED
    BY <2>1 DEF SleepingInv, SleptInv
<1>3. slept \subseteq Sleeping!Supported \X Sleeping!Lengths
  BY DEF SleepingInv, SleepingTypes
<1> QED
  BY <1>2, <1>3

-------------------------------------------------------------------------------
(* raw_skew, for every frequency, fault and choice of delays.  What it finds  *)
(* is a quotient of differences, which is told with operators for products,  *)
(* so that the provers see sums only.                                       *)

Product(a, b) == a * b

\* Division rounds down, and so do the products of its result.
LEMMA Division ==
  ASSUME NEW a \in Int, NEW b \in Int, b > 0
  PROVE  /\ a \div b \in Int
         /\ Product(b, a \div b) \in Int
         /\ Product(b, a \div b) <= a /\ a < Product(b, a \div b) + b
BY DEF Product

\* Division towards 0 is less than the divisor off.
LEMMA Rounding ==
  ASSUME NEW a \in Int, NEW b \in Int, b > 0
  PROVE  /\ Skewed!Quotient(a, b) \in Int
         /\ Product(b, Skewed!Quotient(a, b)) \in Int
         /\ Product(b, Skewed!Quotient(a, b)) - a < b
         /\ a - Product(b, Skewed!Quotient(a, b)) < b
<1>1. CASE a < 0
  <2> DEFINE k == (-a) \div b
  <2>1. k \in Int /\ b * k <= -a /\ -a < b * k + b
    BY <1>1
  <2>2. Skewed!Quotient(a, b) = -k
    BY <1>1 DEF Skewed!Quotient
  <2> HIDE DEF k
  <2>3. b * (-k) = -(b * k)
    BY <2>1
  <2> QED
    BY <2>1, <2>2, <2>3 DEF Product
<1>2. CASE ~(a < 0)
  BY <1>2 DEF Skewed!Quotient, Product
<1> QED
  BY <1>1, <1>2

\* Products of integers.
LEMMA Products ==
  /\ \A a, b \in Int : Product(a, b) \in Int
  /\ \A a, b, c \in Int : Product(a, b + c) = Product(a, b) + Product(a, c)
  /\ \A a, b, c \in Int : Product(a, b - c) = Product(a, b) - Product(a, c)
  /\ \A a, b, c \in Int : Product(b - c, a) = Product(b, a) - Product(c, a)
  /\ \A a, b \in Int : Product(a, b) = Product(b, a)
BY DEF Product

\* A factor that is larger makes a product larger.
LEMMA ProductOrder ==
  ASSUME NEW a \in Int, NEW b \in Int, NEW c \in Int, a > 0, b <= c
  PROVE  Product(a, b) <= Product(a, c)
<1>1. a * (c - b) >= 0
  OBVIOUS
<1>2. a * (c - b) = a * c - a * b
  OBVIOUS
<1>3. a * c \in Int /\ a * b \in Int
  OBVIOUS
<1> QED
  BY <1>1, <1>2, <1>3 DEF Product

\* The absolute value of a product.
LEMMA ProductOfAbs ==
  ASSUME NEW a \in Int, NEW b \in Int
  PROVE  /\ Product(a, b) <= Product(Skewed!llabs(a), Skewed!llabs(b))
         /\ -Product(a, b) <= Product(Skewed!llabs(a), Skewed!llabs(b))
         /\ Product(Skewed!llabs(a), Skewed!llabs(b)) \in Nat
<1>1. \A x, y \in Nat : x * y \in Nat
  OBVIOUS
<1>2. (-a) * b = -(a * b) /\ a * (-b) = -(a * b) /\ (-a) * (-b) = a * b
  OBVIOUS
<1>3. a * b \in Int
  OBVIOUS
<1>4. Skewed!llabs(a) \in {a, -a} \cap Nat /\ Skewed!llabs(b) \in {b, -b} \cap Nat
  BY DEF Skewed!llabs
<1>5. /\ Skewed!llabs(a) * Skewed!llabs(b) \in {a * b, -(a * b)}
      /\ Skewed!llabs(a) * Skewed!llabs(b) \in Nat
  BY <1>1, <1>2, <1>4
<1> QED
  BY <1>3, <1>5 DEF Product


\* The estimate.  In the time S * N that is slept one clock gains S * R on the other,
\* which is taken for D, off by half the windows W, and for a rate, that is for a share
\* of the time m that one clock shows.
LEMMA EstimateIsClose ==
  ASSUME NEW S \in Int, NEW N \in Int, NEW R \in Int, NEW D \in Int, NEW m \in Int,
         NEW W \in Nat, N > 0, m >= N,
         2 * (D + Product(S, R)) <= W + 1, -2 * (D + Product(S, R)) <= W + 1
  PROVE  Skewed!llabs(-Skewed!Quotient(D * N, m) - R) <=
           (W * N) \div (2 * m) + (Skewed!llabs(R) * Skewed!llabs(m - S * N)) \div m + 3
<1> DEFINE e == D + Product(S, R)
           q == Skewed!Quotient(D * N, m)
           f == (W * N) \div (2 * m)
           b == (Skewed!llabs(R) * Skewed!llabs(m - S * N)) \div m
<1>0. m > 0 /\ Product(S, R) \in Int
  BY Products
<1>1. e \in Int /\ 2 * e <= W + 1 /\ -2 * e <= W + 1
  <2>1. e \in Int
    BY ONLY <1>0, D \in Int DEF e
  <2> QED
    BY ONLY <2>1, 2 * e <= W + 1, -2 * e <= W + 1
\* The four parts: two divisions, the windows and the share.
<1> USE Products
<1>2. /\ q \in Int /\ Product(m, q) \in Int /\ D * N \in Int
      /\ Product(m, q) - D * N < m /\ D * N - Product(m, q) < m
  <2> DEFINE a == D * N
  <2>1. a \in Int /\ q = Skewed!Quotient(a, m)
    OBVIOUS
  <2> HIDE DEF a, q
  <2>2. q \in Int /\ Product(m, q) \in Int /\ Product(m, q) - a < m /\ a - Product(m, q) < m
    BY <1>0, <2>1, Rounding
  <2> QED
    BY <2>1, <2>2 DEF a
<1>3. /\ f \in Int /\ Product(m, f) \in Int /\ Product(N, W) \in Int
      /\ Product(N, W) < 2 * Product(m, f) + 2 * m
  <2>1. W * N \in Int /\ 2 * m \in Int /\ 2 * m > 0
    OBVIOUS
  <2>2. f \in Int /\ W * N < Product(2 * m, f) + 2 * m
    BY <2>1, Division
  <2> HIDE DEF f
  <2>3. Product(2 * m, f) = 2 * Product(m, f) /\ W * N = Product(N, W)
    BY <2>2 DEF Product
  <2> QED
    BY <2>2, <2>3
<1>4. /\ 2 * Product(N, e) <= Product(N, W) + N /\ -2 * Product(N, e) <= Product(N, W) + N
      /\ Product(N, e) \in Int
  <2> HIDE DEF e
  <2>0. 2 * e \in Int /\ -2 * e \in Int /\ W + 1 \in Int
    BY <1>1
  <2>1. Product(N, 2 * e) <= Product(N, W + 1) /\ Product(N, -2 * e) <= Product(N, W + 1)
    BY ONLY <1>1, <2>0, ProductOrder, N \in Int, N > 0
  <2>2. /\ Product(N, 2 * e) = 2 * Product(N, e) /\ Product(N, -2 * e) = -2 * Product(N, e)
        /\ Product(N, W + 1) = Product(N, W) + N
    BY <1>1 DEF Product
  <2> QED
    BY <1>1, <2>1, <2>2
<1>5. /\ b \in Int /\ Product(m, b) \in Int /\ Product(R, m - S * N) \in Int
      /\ Product(R, m - S * N) < Product(m, b) + m /\ -Product(R, m - S * N) < Product(m, b) + m
  <2> DEFINE x == m - S * N
  <2>1. x \in Int
    OBVIOUS
  <2>2. b = Product(Skewed!llabs(R), Skewed!llabs(x)) \div m
    BY DEF Product
  <2> HIDE DEF x, b
  <2>3. /\ Product(R, x) <= Product(Skewed!llabs(R), Skewed!llabs(x))
        /\ -Product(R, x) <= Product(Skewed!llabs(R), Skewed!llabs(x))
        /\ Product(Skewed!llabs(R), Skewed!llabs(x)) \in Nat /\ Product(R, x) \in Int
    BY <2>1, ProductOfAbs
  <2>4. b \in Int /\ Product(m, b) \in Int /\
          Product(Skewed!llabs(R), Skewed!llabs(x)) < Product(m, b) + m
    <3> DEFINE a == Product(Skewed!llabs(R), Skewed!llabs(x))
    <3>1. a \in Int /\ b = a \div m
      BY <2>2, <2>3
    <3> HIDE DEF a
    <3>2. b \in Int /\ Product(m, b) \in Int /\ a < Product(m, b) + m
      BY <1>0, <3>1, Division
    <3> QED
      BY <3>2 DEF a
  <2>5. Product(R, x) < Product(m, b) + m /\ -Product(R, x) < Product(m, b) + m
    BY ONLY <2>3, <2>4, m \in Int
  <2> QED
    BY <2>3, <2>4, <2>5 DEF x
\* How they add up.
<1>6. D * N = Product(N, e) + Product(R, m - S * N) - Product(m, R)
  BY DEF Product
<1> HIDE DEF e, q, f, b
<1>7. ASSUME NEW k \in Int, k >= f + b + 4
      PROVE  Product(m, k) >= Product(m, f) + Product(m, b) + 4 * m
  <2>1. Product(m, f + b + 4) <= Product(m, k)
    BY <1>3, <1>5, <1>7, ProductOrder
  <2>2. Product(m, f + b + 4) = Product(m, f) + Product(m, b) + 4 * m
    BY <1>3, <1>5 DEF Product
  <2> QED
    BY <2>1, <2>2
<1>8. Product(m, -q - R) = -Product(m, q) - Product(m, R) /\
        Product(m, q + R) = Product(m, q) + Product(m, R)
  BY <1>2 DEF Product
<1>9. -q - R \in Int /\ q + R \in Int /\ Product(m, R) \in Int
  BY <1>2
<1>10. ~(-q - R >= f + b + 4)
  <2>1. -q - R >= f + b + 4 => Product(m, -q - R) >= Product(m, f) + Product(m, b) + 4 * m
    BY <1>7, <1>9
  <2> QED
    BY ONLY <2>1, <1>2, <1>3, <1>4, <1>5, <1>6, <1>8, <1>9, m \in Int, N \in Int, N > 0, m >= N
<1>11. ~(q + R >= f + b + 4)
  <2>1. q + R >= f + b + 4 => Product(m, q + R) >= Product(m, f) + Product(m, b) + 4 * m
    BY <1>7, <1>9
  <2> QED
    BY ONLY <2>1, <1>2, <1>3, <1>4, <1>5, <1>6, <1>8, <1>9, m \in Int, N \in Int, N > 0, m >= N
<1>12. Skewed!llabs(-q - R) \in {-q - R, q + R}
  BY <1>2 DEF Skewed!llabs
<1>13. Skewed!llabs(-q - R) <= f + b + 3
  BY ONLY <1>2, <1>3, <1>5, <1>10, <1>11, <1>12, R \in Int
<1> QED
  BY <1>13 DEF q, f, b


\* The two times of a pair are as far apart as its window may hide, and no later than
\* the clock when it is handed on.
Paired(p) ==
  /\ p.diff \in Nat /\ p.mon \in Nat /\ p.raw \in Int /\ p.t \in Nat /\ p.mon <= p.t
  /\ 2 * (p.raw - p.mon) <= p.diff + 1 /\ -2 * (p.raw - p.mon) <= p.diff

LEMMA PairsArePaired == \A p \in Skewed!Pairs : Paired(p)
<1>1. \A round \in Skewed!Rounds : round[1] \in Nat /\ round[2] \in Nat
  BY ClocksAssumption
  DEF ClocksAssumption, Skewed!RawSkewAssumption, Skewed!GapsAssumption, Skewed!Rounds
<1>2. ASSUME NEW p, Paired(p), NEW round \in Skewed!Rounds PROVE Paired(Skewed!Better(p, round))
  <2> DEFINE x == round[1]
             y == round[2]
             newdiff == x + y
             mid == (2 * p.t + newdiff) \div 2
             new == [diff |-> newdiff, mon |-> mid, raw |-> p.t + x, t |-> p.t + newdiff]
             old == [p EXCEPT !.t = @ + newdiff]
  <2>1. x \in Nat /\ y \in Nat /\ p.t \in Nat
    BY <1>1, <1>2 DEF Paired
  <2>2. Skewed!Better(p, round) \in {new, old}
    BY DEF Skewed!Better
  <2>3. Paired(new)
    <3> DEFINE raw == p.t + x
               t == p.t + newdiff
    <3> HIDE DEF x, y
    <3>1. /\ newdiff \in Nat /\ mid \in Nat /\ mid <= t /\ raw \in Int /\ t \in Nat
          /\ 2 * (raw - mid) <= newdiff + 1 /\ -2 * (raw - mid) <= newdiff
      BY <2>1
    <3>2. new.diff = newdiff /\ new.mon = mid /\ new.raw = raw /\ new.t = t
      OBVIOUS
    <3> HIDE DEF newdiff, mid, raw, t, new
    <3> QED
      BY <3>1, <3>2 DEF Paired
  <2>4. Paired(old)
    <3> HIDE DEF x, y
    <3>1. newdiff \in Nat
      BY <2>1
    <3>2. /\ old.diff = p.diff /\ old.mon = p.mon /\ old.raw = p.raw
      OBVIOUS
    <3> QED
      BY <1>2, <3>1, <3>2 DEF Paired
  <2> QED
    BY <2>2, <2>3, <2>4
<1>3. Paired(Skewed!None)
  BY DEF Skewed!None, Paired
<1> QED
  BY <1>2, <1>3 DEF Skewed!Pairs, Skewed!Chosen

\* What the proofs use of the constants.  The clocks run at about the same rate.
LEMMA SkewedConstants ==
  /\ SECOND \in Nat /\ SECOND > 0 /\ KPPM \in Nat /\ SLEEP \in Nat /\ SLEEP >= 2
  /\ \A f \in Freqs : f \in Int /\ Skewed!Rate(f) \in Int
  /\ \A x \in Faults : x \in Int
  /\ \A f \in Freqs, x \in Faults :
       2 * (Skewed!Rate(f) + x) <= SECOND /\ -2 * (Skewed!Rate(f) + x) <= SECOND
<1>1. Skewed!RawSkewAssumption
  BY ClocksAssumption DEF ClocksAssumption
<1>2. /\ SECOND \in Nat /\ SECOND > 0 /\ KPPM \in Nat /\ SLEEP \in Nat /\ SLEEP >= 2
      /\ Freqs \subseteq Int /\ Faults \subseteq Int /\ 2 ^ SHIFT \in Nat /\ 2 ^ SHIFT > 0
  BY <1>1 DEF Skewed!RawSkewAssumption
<1>3. ASSUME NEW f \in Freqs PROVE f \in Int /\ Skewed!Rate(f) \in Int
  <2> DEFINE u == 2 ^ SHIFT
             x == f * KPPM
  <2>1. x \in Int /\ u \in Nat /\ u > 0
    BY <1>2
  <2>2. Skewed!Rate(f) \in {x \div u, -((-x) \div u)}
    BY DEF Skewed!Rate, Skewed!shift_right
  <2> HIDE DEF x, u
  <2>3. x \div u \in Int /\ -((-x) \div u) \in Int
    BY <2>1
  <2> QED
    BY <1>2, <2>2, <2>3
<1>4. ASSUME NEW f \in Freqs, NEW x \in Faults
      PROVE  2 * (Skewed!Rate(f) + x) <= SECOND /\ -2 * (Skewed!Rate(f) + x) <= SECOND
  <2> DEFINE y == Skewed!Rate(f) + x
  <2>1. 2 * Skewed!llabs(y) <= SECOND
    BY <1>1 DEF Skewed!RawSkewAssumption
  <2>2. y \in Int
    BY <1>2, <1>3
  <2> HIDE DEF y
  <2>3. 2 * y <= SECOND /\ -2 * y <= SECOND
    BY <1>2, <2>1, <2>2 DEF Skewed!llabs
  <2> QED
    BY <2>3 DEF y
<1> QED
  BY <1>2, <1>3, <1>4

\* The rate that the clock really runs at, and what it gains in the sleep.
Speed == Skewed!Rate(freq) + fault
Gained == Product(SLEEP, Speed)
Slept == Product(SLEEP, SECOND)

\* How far a reading's two times are apart when the one clock has gained so much.
Apart(r, gained) ==
  /\ r.mon \in Int /\ r.raw \in Int /\ r.window \in Nat
  /\ 2 * (r.raw - r.mon + gained) <= r.window + 1 /\ -2 * (r.raw - r.mon + gained) <= r.window

\* The first reading has been taken; both are what they were taken for.
Begun == pc \in {"sleep", "second", "verdict"} \/ (pc = "exit" /\ exitcode # 255)
Ended == pc = "verdict" \/ (pc = "exit" /\ exitcode # 255)

SkewedTypes ==
  /\ freq \in Freqs /\ fault \in Faults /\ clock \in Int /\ gain \in Int
  /\ pc \in {"first", "sleep", "second", "verdict", "exit"} /\ exitcode \in {0, 1, 255}
  /\ changed \in BOOLEAN
  /\ pc # "exit" => exitcode = 0

\* What one clock has gained on the other, as long as the frequency is what it was.
GainInv ==
  /\ pc \in {"first", "sleep"} => gain = 0
  /\ Begun => Apart(first, 0) /\ tx1_freq \in Freqs /\ (~changed => tx1_freq = freq)
  /\ pc = "sleep" => first.mon <= clock
  /\ pc = "second" /\ ~changed => gain = Gained /\ first.mon + Slept + Gained <= clock
  /\ Ended /\ ~changed => Apart(second, Gained) /\ first.mon + Slept + Gained <= second.mon

\* The verdict is about the estimate.
JudgedInv ==
  /\ pc = "exit" /\ exitcode = 0 => ~(Skewed!llabs(Skewed!eppm - Skewed!ppm) > KPPM)
  /\ pc = "exit" /\ exitcode = 1 => Skewed!llabs(Skewed!eppm - Skewed!ppm) > KPPM

SkewedInv == SkewedTypes /\ GainInv /\ JudgedInv

\* Nothing has been read.
LEMMA SkewedStarts == Skewed!Init => SkewedInv
<1> SUFFICES ASSUME Skewed!Init PROVE SkewedInv
  OBVIOUS
<1>1. /\ freq \in Freqs /\ fault \in Faults /\ clock = 0 /\ gain = 0
      /\ pc = "first" /\ exitcode = 0 /\ changed = FALSE
  BY DEF Skewed!Init
<1>2. SkewedTypes
  <2>1. clock \in Int /\ gain \in Int
    BY <1>1
  <2> QED
    BY <1>1, <2>1, Zenon DEF SkewedTypes
<1>3. GainInv /\ JudgedInv
  BY <1>1 DEF GainInv, JudgedInv, Begun, Ended
<1> QED
  BY <1>2, <1>3 DEF SkewedInv

\* A reading at any time is of a pair.
LEMMA ReadingIsApart ==
  ASSUME NEW p \in Skewed!Pairs, clock \in Int, gain \in Int
  PROVE  /\ Apart(Skewed!Reading(p), gain)
         /\ Skewed!Reading(p).mon = clock + p.mon
         /\ clock <= Skewed!Reading(p).mon /\ Skewed!Reading(p).mon <= clock + p.t
         /\ clock + p.t \in Int
<1>1. Paired(p)
  BY PairsArePaired
<1>2. /\ Skewed!Reading(p).mon = clock + p.mon /\ Skewed!Reading(p).raw = clock - gain + p.raw
      /\ Skewed!Reading(p).window = p.diff
  BY DEF Skewed!Reading
<1> QED
  BY <1>1, <1>2 DEF Paired, Apart

\* What is gained in the sleep is no fraction.
LEMMA SleepGains ==
  ASSUME SkewedTypes
  PROVE  /\ Speed \in Int /\ Gained \in Int /\ Slept \in Int
         /\ SLEEP * SECOND = Slept /\ (SLEEP * SECOND * Speed) \div SECOND = Gained
         /\ Slept + Gained >= SECOND
<1>1. /\ Speed \in Int /\ SECOND \in Int /\ SECOND > 0 /\ SLEEP \in Int /\ SLEEP >= 2
      /\ -2 * Speed <= SECOND
  BY SkewedConstants DEF SkewedTypes, Speed
<1>2. Gained \in Int /\ Slept \in Int
  BY <1>1, Products DEF Gained, Slept
<1>3. (SLEEP * SECOND * Speed) \div SECOND = Gained
  <2> DEFINE g == SLEEP * Speed
  <2>1. g \in Int
    BY <1>1
  <2>2. SLEEP * SECOND * Speed = SECOND * g
    BY <1>1
  <2> HIDE DEF g
  <2>3. (SECOND * g) \div SECOND = g
    BY <1>1, <2>1
  <2> QED
    BY <2>2, <2>3 DEF g, Gained, Product
<1>4. Slept + Gained >= SECOND
  <2>1. Product(SLEEP, -SECOND) <= Product(SLEEP, 2 * Speed)
    BY <1>1, ProductOrder
  <2>2. Product(SLEEP, -SECOND) = -Slept /\ Product(SLEEP, 2 * Speed) = 2 * Gained
    BY <1>1 DEF Product, Slept, Gained
  <2>3. Product(SECOND, 2) <= Product(SECOND, SLEEP)
    BY <1>1, ProductOrder
  <2>4. Product(SECOND, 2) = 2 * SECOND /\ Product(SECOND, SLEEP) = Slept
    BY <1>1 DEF Product, Slept
  <2> QED
    BY <1>1, <1>2, <2>1, <2>2, <2>3, <2>4
<1> QED
  BY <1>1, <1>2, <1>3, <1>4 DEF Slept, Product


\* The first reading: nothing is gained yet.
LEMMA SkewedFirst == ASSUME SkewedInv, Skewed!First PROVE SkewedInv'
<1>1. /\ pc = "first" /\ UNCHANGED <<freq, fault, gain, second, changed>>
      /\ \/ pc' = "exit" /\ exitcode' = 255 /\ UNCHANGED clock
         \/ /\ pc' = "sleep" /\ exitcode' = exitcode /\ tx1_freq' = freq
            /\ \E p \in Skewed!Pairs : first' = Skewed!Reading(p) /\ clock' = clock + p.t
  BY DEF Skewed!First, Skewed!Goto
<1>2. SkewedTypes /\ gain = 0 /\ exitcode = 0 /\ clock \in Int /\ gain \in Int
  BY <1>1 DEF SkewedInv, SkewedTypes, GainInv
<1>3. CASE pc' = "exit"
  BY <1>1, <1>2, <1>3 DEF SkewedInv, SkewedTypes, GainInv, JudgedInv, Begun, Ended
<1>4. CASE pc' = "sleep"
  <2>1. PICK p \in Skewed!Pairs : first' = Skewed!Reading(p) /\ clock' = clock + p.t
    BY <1>1, <1>4
  <2>2. Apart(first', 0) /\ first'.mon <= clock' /\ clock' \in Int
    BY <1>2, <2>1, ReadingIsApart
  <2>3. tx1_freq' = freq /\ exitcode' = exitcode
    BY <1>1, <1>4
  <2>4. SkewedTypes'
    BY <1>1, <1>2, <1>4, <2>2, <2>3 DEF SkewedTypes
  <2>5. GainInv' /\ JudgedInv'
    BY <1>1, <1>2, <1>4, <2>2, <2>3 DEF SkewedTypes, GainInv, JudgedInv, Begun, Ended
  <2> QED
    BY <2>4, <2>5 DEF SkewedInv
<1> QED
  BY <1>1, <1>3, <1>4

\* The sleep: one clock gains.
LEMMA SkewedSleep == ASSUME SkewedInv, Skewed!Sleep PROVE SkewedInv'
<1>1. /\ pc = "sleep" /\ pc' = "second"
      /\ UNCHANGED <<freq, fault, tx1_freq, first, second, exitcode, changed>>
      /\ clock' = clock + SLEEP * SECOND + (SLEEP * SECOND * Speed) \div SECOND
      /\ gain' = gain + (SLEEP * SECOND * Speed) \div SECOND
  BY DEF Skewed!Sleep, Skewed!Goto, Skewed!Run, Speed
<1>2. /\ SkewedTypes /\ gain = 0 /\ clock \in Int /\ first.mon <= clock /\ Apart(first, 0)
      /\ tx1_freq \in Freqs /\ (~changed => tx1_freq = freq)
  BY <1>1 DEF SkewedInv, SkewedTypes, GainInv, Begun
<1>3. gain' = Gained /\ clock' = clock + Slept + Gained /\ Gained \in Int /\ Slept \in Int
  BY <1>1, <1>2, SleepGains
<1>4. gain' \in Int /\ clock' \in Int /\ first.mon + Slept + Gained <= clock'
  BY <1>2, <1>3 DEF Apart
<1>5. Gained' = Gained /\ Slept' = Slept
  BY <1>1 DEF Gained, Slept, Speed
<1>6. SkewedTypes'
  BY <1>1, <1>2, <1>4 DEF SkewedTypes
<1>7. GainInv'
  BY <1>1, <1>2, <1>3, <1>4, <1>5 DEF GainInv, Begun, Ended
<1> QED
  BY <1>1, <1>6, <1>7 DEF SkewedInv, JudgedInv

\* The frequency is changed: from here on nothing is claimed of it.
LEMMA SkewedChange == ASSUME SkewedInv, Skewed!ChangeFreq PROVE SkewedInv'
<1>1. /\ pc \in {"sleep", "second"} /\ freq' \in Freqs /\ changed' = TRUE
      /\ UNCHANGED <<fault, clock, gain, pc, tx1_freq, first, second, exitcode>>
  BY DEF Skewed!ChangeFreq
<1>2. SkewedTypes' /\ JudgedInv'
  BY <1>1 DEF SkewedInv, SkewedTypes, JudgedInv
<1>3. GainInv'
  BY <1>1 DEF SkewedInv, GainInv, Begun, Ended
<1> QED
  BY <1>2, <1>3 DEF SkewedInv

\* The second reading.
LEMMA SkewedSecond == ASSUME SkewedInv, Skewed!Second PROVE SkewedInv'
<1>1. /\ pc = "second" /\ pc' = "verdict"
      /\ UNCHANGED <<freq, fault, gain, tx1_freq, first, exitcode, changed>>
  BY DEF Skewed!Second, Skewed!Goto
<1>2. PICK p \in Skewed!Pairs : second' = Skewed!Reading(p) /\ clock' = clock + p.t
  BY DEF Skewed!Second
<1>3. /\ SkewedTypes /\ clock \in Int /\ gain \in Int /\ Apart(first, 0) /\ tx1_freq \in Freqs
      /\ ~changed => tx1_freq = freq
      /\ ~changed => gain = Gained /\ first.mon + Slept + Gained <= clock
  BY <1>1 DEF SkewedInv, SkewedTypes, GainInv, Begun
<1>4. Apart(second', gain) /\ clock <= second'.mon /\ clock' \in Int /\ second'.mon \in Int
  BY <1>2, <1>3, ReadingIsApart DEF Apart
<1>5. ~changed => first.mon + Slept + Gained <= second'.mon
  <2>1. first.mon + Slept + Gained \in Int
    BY <1>3, SleepGains DEF Apart
  <2> QED
    BY <1>3, <1>4, <2>1
<1>6. Gained' = Gained /\ Slept' = Slept
  BY <1>1 DEF Gained, Slept, Speed
<1>7. SkewedTypes'
  BY <1>1, <1>3, <1>4 DEF SkewedTypes
<1>8. GainInv'
  BY <1>1, <1>3, <1>4, <1>5, <1>6 DEF GainInv, Begun, Ended
<1> QED
  BY <1>1, <1>7, <1>8 DEF SkewedInv, JudgedInv

\* The verdict changes nothing that it is about.
LEMMA SkewedVerdict == ASSUME SkewedInv, Skewed!Verdict PROVE SkewedInv'
<1>1. /\ pc = "verdict" /\ pc' = "exit"
      /\ UNCHANGED <<freq, fault, clock, gain, tx1_freq, first, second, changed>>
      /\ exitcode' = IF Skewed!llabs(Skewed!eppm - Skewed!ppm) > KPPM THEN 1 ELSE 0
  BY DEF Skewed!Verdict, Skewed!Goto, Skewed!kernelVars
<1>2. SkewedTypes'
  BY <1>1 DEF SkewedInv, SkewedTypes
<1>3. GainInv'
  <2>1. Gained' = Gained /\ Slept' = Slept
    BY <1>1 DEF Gained, Slept, Speed
  <2> QED
    BY <1>1, <2>1 DEF SkewedInv, GainInv, Begun, Ended
<1>4. JudgedInv'
  <2>1. Skewed!eppm' = Skewed!eppm /\ Skewed!ppm' = Skewed!ppm
    BY <1>1 DEF Skewed!eppm, Skewed!ppm
  <2> QED
    BY <1>1, <2>1 DEF JudgedInv
<1> QED
  BY <1>2, <1>3, <1>4 DEF SkewedInv

\* Every step keeps the invariant.
LEMMA SkewedSteps == SkewedInv /\ [Skewed!Next]_(Skewed!vars) => SkewedInv'
<1> SUFFICES ASSUME SkewedInv, [Skewed!Next]_(Skewed!vars) PROVE SkewedInv'
  OBVIOUS
<1>1. CASE UNCHANGED Skewed!vars
  BY <1>1
  DEF Skewed!vars, Skewed!kernelVars, SkewedInv, SkewedTypes, GainInv, JudgedInv, Begun, Ended,
      Gained, Slept, Speed, Skewed!eppm, Skewed!ppm
<1> QED
  BY <1>1, SkewedFirst, SkewedSleep, SkewedChange, SkewedSecond, SkewedVerdict
  DEF Skewed!Next, Skewed!Main

\* The inductive invariant of raw_skew, for every frequency, fault and choice of delays.
THEOREM SkewedInvariant == Skewed!Spec => []SkewedInv
BY SkewedStarts, SkewedSteps, PTL DEF Skewed!Spec

\* What the program has found is the speed of the clock, but for what the readings hide.
LEMMA SpeedIsFound ==
  ASSUME SkewedInv, Ended, ~changed
  PROVE  /\ Skewed!llabs(Skewed!eppm - Speed) <= Skewed!Off(Speed)
         /\ Skewed!eppm \in Int /\ Speed \in Int /\ Skewed!Off(Speed) \in Int
         /\ Skewed!ppm = Skewed!Rate(freq) /\ fault \in Int /\ Skewed!Rate(freq) \in Int
<1>1. /\ SkewedTypes /\ Apart(first, 0) /\ Apart(second, Gained)
      /\ first.mon + Slept + Gained <= second.mon /\ tx1_freq = freq
  BY DEF SkewedInv, GainInv, Begun, Ended
<1>2. /\ Speed \in Int /\ Gained \in Int /\ Slept \in Int /\ SLEEP * SECOND = Slept
      /\ Slept + Gained >= SECOND
  BY <1>1, SleepGains
<1> DEFINE m == Skewed!span
           D == Skewed!delta(second) - Skewed!delta(first)
           W == first.window + second.window
<1>3. /\ D \in Int /\ W \in Nat /\ m \in Int /\ m >= SECOND
      /\ 2 * (D + Gained) <= W + 1 /\ -2 * (D + Gained) <= W + 1
  <2>1. /\ first.mon \in Int /\ first.raw \in Int /\ first.window \in Nat
        /\ second.mon \in Int /\ second.raw \in Int /\ second.window \in Nat
        /\ 2 * (first.raw - first.mon) <= first.window + 1
        /\ -2 * (first.raw - first.mon) <= first.window
        /\ 2 * (second.raw - second.mon + Gained) <= second.window + 1
        /\ -2 * (second.raw - second.mon + Gained) <= second.window
    BY <1>1, <1>2 DEF Apart
  <2>2. D = (second.raw - second.mon) - (first.raw - first.mon) /\ m = second.mon - first.mon
    BY DEF Skewed!delta, Skewed!span
  <2> HIDE DEF D, m
  <2>3. SECOND \in Int
    BY SkewedConstants
  <2> QED
    BY <1>1, <1>2, <2>1, <2>2, <2>3
<1>4. Skewed!eppm = -Skewed!Quotient(D * SECOND, m)
  BY DEF Skewed!eppm, Skewed!span
<1>5. Skewed!Off(Speed) =
        (W * SECOND) \div (2 * m) + 2
        + (Skewed!llabs(Speed) * Skewed!llabs(m - SLEEP * SECOND)) \div m + 1
  BY DEF Skewed!Off, Skewed!Uncertainty, Skewed!Distorted, Skewed!span
<1> HIDE DEF D, W, m
<1>6. SECOND \in Int /\ SECOND > 0 /\ SLEEP \in Int
  BY SkewedConstants
<1>7. Skewed!llabs(-Skewed!Quotient(D * SECOND, m) - Speed) <=
        (W * SECOND) \div (2 * m)
        + (Skewed!llabs(Speed) * Skewed!llabs(m - SLEEP * SECOND)) \div m + 3
  BY <1>2, <1>3, <1>6, EstimateIsClose DEF Gained
<1>8. /\ Skewed!Quotient(D * SECOND, m) \in Int
      /\ (W * SECOND) \div (2 * m) \in Int
      /\ (Skewed!llabs(Speed) * Skewed!llabs(m - SLEEP * SECOND)) \div m \in Int
  <2>1. D * SECOND \in Int /\ W * SECOND \in Int /\ 2 * m \in Int /\ 2 * m > 0 /\ m > 0
    BY <1>3, <1>6
  <2>2. Skewed!llabs(Speed) \in Int /\ Skewed!llabs(m - SLEEP * SECOND) \in Int
    BY <1>2, <1>3, <1>6 DEF Skewed!llabs
  <2>3. Skewed!llabs(Speed) * Skewed!llabs(m - SLEEP * SECOND) \in Int
    BY <2>2
  <2> QED
    BY <1>3, <2>1, <2>3, Rounding, Division
<1>9. /\ Skewed!ppm = Skewed!Rate(freq) /\ fault \in Int /\ Skewed!Rate(freq) \in Int
  BY <1>1, SkewedConstants DEF Skewed!ppm, SkewedTypes
<1> QED
  BY <1>2, <1>4, <1>5, <1>7, <1>8, <1>9

\* A clock that runs at the rate that adjtimex reports passes, where the windows of the
\* readings can tell a ppm.
LEMMA SkewedPasses == SkewedInv => Skewed!NoFalseAlarm
<1> SUFFICES ASSUME SkewedInv, pc = "exit", exitcode = 1, ~changed, fault = 0
             PROVE  Skewed!Off(Skewed!Rate(freq)) > KPPM
  BY DEF Skewed!NoFalseAlarm
<1>1. Ended
  BY DEF Ended
<1>2. Skewed!llabs(Skewed!eppm - Skewed!ppm) > KPPM
  BY DEF SkewedInv, JudgedInv
<1>3. /\ Skewed!llabs(Skewed!eppm - Speed) <= Skewed!Off(Speed) /\ Skewed!eppm \in Int
      /\ Skewed!ppm = Skewed!Rate(freq) /\ Skewed!Rate(freq) \in Int /\ Skewed!Off(Speed) \in Int
  BY <1>1, SpeedIsFound
<1>4. Speed = Skewed!Rate(freq)
  BY <1>3 DEF Speed
<1>5. Skewed!llabs(Skewed!eppm - Skewed!Rate(freq)) \in Int /\ KPPM \in Int
  BY <1>3, SkewedConstants DEF Skewed!llabs
<1> QED
  BY <1>2, <1>3, <1>4, <1>5

\* A clock that passes is off by no more than a ppm and what the readings hide.
LEMMA SkewedFinds == SkewedInv => Skewed!FaultIsFound
<1> SUFFICES ASSUME SkewedInv, pc = "exit", exitcode = 0, ~changed
             PROVE  Skewed!llabs(fault) <= KPPM + Skewed!Off(Skewed!Rate(freq) + fault)
  BY DEF Skewed!FaultIsFound
<1>1. Ended
  BY DEF Ended
<1>2. ~(Skewed!llabs(Skewed!eppm - Skewed!ppm) > KPPM)
  BY DEF SkewedInv, JudgedInv
<1>3. /\ Skewed!llabs(Skewed!eppm - Speed) <= Skewed!Off(Speed)
      /\ Skewed!eppm \in Int /\ Speed \in Int /\ Skewed!Off(Speed) \in Int
      /\ Skewed!ppm = Skewed!Rate(freq) /\ fault \in Int /\ Skewed!Rate(freq) \in Int
  BY <1>1, SpeedIsFound
<1>4. Speed = Skewed!Rate(freq) + fault /\ KPPM \in Int
  BY SkewedConstants DEF Speed
<1> DEFINE x == Skewed!eppm
           o == Skewed!Off(Speed)
           r == Skewed!Rate(freq)
<1>5. Skewed!llabs(x - (r + fault)) <= o /\ ~(Skewed!llabs(x - r) > KPPM)
  BY <1>2, <1>3, <1>4
<1>6. x \in Int /\ o \in Int /\ r \in Int
  BY <1>3
<1> HIDE DEF x, o, r
<1>7. Skewed!llabs(fault) <= KPPM + o
  BY ONLY <1>3, <1>4, <1>5, <1>6 DEF Skewed!llabs
<1> QED
  BY <1>4, <1>7 DEF o


-------------------------------------------------------------------------------
(* consistent-offsets, for all delays and jumps and every margin.  An offset *)
(* that is read lies no further from the true one than its window; two that  *)
(* follow each other are compared.                                           *)

\* The offset read is off the true one by half its window, rounded.
Near(off, reading) ==
  /\ 2 * (off - reading.offset) <= reading.window + 1
  /\ -2 * (off - reading.offset) <= reading.window

IsReading(r) == r.offset \in Int /\ r.window \in Nat

OffsetsTypes ==
  /\ offset \in Int /\ margin \in Nat /\ off1 \in Int /\ jumped \in BOOLEAN
  /\ pc \in {"margin", "start", "while", "exit"}
  /\ IsReading(last) /\ IsReading(prev)

\* The last offset read is near the one that the clock had then, which is the one it
\* has if nobody sets it.
ReadInv ==
  /\ pc = "while" => Near(off1, last)
  /\ pc = "margin" => last = prev
  /\ ~jumped => last.offset = offset /\ prev.offset = offset

OffsetsInv ==
  /\ OffsetsTypes /\ ReadInv
  /\ pc # "exit" => exitcode = 0
  /\ Offsets!NoFalseAlarm /\ Offsets!FaultIsFound

\* What is read with any two delays between the reads.
LEMMA SeenIsNear ==
  ASSUME offset \in Int, NEW d \in Delays \X Delays
  PROVE  /\ IsReading(Offsets!Seen(d)) /\ Offsets!Seen(d).offset = offset
         /\ Offsets!Off(d) \in Int /\ Near(Offsets!Off(d), Offsets!Seen(d))
         /\ d[1] + d[2] \in Nat
<1>1. d[1] \in Nat /\ d[2] \in Nat
  BY ClocksAssumption DEF ClocksAssumption, Offsets!OffsetsAssumption
<1> DEFINE x == d[1]
           y == d[2]
           off == offset + x - (x + y) \div 2
<1>2. /\ Offsets!Seen(d).offset = offset /\ Offsets!Seen(d).window = x + y
      /\ Offsets!Off(d) = off
  BY DEF Offsets!Seen, Offsets!Off
<1> HIDE DEF x, y
<1>3. x \in Nat /\ y \in Nat
  BY <1>1 DEF x, y
<1>4. /\ off \in Int /\ x + y \in Nat
      /\ 2 * (off - offset) <= x + y + 1 /\ -2 * (off - offset) <= x + y
  BY <1>3
<1> HIDE DEF off
<1> QED
  BY <1>2, <1>4 DEF IsReading, Near, x, y

\* Two readings that are near their offsets, of one offset or of two.
LEMMA NearReadings ==
  ASSUME NEW a, NEW b, IsReading(a), IsReading(b), NEW m \in Int,
         NEW off \in Int, NEW off2 \in Int, Near(off, a), Near(off2, b)
  PROVE  /\ a.offset = b.offset /\ a.window <= m /\ b.window <= m =>
              Offsets!llabs(off2 - off) <= m
         /\ Offsets!llabs(off2 - off) <= m =>
              Offsets!llabs(b.offset - a.offset) <= m + b.window + a.window
<1> DEFINE x == a.offset
           y == b.offset
           v == a.window
           w == b.window
<1>1. /\ x \in Int /\ y \in Int /\ v \in Nat /\ w \in Nat
      /\ 2 * (off - x) <= v + 1 /\ -2 * (off - x) <= v
      /\ 2 * (off2 - y) <= w + 1 /\ -2 * (off2 - y) <= w
  BY DEF IsReading, Near
<1> HIDE DEF x, y, v, w
<1>2. x = y /\ v <= m /\ w <= m => Offsets!llabs(off2 - off) <= m
  BY ONLY <1>1, m \in Int, off \in Int, off2 \in Int DEF Offsets!llabs
<1>3. /\ off - x <= v /\ x - off <= v /\ off2 - y <= w /\ y - off2 <= w
  BY ONLY <1>1, off \in Int, off2 \in Int
<1>4. Offsets!llabs(off2 - off) <= m => Offsets!llabs(y - x) <= m + w + v
  BY ONLY <1>1, <1>3, m \in Int, off \in Int, off2 \in Int DEF Offsets!llabs
<1> QED
  BY <1>2, <1>4 DEF x, y, v, w

\* Nothing has been read.
LEMMA OffsetsStarts == Offsets!Init => OffsetsInv
<1> SUFFICES ASSUME Offsets!Init PROVE OffsetsInv
  OBVIOUS
<1>1. /\ offset = 0 /\ pc = "margin" /\ margin = 0 /\ off1 = 0 /\ exitcode = 0 /\ jumped = FALSE
      /\ last = [offset |-> 0, window |-> 0] /\ prev = last
  BY DEF Offsets!Init, Offsets!Seen
<1>2. offset \in Int /\ margin \in Nat /\ off1 \in Int /\ IsReading(last) /\ IsReading(prev)
  BY <1>1 DEF IsReading
<1>3. OffsetsTypes
  BY <1>1, <1>2, Zenon DEF OffsetsTypes
<1>4. ReadInv
  BY <1>1 DEF ReadInv
<1>5. Offsets!NoFalseAlarm /\ Offsets!FaultIsFound
  BY <1>1 DEF Offsets!NoFalseAlarm, Offsets!FaultIsFound, Offsets!llabs
<1> QED
  BY <1>1, <1>3, <1>4, <1>5 DEF OffsetsInv

\* The clock is set: the last reading is of what it was.
LEMMA OffsetsJump == ASSUME OffsetsInv, Offsets!Jump PROVE OffsetsInv'
<1>1. /\ pc = "while" /\ jumped' = TRUE
      /\ UNCHANGED <<pc, margin, off1, exitcode, last, prev>>
      /\ \E j \in Jumps : offset' = offset + j
  BY DEF Offsets!Jump
<1>2. offset \in Int /\ Jumps \subseteq Int
  BY ClocksAssumption DEF ClocksAssumption, Offsets!OffsetsAssumption, OffsetsInv, OffsetsTypes
<1>3. offset' \in Int
  BY <1>1, <1>2
<1>4. OffsetsTypes'
  BY <1>1, <1>3 DEF OffsetsInv, OffsetsTypes
<1>5. ReadInv'
  BY <1>1 DEF OffsetsInv, ReadInv
<1>6. Offsets!NoFalseAlarm' /\ Offsets!FaultIsFound'
  BY <1>1 DEF OffsetsInv, Offsets!NoFalseAlarm, Offsets!FaultIsFound
<1> QED
  BY <1>1, <1>4, <1>5, <1>6 DEF OffsetsInv

\* The margin, before anything is compared.
LEMMA OffsetsMargin == ASSUME OffsetsInv, Offsets!Margin PROVE OffsetsInv'
<1>1. /\ pc = "margin" /\ pc' = "start"
      /\ UNCHANGED <<offset, off1, exitcode, last, prev, jumped>>
      /\ \E d \in Delays \X Delays : margin' = (d[1] + d[2]) * MarginFactor
  BY DEF Offsets!Margin, Offsets!Goto
<1>2. margin' \in Nat
  <2>1. PICK d \in Delays \X Delays : margin' = (d[1] + d[2]) * MarginFactor
    BY <1>1
  <2>2. d[1] \in Nat /\ d[2] \in Nat /\ MarginFactor \in Nat
    BY ClocksAssumption DEF ClocksAssumption, Offsets!OffsetsAssumption
  <2> QED
    BY <2>1, <2>2
<1>3. /\ last = prev /\ IsReading(last) /\ IsReading(prev) /\ exitcode = 0
  BY <1>1 DEF OffsetsInv, ReadInv, OffsetsTypes
<1>4. OffsetsTypes' /\ ReadInv'
  BY <1>1, <1>2 DEF OffsetsInv, OffsetsTypes, ReadInv
<1>5. Offsets!llabs(last.offset - prev.offset) = 0 /\ last.window \in Nat /\ prev.window \in Nat
  BY <1>3 DEF IsReading, Offsets!llabs
<1>6. Offsets!NoFalseAlarm' /\ Offsets!FaultIsFound'
  BY <1>1, <1>2, <1>3, <1>5 DEF Offsets!NoFalseAlarm, Offsets!FaultIsFound
<1> QED
  BY <1>1, <1>3, <1>4, <1>6 DEF OffsetsInv

\* The first reading of a clock.
LEMMA OffsetsStart == ASSUME OffsetsInv, Offsets!Start PROVE OffsetsInv'
<1>1. /\ pc = "start" /\ UNCHANGED <<offset, margin, exitcode, jumped>>
      /\ \/ /\ pc' = "while"
            /\ \E d \in Delays \X Delays :
                 off1' = Offsets!Off(d) /\ last' = Offsets!Seen(d) /\ prev' = Offsets!Seen(d)
         \/ pc' = "exit" /\ UNCHANGED <<off1, last, prev>>
  BY DEF Offsets!Start, Offsets!Goto
<1>2. CASE pc' = "while"
  <2>1. PICK d \in Delays \X Delays :
          off1' = Offsets!Off(d) /\ last' = Offsets!Seen(d) /\ prev' = Offsets!Seen(d)
    BY <1>1, <1>2
  <2>2. /\ IsReading(last') /\ last'.offset = offset /\ off1' \in Int /\ Near(off1', last')
        /\ prev' = last'
    BY <2>1, SeenIsNear DEF OffsetsInv, OffsetsTypes
  <2>3. OffsetsTypes' /\ ReadInv'
    BY <1>1, <1>2, <2>2 DEF OffsetsInv, OffsetsTypes, ReadInv, Near, IsReading
  <2>4. exitcode = 0
    BY <1>1 DEF OffsetsInv
  <2>5. Offsets!NoFalseAlarm'
    BY <1>1, <2>4 DEF Offsets!NoFalseAlarm
  <2>6. Offsets!FaultIsFound'
    <3>1. /\ last'.offset \in Int /\ last'.window \in Nat /\ margin \in Nat
          /\ Offsets!llabs(last'.offset - prev'.offset) = 0
      BY <2>2 DEF IsReading, Offsets!llabs, OffsetsInv, OffsetsTypes
    <3> QED
      BY <1>1, <2>2, <3>1 DEF Offsets!FaultIsFound
  <2> QED
    BY <1>1, <1>2, <2>3, <2>4, <2>5, <2>6 DEF OffsetsInv
<1>3. CASE pc' = "exit"
  <2>1. UNCHANGED <<off1, last, prev, offset, margin, exitcode, jumped>>
    BY <1>1, <1>3
  <2>2. OffsetsTypes' /\ ReadInv'
    BY <1>3, <2>1 DEF OffsetsInv, OffsetsTypes, ReadInv
  <2>3. Offsets!NoFalseAlarm' /\ Offsets!FaultIsFound'
    BY <2>1 DEF OffsetsInv, Offsets!NoFalseAlarm, Offsets!FaultIsFound
  <2> QED
    BY <1>3, <2>2, <2>3 DEF OffsetsInv
<1> QED
  BY <1>1, <1>2, <1>3

\* A reading is compared with the one before it.
LEMMA OffsetsRead == ASSUME OffsetsInv, Offsets!Read PROVE OffsetsInv'
<1>1. PICK d \in Delays \X Delays :
        /\ last' = Offsets!Seen(d) /\ prev' = last
        /\ \/ Offsets!Moved(Offsets!Off(d)) /\ pc' = "exit" /\ exitcode' = 255 /\ off1' = off1
           \/ /\ ~Offsets!Moved(Offsets!Off(d)) /\ pc' \in {"start", "while"}
              /\ off1' = Offsets!Off(d) /\ exitcode' = exitcode
  BY DEF Offsets!Read, Offsets!Goto
<1>2. pc = "while" /\ UNCHANGED <<offset, margin, jumped>>
  BY DEF Offsets!Read, Offsets!Goto
<1>3. /\ IsReading(last) /\ Near(off1, last) /\ off1 \in Int /\ exitcode = 0 /\ offset \in Int
      /\ margin \in Nat /\ (~jumped => last.offset = offset)
  BY <1>2 DEF OffsetsInv, OffsetsTypes, ReadInv
<1> DEFINE new == Offsets!Seen(d)
           off2 == Offsets!Off(d)
<1>4. IsReading(new) /\ new.offset = offset /\ off2 \in Int /\ Near(off2, new)
  BY <1>3, SeenIsNear
<1>5. last' = new /\ prev' = last /\ off1' \in {off1, off2} /\ (pc' # "exit" => off1' = off2)
  BY <1>1
<1>6. /\ Offsets!Moved(off2) => pc' = "exit" /\ exitcode' = 255
      /\ ~Offsets!Moved(off2) => pc' \in {"start", "while"} /\ exitcode' = 0
  BY <1>1, <1>3
<1> HIDE DEF new, off2
<1>7. /\ last.offset = new.offset /\ last.window <= margin /\ new.window <= margin =>
           ~Offsets!Moved(off2)
      /\ ~Offsets!Moved(off2) =>
           Offsets!llabs(new.offset - last.offset) <= margin + new.window + last.window
  <2>1. Offsets!llabs(off2 - off1) \in Int /\ margin \in Int
    BY <1>3, <1>4 DEF Offsets!llabs
  <2>2. /\ last.offset = new.offset /\ last.window <= margin /\ new.window <= margin =>
             Offsets!llabs(off2 - off1) <= margin
        /\ Offsets!llabs(off2 - off1) <= margin =>
             Offsets!llabs(new.offset - last.offset) <= margin + new.window + last.window
    BY <1>3, <1>4, <2>1, NearReadings
  <2>3. Offsets!Moved(off2) \/ Offsets!llabs(off2 - off1) <= margin
    BY <2>1, SMT DEF Offsets!Moved
  <2>4. Offsets!Moved(off2) => ~(Offsets!llabs(off2 - off1) <= margin)
    BY <2>1, SMT DEF Offsets!Moved
  <2> QED
    BY <2>2, <2>3, <2>4, Zenon
<1>8. OffsetsTypes'
  <2>1. pc' \in {"margin", "start", "while", "exit"} /\ off1' \in Int
    BY <1>3, <1>4, <1>5, <1>6
  <2> QED
    BY <1>2, <1>3, <1>4, <1>5, <2>1 DEF OffsetsInv, OffsetsTypes
<1>9. ReadInv'
  <2>1. pc' # "margin" /\ (pc' = "while" => off1' = off2)
    BY <1>5, <1>6
  <2> QED
    BY <1>2, <1>3, <1>4, <1>5, <2>1 DEF ReadInv, Near
<1>10. Offsets!NoFalseAlarm'
  BY <1>2, <1>3, <1>4, <1>5, <1>6, <1>7 DEF Offsets!NoFalseAlarm
<1>11. Offsets!FaultIsFound'
  BY <1>2, <1>5, <1>6, <1>7 DEF Offsets!FaultIsFound
<1>12. pc' # "exit" => exitcode' = 0
  BY <1>6
<1> QED
  BY <1>8, <1>9, <1>10, <1>11, <1>12 DEF OffsetsInv

\* Every step keeps the invariant.
LEMMA OffsetsSteps == OffsetsInv /\ [Offsets!Next]_(Offsets!vars) => OffsetsInv'
<1> SUFFICES ASSUME OffsetsInv, [Offsets!Next]_(Offsets!vars) PROVE OffsetsInv'
  OBVIOUS
<1>1. CASE UNCHANGED Offsets!vars
  <2>1. UNCHANGED <<offset, pc, margin, off1, exitcode, last, prev, jumped>>
    BY <1>1 DEF Offsets!vars
  <2> QED
    BY <2>1
    DEF OffsetsInv, OffsetsTypes, ReadInv, Near, IsReading, Offsets!NoFalseAlarm,
        Offsets!FaultIsFound
<1> QED
  BY <1>1, OffsetsJump, OffsetsMargin, OffsetsStart, OffsetsRead DEF Offsets!Next, Offsets!Main

\* The inductive invariant of consistent-offsets, for all delays, jumps and margins.
THEOREM OffsetsInvariant == Offsets!Spec => []OffsetsInv
BY OffsetsStarts, OffsetsSteps, PTL DEF Offsets!Spec

\* consistent-offsets passes a clock that nobody sets, where no reading takes longer than
\* the margin.
LEMMA UnsetClocksPass == OffsetsInv => Offsets!NoFalseAlarm
BY DEF OffsetsInv

\* It fails one that is set by more than the margin and what two readings hide.
LEMMA SetClocksFail == OffsetsInv => Offsets!FaultIsFound
BY DEF OffsetsInv

-------------------------------------------------------------------------------
(* threadtest.  Its theorems are those of ThreadTestProofs, for the constants *)
(* and the variables that Clocks gives it: what is proved here is that a run  *)
(* of the suite with threads is one of threadtest.                           *)

ThreadingP == INSTANCE ThreadTestProofs WITH Runtime <- runtime

LEMMA ThreadAssumptions == ThreadingP!NsecAssumption /\ ThreadingP!ThreadTestAssumption
BY ClocksAssumption
DEF Threading!ThreadTestAssumption, ThreadingP!NsecAssumption, ThreadingP!ThreadTestAssumption

\* The two instances are of one module.
LEMMA SameInit == Threading!Init => ThreadingP!Init
BY Zenon
DEF Threading!Init, ThreadingP!Init, Threading!Lists, ThreadingP!Lists, Threading!Slots,
    ThreadingP!Slots, Threading!Epoch, ThreadingP!Epoch, Threading!Threads, ThreadingP!Threads

LEMMA SameNext == [Threading!Next]_(Threading!vars) => [ThreadingP!Next]_(ThreadingP!vars)
BY Zenon
DEF Threading!Next, ThreadingP!Next, Threading!Threads, ThreadingP!Threads, Threading!Lists,
    ThreadingP!Lists, Threading!Slots, ThreadingP!Slots, Threading!Instants,
    ThreadingP!Instants, Threading!Epoch, ThreadingP!Epoch, Threading!Own, ThreadingP!Own,
    Threading!Goto, ThreadingP!Goto, Threading!MainGoto, ThreadingP!MainGoto, Threading!vars,
    ThreadingP!vars, Threading!threadVars, ThreadingP!threadVars, Threading!mainVars,
    ThreadingP!mainVars, Threading!Tick, ThreadingP!Tick, Threading!Warp, ThreadingP!Warp,
    Threading!Main, ThreadingP!Main, Threading!Terminated, ThreadingP!Terminated,
    Threading!Thread, ThreadingP!Thread, Threading!Spawn, ThreadingP!Spawn, Threading!TestTime,
    ThreadingP!TestTime, Threading!Sleep, ThreadingP!Sleep, Threading!TestDone,
    ThreadingP!TestDone, Threading!SetDone, ThreadingP!SetDone, Threading!Join, ThreadingP!Join,
    Threading!CheckDone, ThreadingP!CheckDone, Threading!LockList, ThreadingP!LockList,
    Threading!TakeSlot, ThreadingP!TakeSlot, Threading!ReadClock, ThreadingP!ReadClock,
    Threading!UnlockList, ThreadingP!UnlockList, Threading!ScanPair, ThreadingP!ScanPair,
    Threading!LockPrint, ThreadingP!LockPrint, Threading!PrintFailed, ThreadingP!PrintFailed,
    Threading!ScanDone, ThreadingP!ScanDone, Threading!PairBad, ThreadingP!PairBad,
    Threading!Inconsistent, ThreadingP!Inconsistent, Threading!in_order, ThreadingP!in_order

LEMMA SameProperties ==
  /\ ThreadingP!TypeOK => Threading!TypeOK
  /\ ThreadingP!NoFalseAlarm => Threading!NoFalseAlarm
  /\ ThreadingP!StepBackIsFound => Threading!StepBackIsFound
BY Zenon
DEF Threading!TypeOK, ThreadingP!TypeOK, Threading!NoFalseAlarm, ThreadingP!NoFalseAlarm,
    Threading!StepBackIsFound, ThreadingP!StepBackIsFound, Threading!Lists, ThreadingP!Lists,
    Threading!Slots, ThreadingP!Slots, Threading!Instants, ThreadingP!Instants,
    Threading!Threads, ThreadingP!Threads, Threading!Own, ThreadingP!Own, Threading!in_order,
    ThreadingP!in_order

LEMMA SameSamplerInit == ThreadingP!Abstract!Init => Threading!Abstract!Init
BY Zenon
DEF Threading!Abstract!Init, ThreadingP!Abstract!Init, Threading!Samples, ThreadingP!Samples,
    Threading!Threads, ThreadingP!Threads, Threading!Own, ThreadingP!Own, Threading!Cardinality,
    ThreadingP!Cardinality, Threading!IsFiniteSet, ThreadingP!IsFiniteSet

LEMMA SameSamplerNext ==
  [ThreadingP!Abstract!Next]_(ThreadingP!Abstract!vars)
    => Threading!Abstract!Next \/ UNCHANGED Threading!Abstract!vars
BY Zenon
DEF Threading!Abstract!Next, ThreadingP!Abstract!Next, Threading!Abstract!vars,
    ThreadingP!Abstract!vars, Threading!Abstract!Run, ThreadingP!Abstract!Run,
    Threading!Abstract!Sample, ThreadingP!Abstract!Sample, Threading!Abstract!Full,
    ThreadingP!Abstract!Full, Threading!Abstract!Steps, ThreadingP!Abstract!Steps,
    Threading!Abstract!Find, ThreadingP!Abstract!Find, Threading!Abstract!Discard,
    ThreadingP!Abstract!Discard, Threading!Abstract!in_order, ThreadingP!Abstract!in_order,
    Threading!Samples, ThreadingP!Samples, Threading!Threads, ThreadingP!Threads, Threading!Own,
    ThreadingP!Own, Threading!Cardinality, ThreadingP!Cardinality, Threading!IsFiniteSet,
    ThreadingP!IsFiniteSet

\* The program is chosen once.
IsThreads == setup = "threads"

LEMMA ThreadsStay == [Next]_vars => (IsThreads <=> IsThreads')
BY DEF Next, vars, IsThreads, InconsistencyCheck, ThreadTest, Nanosleep, RawSkew,
       ConsistentOffsets

\* So a run with threads is one of threadtest.
LEMMA ThreadRuns == Spec => (IsThreads => ThreadingP!Spec)
<1>1. Init /\ IsThreads => ThreadingP!Init
  BY SameInit DEF Init, IsThreads
<1>2. IsThreads /\ [Next]_vars => [ThreadingP!Next]_(ThreadingP!vars)
  <2> SUFFICES ASSUME IsThreads, [Next]_vars PROVE [Threading!Next]_(Threading!vars)
    BY SameNext
  <2>1. CASE UNCHANGED vars
    BY <2>1 DEF vars, commonVars, threadVars, Threading!vars, Threading!threadVars,
                Threading!mainVars
  <2>2. CASE Next
    BY <2>2 DEF Next, IsThreads, InconsistencyCheck, ThreadTest, Nanosleep, RawSkew,
                ConsistentOffsets
  <2> QED
    BY <2>1, <2>2
<1> QED
  BY <1>1, <1>2, ThreadsStay, PTL DEF Spec, ThreadingP!Spec

ThreadsOK ==
  IsThreads => Threading!TypeOK /\ Threading!NoFalseAlarm /\ Threading!StepBackIsFound

\* Such a run has the properties that are proved of threadtest.
THEOREM ThreadsInvariant == Spec => []ThreadsOK
<1>1. ThreadingP!Spec => []ThreadingP!TypeOK
  BY ThreadAssumptions, ThreadingP!TypeCorrect
<1>2. ThreadingP!Spec => []ThreadingP!NoFalseAlarm
  BY ThreadAssumptions, ThreadingP!NeverFalseAlarm
<1>3. ThreadingP!Spec => []ThreadingP!StepBackIsFound
  BY ThreadAssumptions, ThreadingP!AlwaysFindsStepBack
<1>4. ThreadingP!TypeOK /\ ThreadingP!NoFalseAlarm /\ ThreadingP!StepBackIsFound => ThreadsOK
  BY SameProperties DEF ThreadsOK
<1>5. ~IsThreads => ThreadsOK
  BY DEF ThreadsOK
<1> QED
  BY <1>1, <1>2, <1>3, <1>4, <1>5, ThreadRuns, ThreadsStay, PTL DEF Spec

-------------------------------------------------------------------------------
(* The suite: a run is one of the programs', whose invariant holds; of        *)
(* threadtest there is ThreadsInvariant above.                               *)

SuiteInv ==
  /\ setup = "checking" => BatchInv /\ ForwardInv
  /\ setup = "sleeping" => SleepingInv
  /\ setup = "skewed" => SkewedInv
  /\ setup = "offsets" => OffsetsInv

\* The invariant of the suite holds at the start: it is that of the program chosen.
LEMMA SuiteStarts == Init => SuiteInv
<1> SUFFICES ASSUME Init PROVE SuiteInv
  OBVIOUS
<1>1. CASE setup = "checking" /\ Checking!Init
  BY <1>1, BatchStarts, ForwardStarts DEF SuiteInv
<1>2. CASE setup = "sleeping" /\ Sleeping!Init
  BY <1>2, SleepingStarts DEF SuiteInv
<1>3. CASE setup = "skewed" /\ Skewed!Init
  BY <1>3, SkewedStarts DEF SuiteInv
<1>4. CASE setup = "offsets" /\ Offsets!Init
  BY <1>4, OffsetsStarts DEF SuiteInv
<1>5. CASE setup = "threads"
  BY <1>5 DEF SuiteInv
<1> QED
  BY <1>1, <1>2, <1>3, <1>4, <1>5, Zenon DEF Init

\* Every step of the suite is a step of the program chosen, and keeps its invariant.
LEMMA SuiteSteps == SuiteInv /\ [Next]_vars => SuiteInv'
<1> SUFFICES ASSUME SuiteInv, [Next]_vars PROVE SuiteInv'
  OBVIOUS
<1>1. CASE InconsistencyCheck /\ Checking!Next
  <2>1. setup = "checking" /\ setup' = "checking" /\ BatchInv' /\ ForwardInv'
    BY <1>1, BatchSteps, ForwardSteps DEF InconsistencyCheck, SuiteInv
  <2> QED
    BY <2>1 DEF SuiteInv
<1>2. CASE Nanosleep /\ Sleeping!Next
  <2>1. setup = "sleeping" /\ setup' = "sleeping" /\ SleepingInv'
    BY <1>2, SleepingSteps DEF Nanosleep, SuiteInv
  <2> QED
    BY <2>1 DEF SuiteInv
<1>3. CASE RawSkew /\ Skewed!Next
  <2>1. setup = "skewed" /\ setup' = "skewed" /\ SkewedInv'
    BY <1>3, SkewedSteps DEF RawSkew, SuiteInv
  <2> QED
    BY <2>1 DEF SuiteInv
<1>4. CASE ConsistentOffsets /\ Offsets!Next
  <2>1. setup = "offsets" /\ setup' = "offsets" /\ OffsetsInv'
    BY <1>4, OffsetsSteps DEF ConsistentOffsets, SuiteInv
  <2> QED
    BY <2>1 DEF SuiteInv
<1>5. CASE UNCHANGED vars
  <2> USE <1>5 DEF vars, commonVars, checkVars, sleepVars, skewVars, offsetVars
  <2>1. setup' = setup
    OBVIOUS
  <2>2. setup = "checking" => BatchInv' /\ ForwardInv'
    BY BatchSteps, ForwardSteps DEF SuiteInv, Checking!vars, Checking!clockVars
  <2>3. setup = "sleeping" => SleepingInv'
    BY SleepingSteps DEF SuiteInv, Sleeping!vars, Sleeping!history
  <2>4. setup = "skewed" => SkewedInv'
    BY SkewedSteps DEF SuiteInv, Skewed!vars, Skewed!kernelVars
  <2>5. setup = "offsets" => OffsetsInv'
    BY OffsetsSteps DEF SuiteInv, Offsets!vars
  <2> QED
    BY <2>1, <2>2, <2>3, <2>4, <2>5 DEF SuiteInv
<1>6. CASE ThreadTest
  BY <1>6 DEF ThreadTest, SuiteInv
<1> QED
  BY <1>1, <1>2, <1>3, <1>4, <1>5, <1>6, Zenon DEF Next

\* Types; in particular every length slept is one of the loop's.
THEOREM SuiteTypes == Spec => []TypeOK
<1>1. SuiteInv /\ ThreadsOK => TypeOK
  BY CheckingTypes, SleepingTypesHold
  DEF SuiteInv, ThreadsOK, IsThreads, TypeOK
<1> QED
  BY <1>1, SuiteStarts, SuiteSteps, ThreadsInvariant, PTL DEF Spec

\* No program fails a clock that is sound by what the program can tell.
THEOREM SuiteRaisesNoFalseAlarm == Spec => []NoFalseAlarm
<1>1. SuiteInv /\ ThreadsOK => NoFalseAlarm
  BY NoFalseAlarms, SkewedPasses, UnsetClocksPass
  DEF SuiteInv, ThreadsOK, IsThreads, NoFalseAlarm
<1> QED
  BY <1>1, SuiteStarts, SuiteSteps, ThreadsInvariant, PTL DEF Spec

\* On a clock that only moves forward a test lasts as long as asked for.
THEOREM SuiteRunsLongEnough == Spec => []HealthyRunIsLongEnough
<1>1. SuiteInv => HealthyRunIsLongEnough
  BY HealthyRuns DEF SuiteInv, HealthyRunIsLongEnough
<1> QED
  BY <1>1, SuiteStarts, SuiteSteps, PTL DEF Spec

\* No program passes a clock that is wrong by more than it can overlook.
THEOREM SuiteFindsFaults == Spec => []FaultIsFound
<1>1. SuiteInv /\ ThreadsOK => FaultIsFound
  BY LaterStepsBackFail, SkewedFinds, SetClocksFail
  DEF SuiteInv, ThreadsOK, IsThreads, FaultIsFound
<1> QED
  BY <1>1, SuiteStarts, SuiteSteps, ThreadsInvariant, PTL DEF Spec

\* nanosleep fails only for a sleep that has ended early, or for a clock that was set back
\* between the readings that it compares.
THEOREM SuiteFailuresAreReal == Spec => []FailureIsReal
<1>1. SuiteInv => FailureIsReal
  BY FailuresAreReal DEF SuiteInv, FailureIsReal
<1> QED
  BY <1>1, SuiteStarts, SuiteSteps, PTL DEF Spec

\* It lets pass no sleep that is shorter by more than the program was held up.
THEOREM SuiteEarlyWakesFail == Spec => []EarlyWakeFails
<1>1. SuiteInv => EarlyWakeFails
  BY EarlyWakesFail DEF SuiteInv, EarlyWakeFails
<1> QED
  BY <1>1, SuiteStarts, SuiteSteps, PTL DEF Spec

\* A pass has slept every length on every clock that can be slept on.
THEOREM SuiteSleepsAll == Spec => []PassMeansAllSlept
<1>1. SuiteInv => PassMeansAllSlept
  BY PassesHaveSleptAll DEF SuiteInv, PassMeansAllSlept
<1> QED
  BY <1>1, SuiteStarts, SuiteSteps, PTL DEF Spec

\* threadtest -i, like threadtest without it, is a sampler that loses no sample and
\* drops no batch unjudged.
THEOREM SuiteRefinesSampler == Spec => RefinesSampler
<1>1. ThreadingP!Spec => ThreadingP!RefinesSampler
  BY ThreadAssumptions, ThreadingP!ThreadsImplementSampler
<1> DEFINE Ready == setup = "threads" => Threading!Abstract!Init
           Step == setup = "threads" =>
                     Threading!Abstract!Next \/ UNCHANGED Threading!Abstract!vars
<1>2. (IsThreads => ThreadingP!Abstract!Init) => Ready
  BY SameSamplerInit DEF IsThreads
<1>3. (IsThreads => [ThreadingP!Abstract!Next]_(ThreadingP!Abstract!vars)) => Step
  BY SameSamplerNext DEF IsThreads
<1> HIDE DEF Ready, Step
<1>4. Spec => Ready /\ [][Step]_vars
  BY <1>1, <1>2, <1>3, ThreadRuns, ThreadsStay, PTL
  DEF Spec, ThreadingP!RefinesSampler, ThreadingP!Abstract!Spec
<1> QED
  BY <1>4, PTL DEF RefinesSampler, Ready, Step
===============================================================================
