-------------------------------- MODULE SetBack --------------------------------
(***************************************************************************)
(* The programs that change the machine and set it back: four that run      *)
(* other programs on it (change_skew, skew_consistency, clocksource-switch, *)
(* set-2038), ntp-converge, and four that try what adjtimex does (adjtick,  *)
(* valid-adjtimex, adj-setoffset, set-tai).  One behaviour is a run of one  *)
(* of them in one of the set-ups below, which Init chooses.                 *)
(***************************************************************************)
EXTENDS Contracts

\* The constants of the programs, where they say what each is.
CONSTANTS
  Freqs,                                       \* change_skew, skew_consistency
  Count,                                       \* clocksource-switch
  MaxSecs,                                     \* set-2038
  NSEC_PER_USEC, USEC_PER_SEC, Offsets, Errors,             \* ntp-converge
  MILLION, SYSTICK, TOLERANCE, SLEEP, Faults, NtpdFreqs, Slews, Gaps,  \* adjtick
  valid_freq, outofrange_freq, invalid_freq, MAXFREQ,       \* valid-adjtimex
  SECOND,                                      \* adj-setoffset: its NSEC_PER_SEC
  LAST                                         \* set-tai

\* The set-ups in which something may go wrong: fork fails, clocksource-switch
\* cannot fork or switch, a long has 32 bits, the kernel refuses a time near an
\* edge or takes one that it must refuse, the logger fails.
CONSTANTS ForkFails, CallsFail, is32bits, Refuses, BadKernel, DriftlogMayFail

\* Those in which the name that clocksource-switch reads is terminated, and those
\* in which set-2038 has -d.
CONSTANTS Terminated, dangerous

VARIABLES
  setup,  \* the set-up, a constant of the behaviour
  pc, exitcode, i, freq, clock, privileged, status, ret, ntpd, pid, tested, taken, disturbed,
  orig, tx_freq, under,
  ppm, turned, child, result,
  cur, child_status, orig_clk, before, sane, refused,
  elapsed, step,
  err, ntp, old, driftlog, conf, drift, offset, base, began,
  tx_tick, tx_offset, fault, gain, tick, first, second, moved,
  kernel, is64, net, tai

\* The variables that more than one program has and the rest have not.
skewVars   == <<orig, tx_freq>>
turnVars   == <<ppm, turned>>
childVars  == <<child, result>>
switchVars == <<cur, child_status, orig_clk, before, sane, refused>>
eraVars    == <<elapsed, step>>
ntpVars    == <<err, ntp, old, driftlog, conf, drift, offset, base, began>>
tickVars   == <<tx_tick, tx_offset, fault, gain, tick, first, second, moved>>
kernelVars == <<kernel, is64, net, tai>>
vars == <<setup, pc, exitcode, i, freq, clock, privileged, status, ret, ntpd, pid, tested, taken,
          disturbed, under, turnVars, skewVars, childVars, switchVars, eraVars, ntpVars, tickVars,
          kernelVars>>

\* The set-ups of the programs that have two.
Switchings  == {"switching", "faulty"}
Datings     == {"edges", "32bits"}
Convergings == {"converging", "failing"}

Changing   == INSTANCE ChangeSkew
Turning    == INSTANCE SkewConsistency WITH ForkFails <- "turning" \in ForkFails
Switching(s) == INSTANCE ClocksourceSwitch WITH
  Faults <- s \in CallsFail, Terminated <- s \in Terminated
Dating(s) == INSTANCE Set2038 WITH
  is32bits <- s \in is32bits, dangerous <- s \in dangerous,
  BadKernel <- s \in BadKernel, Refuses <- s \in Refuses
Converging(s) == INSTANCE NtpConverge WITH
  DriftlogMayFail <- s \in DriftlogMayFail, ForkFails <- s \in ForkFails
Ticking    == INSTANCE AdjTick WITH Freqs <- NtpdFreqs
Validating == INSTANCE ValidAdjtimex
Offsetting == INSTANCE AdjSetoffset WITH NSEC_PER_SEC <- SECOND
Tai        == INSTANCE SetTai

\* What the constants may be.
ASSUME SetBackAssumption ==
  /\ Changing!ChangeSkewAssumption /\ Turning!SkewConsistencyAssumption
  /\ \A s \in Switchings : Switching(s)!ClocksourceAssumption
  /\ \A s \in Datings : Dating(s)!Set2038Assumption
  /\ \A s \in Convergings : Converging(s)!NtpConvergeAssumption
  /\ Ticking!AdjTickAssumption /\ Validating!ValidAdjtimexAssumption
  /\ Offsetting!AdjSetoffsetAssumption /\ Tai!SetTaiAssumption

-------------------------------------------------------------------------------
(* A step of one program leaves the variables of the others alone.          *)

ChangeSkew(name) ==
  /\ setup = name
  /\ UNCHANGED <<setup, clock, status, pid, tested, taken, disturbed, turnVars, childVars,
                 switchVars, eraVars, ntpVars, tickVars, kernelVars>>
SkewConsistency(name) ==
  /\ setup = name
  /\ UNCHANGED <<setup, i, clock, privileged, ntpd, tested, taken, disturbed, under,
                 switchVars, eraVars, ntpVars, tickVars, kernelVars>>
ClocksourceSwitch(name) ==
  /\ setup = name
  /\ UNCHANGED <<setup, freq, clock, privileged, ret, ntpd, pid, tested, taken, disturbed,
                 under, turnVars, skewVars, eraVars, ntpVars, tickVars, kernelVars>>
Set2038(name) ==
  /\ setup = name
  /\ UNCHANGED <<setup, i, freq, privileged, status, ntpd, pid, disturbed, under, turnVars,
                 skewVars, childVars, switchVars, ntpVars, tickVars, kernelVars>>
NtpConverge(name) ==
  /\ setup = name
  /\ UNCHANGED <<setup, i, freq, clock, privileged, status, ret, tested, taken, disturbed,
                 under, turnVars, skewVars, childVars, switchVars, eraVars, tickVars, kernelVars>>
AdjTick(name) ==
  /\ setup = name
  /\ UNCHANGED <<setup, i, status, ret, ntpd, pid, taken, under, turnVars, skewVars, childVars,
                 switchVars, eraVars, ntpVars, kernelVars>>
ValidAdjtimex(name) ==
  /\ setup = name
  /\ UNCHANGED <<setup, clock, ret, ntpd, pid, tested, disturbed, under, turnVars, skewVars,
                 childVars, switchVars, eraVars, ntpVars, tickVars, net, tai>>
AdjSetoffset(name) ==
  /\ setup = name
  /\ UNCHANGED <<setup, freq, clock, ret, ntpd, pid, tested, taken, disturbed, under, turnVars,
                 skewVars, childVars, switchVars, eraVars, ntpVars, tickVars, is64, tai>>
SetTai(name) ==
  /\ setup = name
  /\ UNCHANGED <<setup, freq, clock, status, ret, ntpd, pid, tested, taken, under, turnVars,
                 skewVars, childVars, switchVars, eraVars, ntpVars, tickVars, kernel, is64,
                 net>>

\* What the variables are of the programs that do not run.
NoSkew   == orig = 0 /\ tx_freq = 0
NoTurn   == ppm = 0 /\ turned = FALSE
NoChild  == child = "none" /\ result = 0
NoSwitch == /\ cur = 0 /\ child_status = 0 /\ orig_clk = 0 /\ before = 0 /\ sane = {}
            /\ refused = FALSE
NoEra    == elapsed = 0 /\ step = 0
NoNtp    == /\ err = 0 /\ ntp = 0 /\ old = FALSE /\ driftlog = "none" /\ conf = "none"
            /\ drift = "none" /\ offset = 0 /\ base = 0 /\ began = {}
NoTick   == /\ tx_tick = 0 /\ tx_offset = 0 /\ fault = 0 /\ gain = 0 /\ tick = 0
            /\ first = 0 /\ second = 0 /\ moved = 0
NoKernel == kernel = "sound" /\ is64 = FALSE /\ net = 0 /\ tai = 0

Init ==
  \/ /\ setup = "changing" /\ Changing!Init
     /\ clock = 0 /\ status = 0 /\ pid = 0 /\ tested = {} /\ taken = FALSE
     /\ disturbed = FALSE /\ NoTurn /\ NoChild /\ NoSwitch /\ NoEra /\ NoNtp /\ NoTick
     /\ NoKernel
  \/ /\ setup = "turning" /\ Turning!Init
     /\ i = 0 /\ clock = 0 /\ privileged = TRUE /\ ntpd = FALSE /\ tested = {}
     /\ taken = FALSE /\ disturbed = FALSE /\ under = {} /\ NoSwitch /\ NoEra /\ NoNtp
     /\ NoTick /\ NoKernel
  \/ /\ \E s \in Switchings : setup = s /\ Switching(s)!Init
     /\ freq = 0 /\ clock = 0 /\ privileged = TRUE /\ ret = 0 /\ ntpd = FALSE /\ pid = 0
     /\ tested = {} /\ taken = FALSE /\ disturbed = FALSE /\ under = {} /\ NoTurn /\ NoSkew
     /\ NoEra /\ NoNtp /\ NoTick /\ NoKernel
  \/ /\ \E s \in Datings : setup = s /\ Dating(s)!Init
     /\ i = 0 /\ freq = 0 /\ privileged = TRUE /\ status = 0 /\ ntpd = FALSE /\ pid = 0
     /\ disturbed = FALSE /\ under = {} /\ NoTurn /\ NoSkew /\ NoChild /\ NoSwitch /\ NoNtp
     /\ NoTick /\ NoKernel
  \/ /\ \E s \in Convergings : setup = s /\ Converging(s)!Init
     /\ i = 0 /\ freq = 0 /\ clock = 0 /\ privileged = TRUE /\ status = 0 /\ ret = 0
     /\ tested = {} /\ taken = FALSE /\ disturbed = FALSE /\ under = {} /\ NoTurn /\ NoSkew
     /\ NoChild /\ NoSwitch /\ NoEra /\ NoTick /\ NoKernel
  \/ /\ setup = "ticking" /\ Ticking!Init
     /\ i = 0 /\ status = 0 /\ ret = 0 /\ ntpd = FALSE /\ pid = 0 /\ taken = FALSE
     /\ under = {} /\ NoTurn /\ NoSkew /\ NoChild /\ NoSwitch /\ NoEra /\ NoNtp /\ NoKernel
  \/ /\ setup = "validating" /\ Validating!Init
     /\ clock = 0 /\ ret = 0 /\ ntpd = FALSE /\ pid = 0 /\ tested = {} /\ disturbed = FALSE
     /\ under = {} /\ NoTurn /\ NoSkew /\ NoChild /\ NoSwitch /\ NoEra /\ NoNtp /\ NoTick
     /\ net = 0 /\ tai = 0
  \/ /\ setup = "offsetting" /\ Offsetting!Init
     /\ freq = 0 /\ clock = 0 /\ ret = 0 /\ ntpd = FALSE /\ pid = 0 /\ tested = {}
     /\ taken = FALSE /\ disturbed = FALSE /\ under = {} /\ NoTurn /\ NoSkew /\ NoChild
     /\ NoSwitch /\ NoEra /\ NoNtp /\ NoTick /\ is64 = FALSE /\ tai = 0
  \/ /\ setup = "tai" /\ Tai!Init
     /\ freq = 0 /\ clock = 0 /\ status = 0 /\ ret = 0 /\ ntpd = FALSE /\ pid = 0
     /\ tested = {} /\ taken = FALSE /\ under = {} /\ NoTurn /\ NoSkew /\ NoChild
     /\ NoSwitch /\ NoEra /\ NoNtp /\ NoTick /\ kernel = "sound" /\ is64 = FALSE /\ net = 0

Next ==
  \/ ChangeSkew("changing") /\ Changing!Next
  \/ SkewConsistency("turning") /\ Turning!Next
  \/ \E s \in Switchings : ClocksourceSwitch(s) /\ Switching(s)!Next
  \/ \E s \in Datings : Set2038(s) /\ Dating(s)!Next
  \/ \E s \in Convergings : NtpConverge(s) /\ Converging(s)!Next
  \/ AdjTick("ticking") /\ Ticking!Next
  \/ ValidAdjtimex("validating") /\ Validating!Next
  \/ AdjSetoffset("offsetting") /\ Offsetting!Next
  \/ SetTai("tai") /\ Tai!Next

Spec == Init /\ [][Next]_vars

\* The fairness of the programs, for the set-ups asked to end.
FairSpec ==
  /\ Spec
  /\ WF_vars(\/ SkewConsistency("turning") /\ Turning!Main
             \/ ClocksourceSwitch("switching") /\ Switching("switching")!Main
             \/ NtpConverge("converging") /\ Converging("converging")!Main)
  /\ WF_vars(\/ SkewConsistency("turning") /\ Turning!Child
             \/ ClocksourceSwitch("switching") /\ Switching("switching")!Child)
  /\ WF_vars(NtpConverge("converging") /\ Converging("converging")!NtpdStarts)
  /\ WF_vars(NtpConverge("converging") /\ Converging("converging")!DriftlogEnds)

-------------------------------------------------------------------------------
(* Properties, each made of those of the programs in the set-ups that can   *)
(* tell.                                                                   *)

\* Type invariant.
TypeOK ==
  /\ setup = "changing" => Changing!TypeOK
  /\ setup = "turning" => Turning!TypeOK
  /\ \A s \in Switchings : setup = s => Switching(s)!TypeOK
  /\ \A s \in Datings : setup = s => Dating(s)!TypeOK
  /\ \A s \in Convergings : setup = s => Converging(s)!TypeOK

\* What RunAll takes the programs to do: the knobs that are neither nominal nor as
\* the program found them are those that its contract says it leaves.
Moved(knob) ==
  CASE setup \in {"changing", "turning"} -> knob = "freq" /\ freq # orig
    [] setup = "ticking"                 -> \/ knob = "freq" /\ freq # 0
                                            \/ knob = "tick" /\ tx_tick # SYSTICK
                                            \/ knob = "slew" /\ tx_offset # 0
    [] setup = "validating"              -> \/ knob = "freq" /\ freq # 0
                                            \/ knob = "leap" /\ status = "set"
    [] setup \in Switchings              -> knob = "clocksource" /\ cur # before
    [] setup \in Datings                 ->
         knob = "date" /\ clock # [from |-> "start", secs |-> elapsed]
    [] OTHER                             -> FALSE

Program ==
  CASE setup = "changing"   -> "change_skew"
    [] setup = "turning"    -> "skew_consistency"
    [] setup = "ticking"    -> "adjtick"
    [] setup = "validating" -> "valid-adjtimex"
    [] setup \in Datings    -> "set-2038"
    [] OTHER                -> "clocksource-switch"

KeepsContract ==
  pc = "exit" /\ privileged /\ exitcode # 255 => {knob \in Knobs : Moved(knob)} \subseteq Leaves(Program)

\* Whichever way the tests go, at exit the machine has the frequency, the tick,
\* the clocksource and the era it had, or what the contract says; the clocksource only
\* if its name was read with its end and the write that goes back is not refused.
MachineIsRestored ==
  /\ KeepsContract
  /\ setup = "changing" => Changing!ThingsAreSetBack
  /\ setup = "ticking" => Ticking!ThingsAreSetBack
  /\ setup = "validating" => Validating!FreqIsReset
  /\ \A s \in Switchings \cap Terminated : setup = s => Switching(s)!OriginalIsRestored
  /\ \A s \in Datings : setup = s => Dating(s)!EraIsRestored

\* No child and no file is left behind when a program ends normally.
NothingIsLeft ==
  /\ setup = "turning" => Turning!ChildIsReaped
  /\ \A s \in Switchings \ CallsFail : setup = s => Switching(s)!ChildIsReaped
  /\ \A s \in Convergings \ (DriftlogMayFail \cup ForkFails) :
       setup = s => Converging(s)!NothingIsLeft

\* What a pass means.  In change_skew, set-2038, valid-adjtimex, adj-setoffset and
\* set-tai, that all on the list was tried and came out as it should; and a sound
\* kernel passes.  In the two programs whose main only sees what becomes of a child it
\* means much less: that no signal has killed the child's command; in
\* clocksource-switch also that every clocksource has passed alone.
PassMeansWhatMainSaw ==
  /\ setup = "changing" => Changing!OkMeansAllTested
  /\ setup = "turning" => Turning!OnlyKilledCheckFails
  /\ \A s \in Switchings : setup = s => Switching(s)!PassMeansSaneAlone
  /\ \A s \in Datings \ (Refuses \cup (is32bits \cap dangerous)) :
       setup = s => Dating(s)!VerdictIsRight
  /\ setup = "validating" => Validating!VerdictIsRight
  /\ setup = "offsetting" => Offsetting!VerdictIsRight
  /\ setup = "tai" => Tai!VerdictIsRight

\* adjtick passes only if every tick was in effect and the clock followed it, whatever an
\* ntpd has done and taken back; and a sound clock that none has touched passes, if the
\* readings are close enough to tell.
TickIsJudged ==
  setup = "ticking" => Ticking!VerdictIsRight /\ Ticking!FaultFails

\* The experiment is the one meant: no switching in the background before every
\* clocksource has passed alone; ntpd finds the offset asked for and nothing else
\* to get rid of, and is not killed before the logger is done.
ExperimentIsSound ==
  /\ \A s \in Switchings : setup = s => Switching(s)!SaneBeforeSwitching
  /\ \A s \in Convergings \ DriftlogMayFail : setup = s => Converging(s)!StartsFromOffset
  /\ \A s \in Convergings : setup = s => Converging(s)!LoggedToTheEnd

\* The programs that wait for a child end.
Ends == setup \in {"turning", "switching", "converging"} => <>(pc = "exit")
===============================================================================
