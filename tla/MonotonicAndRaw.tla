---------------------------- MODULE MonotonicAndRaw ----------------------------
(***************************************************************************)
(* get_monotonic_and_raw, in raw_skew and adjtick: CLOCK_MONOTONIC,         *)
(* CLOCK_MONOTONIC_RAW and CLOCK_MONOTONIC again are read three times over, *)
(* and the tightest of the three is to pair a time of the one clock with a  *)
(* time of the other.                                                      *)
(*                                                                         *)
(* The clocks run at the same rate while they are read (the drift of so     *)
(* short a time is below a nanosecond): a round is told by the two delays   *)
(* between its three reads.                                                 *)
(***************************************************************************)
EXTENDS Integers

CONSTANT Gaps   \* nanoseconds that may pass between two reads

\* What the constant may be.
GapsAssumption == Gaps \subseteq Nat /\ Gaps # {}

VARIABLES
  clock,   \* CLOCK_MONOTONIC
  gain     \* how far it is ahead of CLOCK_MONOTONIC_RAW

Rounds == Gaps \X Gaps

\* Of three rounds: the window chosen, the two times and, in t, the time passed,
\* all relative to the call.
None == [diff |-> 0, mon |-> 0, raw |-> 0, t |-> 0]

\* One turn of the for loop.
Better(p, round) ==
  LET newdiff == round[1] + round[2]
  IN  IF p.diff = 0 \/ newdiff < p.diff
      THEN [diff |-> newdiff, mon |-> (2 * p.t + newdiff) \div 2, raw |-> p.t + round[1],
            t |-> p.t + newdiff]
      ELSE [p EXCEPT !.t = @ + newdiff]

Chosen(a, b, c) == Better(Better(Better(None, a), b), c)

\* What the three rounds may lead to.
Pairs == {Chosen(a, b, c) : a \in Rounds, b \in Rounds, c \in Rounds}

\* A pair as get_monotonic_and_raw hands it to its caller, with its window.
Reading(p) == [mon |-> clock + p.mon, raw |-> clock - gain + p.raw, window |-> p.diff]

\* The clocks run on for a time at a rate, in parts of unit.
Run(time, rate, unit) ==
  LET gained == (time * rate) \div unit
  IN  clock' = clock + time + gained /\ gain' = gain + gained

\* How far two readings may be off what happened in the span between them, in parts of
\* unit: each by half its window, and divisions round.
Uncertainty(a, b, span, unit) == ((a.window + b.window) * unit) \div (2 * span) + 2

\* "Try to get a more tightly bound pairing": no round was tighter than the one
\* the pair was taken from, if every round takes some time.  A diff of 0 would
\* be taken for none, and the next round for tighter.
TightestIsKept ==
  0 \notin Gaps =>
    \A a, b, c \in Rounds :
      \A round \in {a, b, c} : Chosen(a, b, c).diff <= round[1] + round[2]
===============================================================================
