-------------------------------- MODULE Sampler --------------------------------
(***************************************************************************)
(* What threadtest promises, without its threads, locks, flags and lists:   *)
(* samples of a clock are gathered in batches; a batch that is full is      *)
(* judged, and dropped.  Judging may overlook a step back from one second   *)
(* into an earlier one, but no other, and finds nothing that is not there.  *)
(***************************************************************************)
EXTENDS Timespec, Sequences

CONSTANTS
  LISTSIZE,   \* samples in a batch
  Batches     \* the batches that are gathered side by side

VARIABLES
  faulty,   \* the clock may step back
  clock,
  batch,    \* batch[b]: the samples so far
  found     \* an inconsistency has been found

vars == <<faulty, clock, batch, found>>

Init ==
  /\ faulty \in BOOLEAN /\ clock = [tv_sec |-> 0, tv_nsec |-> 0]
  /\ batch = [b \in Batches |-> <<>>] /\ found = FALSE

Run ==
  /\ faulty \/ in_order(clock, clock')
  /\ UNCHANGED <<faulty, batch, found>>

\* What is sampled is the clock at that moment.
Sample(b) ==
  /\ Len(batch[b]) < LISTSIZE
  /\ batch' = [batch EXCEPT ![b] = Append(@, clock)]
  /\ UNCHANGED <<faulty, clock, found>>

Full(b) == Len(batch[b]) = LISTSIZE

\* The samples of a batch before and after each of its steps.
Steps(b) == {<<batch[b][k], batch[b][k + 1]>> : k \in 1 .. Len(batch[b]) - 1}

\* Where time has really gone backwards.
Find(b) ==
  /\ Full(b) /\ \E s \in Steps(b) : ~in_order(s[1], s[2])
  /\ found' = TRUE
  /\ UNCHANGED <<faulty, clock, batch>>

\* Never before a step back within a second has been found.
Discard(b) ==
  /\ Full(b)
  /\ found \/ \A s \in Steps(b) : s[1].tv_sec = s[2].tv_sec => in_order(s[1], s[2])
  /\ batch' = [batch EXCEPT ![b] = <<>>]
  /\ UNCHANGED <<faulty, clock, found>>

Next == Run \/ \E b \in Batches : Sample(b) \/ Find(b) \/ Discard(b)

Spec == Init /\ [][Next]_vars
===============================================================================
