------------------------------- MODULE MqueueLat -------------------------------
(***************************************************************************)
(* mqueue-lat.c: the mean time that a hundred receives from an empty queue  *)
(* take to time out.  The deadline is a time of CLOCK_REALTIME; the hundred *)
(* are timed by CLOCK_MONOTONIC.                                           *)
(***************************************************************************)
EXTENDS Integers

CONSTANTS
  count,        \* receives: 100 (scaled down)
  TARGET_TIMEOUT, UNRESONABLE_LATENCY,
  Latencies,    \* by how much a receive may end late
  Settings,     \* by how much CLOCK_REALTIME may be set during a receive
  Disturbed     \* TRUE: messages may come, and receives may be interrupted

\* What the constants may be.
MqueueLatAssumption ==
  /\ count \in Nat \ {0} /\ {TARGET_TIMEOUT, UNRESONABLE_LATENCY} \subseteq Nat
  /\ Latencies \subseteq Nat /\ Latencies # {} /\ Settings \subseteq Int
  /\ Disturbed \in BOOLEAN

VARIABLES
  pc, i,
  clock,         \* CLOCK_MONOTONIC since start
  exitcode,
  worst,         \* history: the longest latency of a receive
  cause          \* history: what else came in between: "set", "message", "error" or "none"

vars == <<pc, i, clock, exitcode, worst, cause>>

Init ==
  /\ pc = "open" /\ i = 0 /\ clock = 0 /\ exitcode = 0 /\ worst = 0 /\ cause = "none"

Goto(from, to) == pc = from /\ pc' = to

\* mq_open, which may fail, mq_getattr and the first clock_gettime.
Open ==
  /\ \/ Goto("open", "receive") /\ UNCHANGED <<exitcode, cause>>
     \/ Goto("open", "exit") /\ exitcode' = 1 /\ cause' = "error"
  /\ UNCHANGED <<i, clock, worst>>

\* A receive that has taken so long.
Received(time) == i < count /\ i' = i + 1 /\ clock' = clock + time

\* It times out at its deadline by CLOCK_REALTIME, or later.
TimesOut ==
  /\ Goto("receive", "receive")
  /\ \E l \in Latencies :
       Received(TARGET_TIMEOUT + l) /\ worst' = IF l > worst THEN l ELSE worst
  /\ UNCHANGED <<exitcode, cause>>

\* CLOCK_REALTIME is set once, so that it times out so much earlier or later.
ClockIsSet ==
  /\ cause = "none" /\ cause' = "set" /\ Goto("receive", "receive")
  /\ \E s \in Settings :
       Received(IF s < TARGET_TIMEOUT THEN TARGET_TIMEOUT - s ELSE 0)
  /\ UNCHANGED <<exitcode, worst>>

\* A message: ret is not below 0, and the loop goes on.
Message ==
  /\ Disturbed /\ cause = "none" /\ cause' = "message" /\ Goto("receive", "receive")
  /\ Received(0)
  /\ UNCHANGED <<exitcode, worst>>

\* Another error than ETIMEDOUT: [FAILED], and the queue is not closed.
Fails ==
  /\ Disturbed /\ i < count /\ Goto("receive", "exit")
  /\ exitcode' = 1 /\ cause' = "error"
  /\ UNCHANGED <<i, clock, worst>>

TooLong == clock \div count > TARGET_TIMEOUT + UNRESONABLE_LATENCY

Verdict ==
  /\ i = count /\ Goto("receive", "exit")
  /\ exitcode' = IF TooLong THEN 1 ELSE 0
  /\ UNCHANGED <<i, clock, worst, cause>>

Main == Open \/ TimesOut \/ ClockIsSet \/ Message \/ Fails \/ Verdict
Next == Main \/ (pc = "exit" /\ UNCHANGED vars)

Spec == Init /\ [][Next]_vars

-------------------------------------------------------------------------------
(* Properties.                                                             *)

\* A receive so late that the mean of the hundred is too large fails the
\* program, whatever the others took, if nothing cut one short.
LateReceiveFails ==
  pc = "exit" /\ cause = "none" /\ worst >= count * (UNRESONABLE_LATENCY + 1) => exitcode = 1

\* It fails for a receive later than the limit, for an error, or because
\* CLOCK_REALTIME was set, by which it does not measure.
OnlyLatenessFails ==
  exitcode = 1 => worst > UNRESONABLE_LATENCY \/ cause \in {"error", "set"}
===============================================================================
