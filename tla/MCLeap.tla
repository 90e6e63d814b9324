-------------------------------- MODULE MCLeap --------------------------------
(***************************************************************************)
(* The set-ups of Leap for TLC.                                             *)
(***************************************************************************)
EXTENDS Leap

\* Three iterations on an old kernel, with an ntpd about.
Interrupted ==
  [DAY |-> 16, NTP_PHASE_LIMIT |-> 20, OldKernel |-> TRUE, settime |-> TRUE,
   Iterations |-> 3, Starts |-> {3}, MaxTimers |-> 3, HrtimerBug |-> FALSE,
   Interference |-> TRUE, CtrlC |-> TRUE, MaxLate |-> 1]

MCDays ==
  [ctrlc  |-> Interrupted,
   \* In days long enough for the clock to become unsynchronised.
   late   |-> [Interrupted EXCEPT
                 !.DAY = 40, !.NTP_PHASE_LIMIT = 30, !.OldKernel = FALSE, !.Iterations = 2,
                 !.MaxTimers = 2, !.Interference = FALSE, !.CtrlC = FALSE, !.MaxLate = 15],
   buggy  |-> [Interrupted EXCEPT
                 !.OldKernel = FALSE, !.Iterations = 2, !.MaxTimers = 2, !.HrtimerBug = TRUE,
                 !.Interference = FALSE, !.MaxLate = 2],
   \* The wait for the end of the day is as long as the clock stays synchronised.
   waiting |-> [Interrupted EXCEPT
                 !.NTP_PHASE_LIMIT = 21, !.OldKernel = FALSE, !.settime = FALSE,
                 !.Iterations = 1, !.Starts = {5, 10, 11}, !.MaxTimers = 1, !.CtrlC = FALSE],
   \* The process may hold one timer less than it has iterations.
   ending |-> [Interrupted EXCEPT !.OldKernel = FALSE, !.MaxTimers = 2]]

MCCrash ==
  [DAY |-> 8, NTP_PHASE_LIMIT |-> 3, OldKernel |-> TRUE, COUNT |-> 3, Start |-> 5]
===============================================================================
