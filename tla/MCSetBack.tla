------------------------------- MODULE MCSetBack -------------------------------
(***************************************************************************)
(* SetBack for TLC: the tables of valid-adjtimex, scaled down, and what else  *)
(* has a sign.  The other constants are in setback.cfg.                    *)
(***************************************************************************)
EXTENDS SetBack

MCvalid_freq      == <<-499, -1, 1, 499, 0>>
MCoutofrange_freq == <<-1000, -550, 550>>
MCinvalid_freq    == <<100000, -100000>>

MCFreqs == {-500, -20, 0, 13}

\* Offsets of both signs around whole microseconds and seconds.
MCOffsets == -13 .. 13
===============================================================================
