------------------------------ MODULE MCRepeat ------------------------------
(***************************************************************************)
(* One instance of the repeat runner for TLC: a duration that is not a     *)
(* whole number of intervals, so that the last sleep is cut.               *)
(***************************************************************************)
EXTENDS Repeat
=============================================================================
