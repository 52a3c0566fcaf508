----------------------------- MODULE MCTuiLoop -----------------------------
(* The model of TuiLoop that TLC checks: the bounds are in the .cfg files. *)
EXTENDS TuiLoop

=============================================================================
