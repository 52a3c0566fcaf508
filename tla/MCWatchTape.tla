---------------------------- MODULE MCWatchTape ----------------------------
(***************************************************************************)
(* Four trades over five instants, a tape of three, for TLC.               *)
(***************************************************************************)
EXTENDS WatchTape
=============================================================================
