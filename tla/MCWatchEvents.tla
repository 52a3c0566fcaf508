--------------------------- MODULE MCWatchEvents ---------------------------
(***************************************************************************)
(* One row and two amounts of sells below the peg for TLC.                 *)
(***************************************************************************)
EXTENDS WatchEvents
=============================================================================
