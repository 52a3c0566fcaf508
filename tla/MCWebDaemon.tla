---------------------------- MODULE MCWebDaemon ----------------------------
(* WebDaemon, for TLC.                                                     *)
EXTENDS WebDaemon, TLC

MCAlike == Permutations(Runs) \union Permutations(Children) \union Permutations(Cmds)
=============================================================================
