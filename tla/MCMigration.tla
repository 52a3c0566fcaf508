---------------------------- MODULE MCMigration ----------------------------
(***************************************************************************)
(* Two items for TLC: the config, which has two old places, and the token  *)
(* list, which has one.                                                    *)
(***************************************************************************)
EXTENDS Migration

CONSTANTS xdgConfig, platformConfig, tokens

MCSources == {xdgConfig, platformConfig, tokens}
MCItems == <<<<xdgConfig, platformConfig>>, <<tokens>>>>
=============================================================================
