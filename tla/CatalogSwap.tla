---------------------------- MODULE CatalogSwap ----------------------------
(***************************************************************************)
(* What the sync of the venue catalog promises, with no word of files: a   *)
(* sync replaces the catalog by the version it fetched in one step, or     *)
(* fails and leaves it as it was.  Only a sync that dies, or that fails a  *)
(* second time in putting it back, can lose it; one that fails where there *)
(* was none can bring back an older one.                                   *)
(***************************************************************************)
CONSTANTS
    Versions,   \* the catalogs the server has had
    NoCatalog   \* none is installed

VARIABLES
    catalog,    \* the version installed
    phase,      \* the sync: "idle", "syncing", or "installed", with its report to come
    want,       \* the version it fetched
    outcome     \* how the last sync ended

swapVars == <<catalog, phase, want, outcome>>

Ended(how) == phase' = "idle" /\ outcome' = how

Init ==
    /\ catalog \in Versions \union {NoCatalog}
    /\ phase = "idle" /\ want \in Versions /\ outcome = "none"

Begin ==
    /\ phase = "idle"
    /\ phase' = "syncing" /\ want' \in Versions /\ outcome' = "none"
    /\ UNCHANGED catalog

CannotFetch ==
    /\ phase = "idle"
    /\ Ended("error")
    /\ UNCHANGED <<catalog, want>>

Install ==
    /\ phase = "syncing"
    /\ phase' = "installed" /\ catalog' = want
    /\ UNCHANGED <<want, outcome>>

Fail ==
    /\ phase = "syncing"
    /\ Ended("error")
    /\ catalog' = catalog \/ (catalog = NoCatalog /\ catalog' \in Versions)
    /\ UNCHANGED want

Lose ==
    /\ phase = "syncing"
    /\ Ended("lost") /\ catalog' = NoCatalog
    /\ UNCHANGED want

Finish ==
    /\ phase = "installed"
    /\ Ended("ok")
    /\ UNCHANGED <<catalog, want>>

Die ==
    /\ phase # "idle"
    /\ Ended("died")
    /\ catalog' = catalog \/ (phase = "syncing" /\ catalog' = NoCatalog)
    /\ UNCHANGED want

Next == Begin \/ CannotFetch \/ Install \/ Fail \/ Lose \/ Finish \/ Die

Spec == Init /\ [][Next]_swapVars
=============================================================================
