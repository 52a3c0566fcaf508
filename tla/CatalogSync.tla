---------------------------- MODULE CatalogSync ----------------------------
(***************************************************************************)
(* The sync of the venue catalog into the scope home                       *)
(* (crates/scope-core/src/market/catalog.rs, `sync`), as run by            *)
(* `scope venues update`, `scope venues init` and the first command that   *)
(* needs venues.                                                           *)
(*                                                                         *)
(* Each process fetches a catalog, checks it, writes it to the folder      *)
(* `catalog.new`, moves the old one to `catalog.old` and the new one in    *)
(* its place.  One action is one call into the file system; a call can     *)
(* fail, and the process can die between two of them or partway through a  *)
(* write or a removal.  All processes use the same three folders.          *)
(*                                                                         *)
(* A catalog is the checksum of each of its venues.  A folder is the       *)
(* version its index says it is, and the file of each venue.               *)
(***************************************************************************)
EXTENDS Naturals

CONSTANTS
    Procs,      \* scope processes
    N,          \* venues are 1..N, in the order of the index
    Sums,       \* checksums
    Versions,   \* the catalogs the server has had
    Catalog,    \* what each holds: [Versions -> [Venues -> Sums or "none"]]
    DiskFails,  \* whether a call can fail for a reason of its own (a full disk)
    MaxSyncs    \* bound of the model: syncs begun

None == "none"      \* no file
Torn == "torn"      \* a file written in part

Venues   == 1..N
NoFiles  == [x \in Venues |-> None]
Contents == [Venues -> Sums \union {None}]
Folders  == [index : Versions \union {None, Torn}, files : [Venues -> Sums \union {None, Torn}]]
Empty    == [index |-> None, files |-> NoFiles]
Absent   == [index |-> "absent", files |-> NoFiles]     \* no folder

ASSUME SizeAssumption    == N \in Nat /\ MaxSyncs \in Nat /\ DiskFails \in BOOLEAN
ASSUME CatalogAssumption == Catalog \in [Versions -> Contents]
ASSUME NamesAssumption   ==
    (Versions \union Sums) \cap {None, Torn, "absent"} = {}

VARIABLES
    dest,       \* the folder `catalog`
    staging,    \* `catalog.new`
    retired,    \* `catalog.old`
    pc,         \* the next call of each process
    got,        \* the version it fetched
    at,         \* the venue it writes next
    old,        \* the catalog it found installed
    result,     \* how its last sync ended
    report,     \* what that sync reported
    was,        \* history: the catalog folder when its sync began to install
    swept,      \* history: no removal of its sync has left anything so far
    syncs

folders == <<dest, staging, retired>>
vars == <<folders, pc, got, at, old, result, report, was, swept, syncs>>

-----------------------------------------------------------------------------
(* The folder that holds version v and nothing else.                       *)
Whole(v) == [index |-> v, files |-> Catalog[v]]

IsWhole(d) == \E v \in Versions : d = Whole(v)

(* The index says v, and each file it lists is there and right; there may  *)
(* be files of venues it does not list.                                    *)
Complete(d, v) ==
    d.index = v /\ \A x \in Venues : Catalog[v][x] # None => d.files[x] = Catalog[v][x]

IsComplete(d) == \E v \in Versions : Complete(d, v)

(* `installed`: the catalog the index of a folder lists; one that is       *)
(* missing or does not parse lists none.                                   *)
Installed(d) == IF d.index \in Versions THEN Catalog[d.index] ELSE NoFiles

(* What changed from the catalog b to the catalog a.                       *)
Change(b, a) ==
    [added   |-> {x \in Venues : b[x] = None /\ a[x] # None},
     updated |-> {x \in Venues : b[x] # None /\ a[x] # None /\ a[x] # b[x]},
     removed |-> {x \in Venues : b[x] # None /\ a[x] = None}]

(* A rename of a folder onto d goes through: nothing is there, or an empty *)
(* folder.                                                                 *)
Vacant(d) == d \in {Absent, Empty}

(* What a removal that stops partway leaves: some of what was there, at    *)
(* least the folder.                                                       *)
Remains(d) ==
    IF d = Absent THEN {Absent}
    ELSE {[index |-> IF "index" \in kept THEN d.index ELSE None,
           files |-> [x \in Venues |-> IF x \in keptFiles THEN d.files[x] ELSE None]] :
              kept \in SUBSET {"index"}, keptFiles \in SUBSET Venues}

(* `let _ = remove_dir_all(d)`: whether it removed d is not asked.         *)
Removed(d) == {Absent} \union (IF DiskFails THEN Remains(d) ELSE {})

Goto(p, where) == pc' = [pc EXCEPT ![p] = where]

End(p, how) == Goto(p, "idle") /\ result' = [result EXCEPT ![p] = how]

-----------------------------------------------------------------------------
Init ==
    /\ dest \in {Absent} \union {Whole(v) : v \in Versions}
    /\ staging = Absent /\ retired = Absent
    /\ pc = [p \in Procs |-> "idle"]
    /\ got \in [Procs -> Versions] /\ at = [p \in Procs |-> 1]
    /\ old = [p \in Procs |-> NoFiles]
    /\ result = [p \in Procs |-> "none"]
    /\ report = [p \in Procs |-> Change(NoFiles, NoFiles)]
    /\ was = [p \in Procs |-> dest]
    /\ swept = [p \in Procs |-> TRUE]
    /\ syncs = 0

(* The index and every file are fetched and checked: the files are those   *)
(* of one version, or the sync ends in an error, having touched nothing.   *)
Fetch(p) ==
    /\ pc[p] = "idle" /\ syncs < MaxSyncs
    /\ syncs' = syncs + 1
    /\ swept' = [swept EXCEPT ![p] = TRUE]
    /\ \/ \E v \in Versions :
            /\ got' = [got EXCEPT ![p] = v]
            /\ Goto(p, "read") /\ result' = [result EXCEPT ![p] = "none"]
       \/ End(p, "error") /\ UNCHANGED got
    /\ UNCHANGED <<folders, at, old, report, was>>

(* `installed(dest)`, for the report.                                      *)
Read(p) ==
    /\ pc[p] = "read"
    /\ old' = [old EXCEPT ![p] = Installed(dest)]
    /\ was' = [was EXCEPT ![p] = dest]
    /\ Goto(p, "clear")
    /\ UNCHANGED <<folders, got, at, result, report, swept, syncs>>

(* Variant: what a sync that died left in `catalog.new` is kept.           *)
ClearKeeps(p) ==
    /\ pc[p] = "clear"
    /\ Goto(p, "make")
    /\ UNCHANGED <<folders, got, at, old, result, report, was, swept, syncs>>

(* Variant: both folders an earlier sync may have left are removed first.  *)
ClearBoth(p) ==
    /\ pc[p] = "clear"
    /\ staging' = Absent /\ retired' = Absent
    /\ Goto(p, "make")
    /\ UNCHANGED <<dest, got, at, old, result, report, was, swept, syncs>>

(* The folder of the catalogs is made, or the sync ends; `catalog.new` is  *)
(* removed, and the sync goes on whether or not it is gone.                *)
ClearStaging(p) ==
    /\ pc[p] = "clear"
    /\ \/ /\ staging' \in Removed(staging)
          /\ swept' = [swept EXCEPT ![p] = staging' = Absent]
          /\ Goto(p, "make") /\ UNCHANGED result
       \/ DiskFails /\ End(p, "error") /\ UNCHANGED <<staging, swept>>
    /\ UNCHANGED <<dest, retired, got, at, old, report, was, syncs>>

MakeStaging(p) ==
    /\ pc[p] = "make"
    /\ \/ /\ staging' = IF staging = Absent THEN Empty ELSE staging
          /\ at' = [at EXCEPT ![p] = 1]
          /\ Goto(p, "write") /\ UNCHANGED result
       \/ DiskFails /\ End(p, "error") /\ UNCHANGED <<staging, at>>
    /\ UNCHANGED <<dest, retired, got, old, report, was, swept, syncs>>

(* The file of one venue; a venue the version does not list has none.      *)
WriteFile(p) ==
    /\ pc[p] = "write" /\ at[p] \in Venues
    /\ LET x == at[p]
           sum == Catalog[got[p]][x]
       IN  /\ sum # None => staging # Absent
           /\ staging' = IF sum = None THEN staging ELSE [staging EXCEPT !.files[x] = sum]
    /\ at' = [at EXCEPT ![p] = @ + 1]
    /\ UNCHANGED <<dest, retired, pc, got, old, result, report, was, swept, syncs>>

WriteIndex(p) ==
    /\ pc[p] = "write" /\ at[p] \notin Venues /\ staging # Absent
    /\ staging' = [staging EXCEPT !.index = got[p]]
    /\ Goto(p, "retire")
    /\ UNCHANGED <<dest, retired, got, at, old, result, report, was, swept, syncs>>

(* What a write that stops partway leaves of the file: nothing new, or a   *)
(* part of it.                                                             *)
WriteTorn(p) ==
    \/ UNCHANGED staging
    \/ /\ staging # Absent /\ at[p] \in Venues /\ Catalog[got[p]][at[p]] # None
       /\ staging' = [staging EXCEPT !.files[at[p]] = Torn]
    \/ /\ staging # Absent /\ at[p] \notin Venues
       /\ staging' = [staging EXCEPT !.index = Torn]

(* A write fails: the folder is gone, or the disk is full.                 *)
WriteFails(p) ==
    /\ pc[p] = "write" /\ (DiskFails \/ staging = Absent)
    /\ WriteTorn(p)
    /\ End(p, "error")
    /\ UNCHANGED <<dest, retired, got, at, old, report, was, swept, syncs>>

(* Variant: `catalog.old` is not removed first.                            *)
RetireKeeps(p) ==
    /\ pc[p] = "retire"
    /\ Goto(p, "out")
    /\ UNCHANGED <<folders, got, at, old, result, report, was, swept, syncs>>

ClearRetired(p) ==
    /\ pc[p] = "retire"
    /\ retired' \in Removed(retired)
    /\ swept' = [swept EXCEPT ![p] = @ /\ retired' = Absent]
    /\ Goto(p, "out")
    /\ UNCHANGED <<dest, staging, got, at, old, result, report, was, syncs>>

(* The installed catalog is put aside, when there is one.                  *)
MoveOut(p) ==
    /\ pc[p] = "out"
    /\ \/ dest = Absent /\ Goto(p, "in") /\ UNCHANGED <<folders, result>>
       \/ /\ dest # Absent /\ Vacant(retired)
          /\ retired' = dest /\ dest' = Absent
          /\ Goto(p, "in") /\ UNCHANGED <<staging, result>>
       \/ /\ dest # Absent /\ (DiskFails \/ ~Vacant(retired))
          /\ End(p, "error") /\ UNCHANGED folders
    /\ UNCHANGED <<got, at, old, report, was, swept, syncs>>

MoveIn(p) ==
    /\ pc[p] = "in"
    /\ \/ /\ staging # Absent /\ Vacant(dest)
          /\ dest' = staging /\ staging' = Absent
          /\ Goto(p, "drop")
       \/ /\ DiskFails \/ staging = Absent \/ ~Vacant(dest)
          /\ Goto(p, "back") /\ UNCHANGED <<dest, staging>>
    /\ UNCHANGED <<retired, got, at, old, result, report, was, swept, syncs>>

(* Variant: the error is returned at once.                                 *)
PutBackSkipped(p) ==
    /\ pc[p] = "back"
    /\ End(p, "error")
    /\ UNCHANGED <<folders, got, at, old, report, was, swept, syncs>>

(* The new catalog cannot be moved in: what is in `catalog.old` is put     *)
(* back.  Whether that worked is not asked: the error is the same; "lost"  *)
(* is the one of a sync that leaves the old catalog aside.                 *)
PutBack(p) ==
    /\ pc[p] = "back"
    /\ \/ /\ retired # Absent /\ Vacant(dest)
          /\ dest' = retired /\ retired' = Absent
          /\ End(p, "error")
       \/ (retired = Absent \/ ~Vacant(dest)) /\ End(p, "error") /\ UNCHANGED <<dest, retired>>
       \/ DiskFails /\ retired # Absent /\ End(p, "lost") /\ UNCHANGED <<dest, retired>>
    /\ UNCHANGED <<staging, got, at, old, report, was, swept, syncs>>

(* Variant: the report compares with what is installed by now.             *)
ReportLate(p) ==
    /\ pc[p] = "drop"
    /\ retired' = Absent
    /\ report' = [report EXCEPT ![p] = Change(Installed(dest), Catalog[got[p]])]
    /\ End(p, "ok")
    /\ UNCHANGED <<dest, staging, got, at, old, was, swept, syncs>>

(* The old catalog is removed, and the sync reports what it changed.       *)
Report(p) ==
    /\ pc[p] = "drop"
    /\ retired' \in Removed(retired)
    /\ report' = [report EXCEPT ![p] = Change(old[p], Catalog[got[p]])]
    /\ End(p, "ok")
    /\ UNCHANGED <<dest, staging, got, at, old, was, swept, syncs>>

(* The process dies, perhaps in a write or a removal.                      *)
Crash(p) ==
    /\ pc[p] # "idle"
    /\ CASE pc[p] = "write" -> WriteTorn(p)
         [] pc[p] = "clear" -> staging' \in {staging} \union Remains(staging)
         [] OTHER           -> UNCHANGED staging
    /\ IF pc[p] \in {"retire", "drop"} THEN retired' \in {retired} \union Remains(retired)
                                      ELSE UNCHANGED retired
    /\ End(p, "died")
    /\ UNCHANGED <<dest, got, at, old, report, was, swept, syncs>>

Step(p) ==
    \/ Fetch(p) \/ Read(p) \/ ClearStaging(p) \/ MakeStaging(p) \/ WriteFile(p) \/ WriteIndex(p)
    \/ WriteFails(p) \/ ClearRetired(p) \/ MoveOut(p) \/ MoveIn(p) \/ PutBack(p) \/ Report(p)
    \/ Crash(p)

Next == \E p \in Procs : Step(p)

Spec == Init /\ [][Next]_vars

-----------------------------------------------------------------------------
(* Every variable has a value the code can give it.                        *)
TypeOK ==
    /\ {dest, staging, retired} \subseteq Folders \union {Absent}
    /\ pc \in [Procs -> {"idle", "read", "clear", "make", "write", "retire", "out", "in",
                         "back", "drop"}]
    /\ got \in [Procs -> Versions] /\ at \in [Procs -> 1..(N + 1)]
    /\ old \in [Procs -> Contents]
    /\ result \in [Procs -> {"none", "ok", "error", "lost", "died"}]
    /\ report \in [Procs -> [{"added", "updated", "removed"} -> SUBSET Venues]]
    /\ was \in [Procs -> Folders \union {Absent}] /\ swept \in [Procs -> BOOLEAN]
    /\ syncs \in 0..MaxSyncs

(* What a step makes the installed catalog: all of the version fetched,    *)
(* with no other file when the removals have worked; or what the sync      *)
(* found, put back.  Where it found none and could not remove an old       *)
(* `catalog.old`, it may put back what is left of that.                    *)
InstallsWhole(p) ==
    IF pc[p] = "in" THEN Complete(dest', got[p]) /\ (swept[p] => dest' = Whole(got[p]))
    ELSE dest' = was[p] \/ (was[p] = Absent /\ ~swept[p])

InstallsOnlyWhole ==
    dest' \notin {dest, Absent} => \E p \in Procs : pc[p] # "idle" /\ InstallsWhole(p)

(* The catalog folder becomes a whole version, or what it was before the   *)
(* sync: never a part of one, a file of a sync that failed or died, or,    *)
(* unless a removal of this very sync failed, a mix of two.                *)
InstalledWhole == [][InstallsOnlyWhole]_vars

(* A catalog put aside by a sync that died before it moved the new one in  *)
(* is kept until a whole new one is staged, or back in its place.          *)
OldKeptUntilNewWhole ==
    [][dest = Absent /\ IsComplete(retired) /\ retired' # retired =>
           IsComplete(staging') \/ dest' = retired]_vars

(* Nothing that a sync that failed or died left behind stops the next one, *)
(* unless the next cannot remove it either: each move finds its source     *)
(* complete and its target free.                                           *)
NeverBlocked ==
    \A p \in Procs :
        /\ pc[p] = "out" /\ swept[p] => Vacant(retired)
        /\ pc[p] = "in" => Complete(staging, got[p]) /\ Vacant(dest)

(* What a sync that ends well has done.                                    *)
EndsTrue ==
    \A p \in Procs : pc[p] # "idle" /\ result'[p] = "ok" =>
        /\ Complete(dest', got[p])
        /\ report'[p] = Change(Installed(was[p]), Installed(dest'))

(* A sync that ends well has installed the version it fetched, and reports *)
(* how that differs from the catalog it found, whatever removal failed.    *)
ReportTrue == [][EndsTrue]_vars

(* One process at a time implements CatalogSwap.  From the moment the old  *)
(* catalog is put aside until the new one is in its place, or the old one  *)
(* back, the installed catalog is the one put aside; a sync that dies then *)
(* has lost it, and so has one that cannot put it back.  So a sync         *)
(* installs the version it fetched or, in an error, leaves what it found,  *)
(* and what an earlier one left behind changes neither.                    *)
VersionOf(d) == IF d = Absent THEN None ELSE d.index

TheProc == CHOOSE p \in Procs : TRUE

InstalledVersion == VersionOf(IF pc[TheProc] \in {"in", "back"} THEN was[TheProc] ELSE dest)

PhaseOf ==
    CASE pc[TheProc] = "idle" -> "idle"
      [] pc[TheProc] = "drop" -> "installed"
      [] OTHER                -> "syncing"

Swap == INSTANCE CatalogSwap WITH
    NoCatalog <- None, catalog <- InstalledVersion, phase <- PhaseOf,
    want <- got[TheProc], outcome <- result[TheProc]

ImplementsSwap == Swap!Spec

(* A sync that found a catalog and ends in an error leaves one, no other   *)
(* being at work (the words of `sync`: "On any error the old catalog stays *)
(* as it was").  (False of two syncs at once: see the README.)             *)
ErrorLosesNothing ==
    [][\A p \in Procs :
           /\ pc[p] # "idle" /\ result'[p] \in {"error", "lost"} /\ was[p] # Absent
           /\ \A q \in Procs \ {p} : pc[q] = "idle" /\ result[q] # "died"
           => dest' # Absent]_vars
=============================================================================
