------------------------- MODULE CatalogSyncProofs -------------------------
(***************************************************************************)
(* Proofs about CatalogSync, for every number of venues and every set of   *)
(* versions and checksums: with one process at a time, the catalog folder  *)
(* only becomes a whole version or what it was, what an earlier sync left  *)
(* behind stops the next only if that cannot remove it, and the sync       *)
(* implements CatalogSwap.  Every call, the removals too, may fail.        *)
(*                                                                         *)
(* InstalledWhole follows from an invariant of the calls between: how much *)
(* of `catalog.new` each finds written (Staged), and what the catalog      *)
(* folder and `catalog.old` hold (Aside).                                  *)
(***************************************************************************)
EXTENDS CatalogSync, TLAPS

(* `catalog.new` holds what the calls so far have written and, if it could *)
(* be removed first, no more.                                              *)
Staged(p) ==
    /\ pc[p] = "make" /\ swept[p] => staging = Absent
    /\ pc[p] = "write" =>
          /\ staging # Absent
          /\ \A x \in Venues : x < at[p] /\ Catalog[got[p]][x] # None =>
                 staging.files[x] = Catalog[got[p]][x]
          /\ swept[p] =>
                /\ staging.index = None
                /\ \A x \in Venues :
                       staging.files[x] = IF x < at[p] THEN Catalog[got[p]][x] ELSE None
    /\ pc[p] \in {"retire", "out", "in", "back"} =>
          Complete(staging, got[p]) /\ (swept[p] => staging = Whole(got[p]))

(* The catalog folder is the one found until it is put aside, and the one  *)
(* put aside is the one found.  No index there was written in part.        *)
Aside(p) ==
    /\ dest.index # Torn /\ retired.index # Torn
    /\ pc[p] \in {"clear", "make", "write", "retire", "out"} => dest = was[p]
    /\ pc[p] = "out" /\ swept[p] => retired = Absent
    /\ pc[p] \in {"in", "back"} =>
          /\ dest = Absent
          /\ IF was[p] = Absent THEN swept[p] => retired = Absent ELSE retired = was[p]
    /\ pc[p] = "drop" => Complete(dest, got[p])

(* The report compares with the catalog that the sync found.               *)
Compares(p) ==
    /\ pc[p] \notin {"idle", "read"} => old[p] = Installed(was[p])
    /\ pc[p] # "idle" => result[p] = "none"

SyncInv(p) == TypeOK /\ Staged(p) /\ Aside(p) /\ Compares(p)

-----------------------------------------------------------------------------
(* A whole folder is a folder, and not a missing or an empty one by name.  *)
LEMMA WholeFacts ==
    ASSUME NEW v \in Versions
    PROVE  /\ Catalog[v] \in [Venues -> Sums \union {None}]
           /\ Whole(v) \in Folders /\ Whole(v).index = v /\ Whole(v).files = Catalog[v]
           /\ Whole(v) # Absent /\ v # None /\ v # "absent"
<1>1. Catalog[v] \in [Venues -> Sums \union {None}] /\ v \notin {None, Torn, "absent"}
  BY CatalogAssumption, NamesAssumption DEF Contents
<1>2. Catalog[v] \in [Venues -> Sums \union {None, Torn}]
  BY <1>1
<1> QED
  BY <1>1, <1>2 DEF Whole, Folders, Absent

(* A folder is never the missing one.                                      *)
LEMMA FolderFacts ==
    /\ Empty \in Folders /\ Empty # Absent
    /\ \A d \in Folders : d # Absent
<1>1. "absent" \notin Versions \union {None, Torn}
  BY NamesAssumption DEF None, Torn
<1> QED
  BY <1>1 DEF Empty, Folders, Absent, NoFiles, None, Torn

(* What a removal leaves is a folder, or none.                             *)
LEMMA RemainsType ==
    ASSUME NEW d \in Folders \union {Absent}
    PROVE  /\ Remains(d) \subseteq Folders \union {Absent}
           /\ Removed(d) \subseteq Folders \union {Absent}
<1>1. Remains(d) \subseteq Folders \union {Absent}
  <2>1. CASE d = Absent
    BY <2>1 DEF Remains
  <2>2. CASE d # Absent
    <3> SUFFICES ASSUME NEW kept \in SUBSET {"index"}, NEW keptFiles \in SUBSET Venues
                 PROVE  [index |-> IF "index" \in kept THEN d.index ELSE None,
                         files |-> [x \in Venues |-> IF x \in keptFiles THEN d.files[x] ELSE None]]
                            \in Folders
      BY <2>2 DEF Remains
    <3> QED
      BY <2>2 DEF Folders
  <2> QED
    BY <2>1, <2>2
<1> QED
  BY <1>1 DEF Removed

(* A removal tears no index.                                               *)
LEMMA RemainsIndex ==
    ASSUME NEW d, NEW e \in Remains(d) \union Removed(d), d.index # Torn
    PROVE  e.index # Torn
  BY DEF Remains, Removed, Absent, Torn, None

(* A folder that holds all of a version and nothing else holds all of it.  *)
LEMMA WholeComplete == ASSUME NEW v \in Versions PROVE Complete(Whole(v), v)
  BY WholeFacts DEF Complete, Whole

(* A complete folder is there, and its index lists its version.            *)
LEMMA CompleteFacts ==
    ASSUME NEW v \in Versions, NEW d, Complete(d, v)
    PROVE  d # Absent /\ d.index = v /\ Installed(d) = Catalog[v]
  BY WholeFacts DEF Complete, Absent, Installed

(* What the index of a folder lists is a catalog.                          *)
LEMMA InstalledType ==
    ASSUME NEW d \in Folders \union {Absent}
    PROVE  Installed(d) \in Contents
<1>1. NoFiles \in Contents
  BY DEF NoFiles, Contents
<1> QED
  BY <1>1, CatalogAssumption DEF Installed

(* A change names venues.                                                  *)
LEMMA ChangeType ==
    ASSUME NEW b, NEW a
    PROVE  Change(b, a) \in [{"added", "updated", "removed"} -> SUBSET Venues]
  BY DEF Change

-----------------------------------------------------------------------------
(* The initial states have their types.                                    *)
LEMMA TypeInit == Init => TypeOK
<1> SUFFICES ASSUME Init PROVE TypeOK
  OBVIOUS
<1>1. dest \in Folders \union {Absent}
  BY WholeFacts DEF Init
<1>2. NoFiles \in Contents /\ 1 \in 1..(N + 1) /\ 0 \in 0..MaxSyncs
  BY SizeAssumption DEF NoFiles, Contents
<1>3. Change(NoFiles, NoFiles) \in [{"added", "updated", "removed"} -> SUBSET Venues]
  BY ChangeType
<1>4. /\ {dest, staging, retired} \subseteq Folders \union {Absent}
      /\ was \in [Procs -> Folders \union {Absent}] /\ swept \in [Procs -> BOOLEAN]
  BY <1>1 DEF Init
<1>5. /\ pc \in [Procs -> {"idle", "read", "clear", "make", "write", "retire", "out", "in",
                           "back", "drop"}]
      /\ got \in [Procs -> Versions] /\ at \in [Procs -> 1..(N + 1)]
      /\ old \in [Procs -> Contents]
      /\ result \in [Procs -> {"none", "ok", "error", "lost", "died"}]
      /\ syncs \in 0..MaxSyncs
  BY <1>2 DEF Init
<1>6. report \in [Procs -> [{"added", "updated", "removed"} -> SUBSET Venues]]
  BY <1>3 DEF Init
<1> QED
  BY <1>4, <1>5, <1>6 DEF TypeOK

(* Every step keeps them.                                                  *)
LEMMA TypeStep == TypeOK /\ [Next]_vars => TypeOK'
<1> SUFFICES ASSUME TypeOK, [Next]_vars PROVE TypeOK'
  OBVIOUS
<1> USE SizeAssumption DEF TypeOK
<1>1. ASSUME NEW p \in Procs, Fetch(p) PROVE TypeOK'
  <2>1. /\ got' \in [Procs -> Versions] /\ syncs' \in 0..MaxSyncs
        /\ pc' \in [Procs -> {"idle", "read", "clear", "make", "write", "retire", "out", "in",
                              "back", "drop"}]
        /\ result' \in [Procs -> {"none", "ok", "error", "lost", "died"}]
    <3>1. got' \in [Procs -> Versions] /\ syncs' \in 0..MaxSyncs
      BY <1>1 DEF Fetch
    <3>2. pc' = [pc EXCEPT ![p] = "read"] \/ pc' = [pc EXCEPT ![p] = "idle"]
      BY <1>1 DEF Fetch, Goto, End
    <3>3. result' = [result EXCEPT ![p] = "none"] \/ result' = [result EXCEPT ![p] = "error"]
      BY <1>1 DEF Fetch, End
    <3> QED
      BY <3>1, <3>2, <3>3
  <2>2. /\ UNCHANGED <<dest, staging, retired, at, old, report, was>>
        /\ swept' = [swept EXCEPT ![p] = TRUE]
    BY <1>1 DEF Fetch, folders
  <2> QED
    BY <2>1, <2>2
<1>2. ASSUME NEW p \in Procs, Read(p) PROVE TypeOK'
  BY <1>2, InstalledType DEF Read, folders, Goto
<1>3. ASSUME NEW p \in Procs, ClearStaging(p) PROVE TypeOK'
  <2>1. staging' \in Folders \union {Absent} /\ swept' \in [Procs -> BOOLEAN]
    BY <1>3, RemainsType DEF ClearStaging
  <2>2. /\ pc' = [pc EXCEPT ![p] = "make"] \/ pc' = [pc EXCEPT ![p] = "idle"]
        /\ result' = result \/ result' = [result EXCEPT ![p] = "error"]
        /\ UNCHANGED <<dest, retired, got, at, old, report, was, syncs>>
    BY <1>3 DEF ClearStaging, Goto, End
  <2> QED
    BY <2>1, <2>2
<1>4. ASSUME NEW p \in Procs, MakeStaging(p) PROVE TypeOK'
  <2>1. staging' \in Folders \union {Absent} /\ at' \in [Procs -> 1..(N + 1)]
    BY <1>4, FolderFacts DEF MakeStaging
  <2>2. /\ pc' = [pc EXCEPT ![p] = "write"] \/ pc' = [pc EXCEPT ![p] = "idle"]
        /\ result' = result \/ result' = [result EXCEPT ![p] = "error"]
        /\ UNCHANGED <<dest, retired, got, old, report, was, swept, syncs>>
    BY <1>4 DEF MakeStaging, Goto, End
  <2> QED
    BY <2>1, <2>2
<1>5. ASSUME NEW p \in Procs, WriteFile(p) PROVE TypeOK'
  <2>1. Catalog[got[p]][at[p]] \in Sums \union {None}
    BY <1>5, WholeFacts DEF WriteFile
  <2>2. staging' \in Folders \union {Absent}
    BY <1>5, <2>1 DEF WriteFile, Folders
  <2>3. at' \in [Procs -> 1..(N + 1)]
    BY <1>5 DEF WriteFile, Venues
  <2> QED
    BY <1>5, <2>2, <2>3, Zenon DEF WriteFile
<1>6. ASSUME NEW p \in Procs, WriteIndex(p) PROVE TypeOK'
  <2>1. staging' \in Folders
    BY <1>6 DEF WriteIndex, Folders
  <2> QED
    BY <1>6, <2>1 DEF WriteIndex, Goto
<1>7. ASSUME NEW p \in Procs, WriteTorn(p) PROVE staging' \in Folders \union {Absent}
  <2>1. CASE staging = Absent
    BY <1>7, <2>1 DEF WriteTorn
  <2>2. CASE staging \in Folders
    <3> HIDE DEF TypeOK
    <3> QED
      BY <1>7, <2>2 DEF WriteTorn, Folders
  <2> QED
    BY <2>1, <2>2
<1>8. ASSUME NEW p \in Procs, WriteFails(p) PROVE TypeOK'
  BY <1>8, <1>7 DEF WriteFails, End, Goto
<1>9. ASSUME NEW p \in Procs, ClearRetired(p) PROVE TypeOK'
  <2>1. retired' \in Folders \union {Absent} /\ swept' \in [Procs -> BOOLEAN]
    BY <1>9, RemainsType DEF ClearRetired
  <2> QED
    BY <1>9, <2>1 DEF ClearRetired, Goto
<1>10. ASSUME NEW p \in Procs, MoveOut(p) PROVE TypeOK'
  BY <1>10 DEF MoveOut, folders, Goto, End
<1>11. ASSUME NEW p \in Procs, MoveIn(p) PROVE TypeOK'
  BY <1>11 DEF MoveIn, Goto
<1>12. ASSUME NEW p \in Procs, PutBack(p) PROVE TypeOK'
  <2>1. /\ pc' = [pc EXCEPT ![p] = "idle"]
        /\ result' = [result EXCEPT ![p] = "error"] \/ result' = [result EXCEPT ![p] = "lost"]
        /\ {dest', retired'} \subseteq {dest, retired, Absent}
        /\ UNCHANGED <<staging, got, at, old, report, was, swept, syncs>>
    BY <1>12 DEF PutBack, End, Goto
  <2> QED
    BY <2>1
<1>13. ASSUME NEW p \in Procs, Report(p) PROVE TypeOK'
  <2>1. retired' \in Folders \union {Absent}
    BY <1>13, RemainsType DEF Report
  <2> QED
    BY <1>13, <2>1, ChangeType DEF Report, End, Goto
<1>14. ASSUME NEW p \in Procs, Crash(p) PROVE TypeOK'
  <2>1. staging' \in Folders \union {Absent} /\ retired' \in Folders \union {Absent}
    BY <1>14, <1>7, RemainsType DEF Crash
  <2>2. /\ pc' = [pc EXCEPT ![p] = "idle"] /\ result' = [result EXCEPT ![p] = "died"]
        /\ UNCHANGED <<dest, got, at, old, report, was, swept, syncs>>
    BY <1>14 DEF Crash, End, Goto
  <2> QED
    BY <2>1, <2>2
<1>15. CASE UNCHANGED vars
  BY <1>15 DEF vars, folders
<1> QED
  BY <1>1, <1>2, <1>3, <1>4, <1>5, <1>6, <1>8, <1>9, <1>10, <1>11, <1>12, <1>13, <1>14, <1>15
  DEF Next, Step

(* Every variable keeps its type, whatever number of processes there is.   *)
THEOREM TypeCorrect == Spec => []TypeOK
  BY TypeInit, TypeStep, PTL DEF Spec

-----------------------------------------------------------------------------
(* A sync that works alone: what holds of its folders between its calls.   *)
LEMMA SyncInit ==
    ASSUME NEW p \in Procs, Init
    PROVE  SyncInv(p)
<1>1. dest.index # Torn /\ retired.index # Torn
  BY WholeFacts, NamesAssumption DEF Init, Absent, Torn
<1> QED
  BY <1>1, TypeInit DEF Init, SyncInv, Staged, Aside, Compares

LEMMA SyncStep ==
    ASSUME NEW p, Procs = {p}, SyncInv(p), [Next]_vars
    PROVE  SyncInv(p)'
<1> p \in Procs
  OBVIOUS
<1>1. TypeOK /\ TypeOK'
  BY TypeStep DEF SyncInv
<1>2. /\ dest \in Folders \union {Absent} /\ staging \in Folders \union {Absent}
      /\ retired \in Folders \union {Absent}
      /\ got[p] \in Versions /\ at[p] \in 1..(N + 1) /\ N \in Nat
      /\ DOMAIN pc = {p} /\ DOMAIN got = {p} /\ DOMAIN at = {p} /\ DOMAIN old = {p}
      /\ DOMAIN result = {p} /\ DOMAIN was = {p} /\ DOMAIN swept = {p}
      /\ swept[p] \in BOOLEAN
  BY <1>1, SizeAssumption DEF TypeOK
<1> HIDE DEF TypeOK
<1> USE DEF Staged, Aside, Compares, SyncInv
<1>3. CASE Fetch(p)
  BY <1>1, <1>2, <1>3 DEF Fetch, folders, Goto, End
<1>4. CASE Read(p)
  BY <1>1, <1>2, <1>4 DEF Read, folders, Goto
<1>5. CASE ClearStaging(p)
  <2>1. /\ UNCHANGED <<dest, retired, got, at, old, was>>
        /\ pc[p] = "clear"
        /\ \/ pc'[p] = "make" /\ result' = result /\ swept'[p] = (staging' = Absent)
           \/ pc'[p] = "idle"
    BY <1>2, <1>5 DEF ClearStaging, Goto, End
  <2> QED
    BY <1>1, <2>1
<1>6. CASE MakeStaging(p)
  BY <1>1, <1>2, <1>6, FolderFacts DEF MakeStaging, Goto, End, Empty, NoFiles, Venues
<1>7. CASE WriteFile(p)
  <2>1. /\ pc[p] = "write" /\ at[p] \in 1..N /\ staging \in Folders
        /\ at' = [at EXCEPT ![p] = @ + 1]
        /\ UNCHANGED <<dest, retired, pc, got, old, result, was, swept>>
    BY <1>2, <1>7 DEF WriteFile, Venues
  <2>2. staging.files \in [Venues -> Sums \union {None, Torn}]
    BY <2>1 DEF Folders
  <2>3. /\ staging' \in Folders /\ staging'.index = staging.index
        /\ staging'.files = IF Catalog[got[p]][at[p]] = None THEN staging.files
                            ELSE [staging.files EXCEPT ![at[p]] = Catalog[got[p]][at[p]]]
    <3>1. CASE Catalog[got[p]][at[p]] = None
      <4>1. staging' = staging
        BY <3>1, <1>7 DEF WriteFile
      <4> QED
        BY <4>1, <3>1, <2>1
    <3>2. CASE Catalog[got[p]][at[p]] # None
      <4>1. Catalog[got[p]][at[p]] \in Sums \union {None, Torn}
        BY <1>2, <2>1, WholeFacts DEF Venues
      <4>2. staging' = [staging EXCEPT !.files[at[p]] = Catalog[got[p]][at[p]]]
        BY <3>2, <1>7 DEF WriteFile
      <4> QED
        BY <4>1, <4>2, <3>2, <2>1, <2>2 DEF Folders
    <3> QED
      BY <3>1, <3>2
  <2>4. \A x \in Venues : x < at'[p] /\ Catalog[got[p]][x] # None =>
            staging'.files[x] = Catalog[got[p]][x]
    BY <1>2, <2>1, <2>2, <2>3 DEF Venues
  <2>5. ASSUME swept[p], NEW x \in Venues
        PROVE  staging'.files[x] = IF x < at'[p] THEN Catalog[got[p]][x] ELSE None
    BY <1>2, <2>1, <2>2, <2>3, <2>5 DEF Venues
  <2>6. swept[p] => staging'.index = None
    BY <2>1, <2>3
  <2>7. staging' # Absent
    BY <2>3, FolderFacts
  <2> QED
    BY <1>1, <2>1, <2>4, <2>5, <2>6, <2>7
<1>8. CASE WriteIndex(p)
  <2>1. /\ pc[p] = "write" /\ staging \in Folders /\ \A x \in Venues : x < at[p]
        /\ staging' = [index |-> got[p], files |-> staging.files]
        /\ pc' = [pc EXCEPT ![p] = "retire"]
        /\ UNCHANGED <<dest, retired, got, at, old, result, was, swept>>
    BY <1>2, <1>8 DEF WriteIndex, Goto, Venues, Folders
  <2>2. Complete(staging', got[p])
    BY <2>1 DEF Complete
  <2>3. ASSUME swept[p] PROVE staging' = Whole(got[p])
    <3>1. staging.files = Catalog[got[p]]
      BY <1>2, <2>1, <2>3, WholeFacts DEF Folders
    <3> QED
      BY <2>1, <3>1 DEF Whole
  <2> QED
    BY <1>1, <1>2, <2>1, <2>2, <2>3
<1>9. CASE WriteFails(p)
  BY <1>1, <1>2, <1>9 DEF WriteFails, End, Goto
<1>10. CASE ClearRetired(p)
  <2>1. /\ UNCHANGED <<dest, staging, got, at, old, was, result>>
        /\ pc[p] = "retire" /\ pc'[p] = "out"
        /\ swept'[p] = (swept[p] /\ retired' = Absent)
        /\ retired' \in Removed(retired)
    BY <1>2, <1>10 DEF ClearRetired, Goto
  <2>2. retired'.index # Torn
    BY <2>1, RemainsIndex
  <2> QED
    BY <1>1, <2>1, <2>2
<1>11. CASE MoveOut(p)
  <2>1. Absent.index # Torn
    BY DEF Absent, Torn
  <2> QED
    BY <1>1, <1>2, <1>11, <2>1 DEF MoveOut, Goto, End, folders
<1>12. CASE MoveIn(p)
  <2>1. staging.index # Torn
    BY <1>2, <1>12, NamesAssumption DEF MoveIn, Complete
  <2> QED
    BY <1>1, <1>2, <1>12, <2>1 DEF MoveIn, Goto
<1>13. CASE PutBack(p)
  BY <1>1, <1>2, <1>13 DEF PutBack, End, Goto
<1>14. CASE Report(p)
  <2>1. /\ retired'.index # Torn /\ dest' = dest /\ pc'[p] = "idle"
    BY <1>2, <1>14, RemainsIndex DEF Report, End, Goto
  <2> QED
    BY <1>1, <2>1
<1>15. CASE Crash(p)
  <2>1. /\ retired'.index # Torn /\ dest' = dest /\ pc'[p] = "idle"
    BY <1>2, <1>15, RemainsIndex DEF Crash, End, Goto
  <2> QED
    BY <1>1, <2>1
<1>16. CASE UNCHANGED vars
  BY <1>1, <1>16 DEF vars, folders
<1> QED
  BY <1>3, <1>4, <1>5, <1>6, <1>7, <1>8, <1>9, <1>10, <1>11, <1>12, <1>13, <1>14, <1>15, <1>16
  DEF Next, Step

(* What a sync that works alone keeps, from its first state on.            *)
LEMMA SyncInvariant ==
    ASSUME NEW p, Procs = {p}
    PROVE  Spec => []SyncInv(p)
<1>1. Init => SyncInv(p)
  BY SyncInit
<1>2. SyncInv(p) /\ [Next]_vars => SyncInv(p)'
  BY SyncStep
<1> QED
  BY <1>1, <1>2, PTL DEF Spec

(* The catalog folder becomes a whole version or what it was, unless a     *)
(* removal of the sync itself failed: then still all of a version, or what *)
(* it was, or where there was none, what is left of an older one.          *)
THEOREM InstalledIsWhole ==
    ASSUME NEW p, Procs = {p}
    PROVE  Spec => InstalledWhole
<1>1. SyncInv(p) /\ [Next]_vars => [InstallsOnlyWhole]_vars
  <2> SUFFICES ASSUME SyncInv(p), Step(p), dest' \notin {dest, Absent}
               PROVE  pc[p] # "idle" /\ InstallsWhole(p)
    BY DEF Next, InstallsOnlyWhole
  <2>1. CASE MoveIn(p)
    BY <2>1 DEF MoveIn, SyncInv, Staged, InstallsWhole
  <2>2. CASE PutBack(p)
    BY <2>2 DEF PutBack, SyncInv, Aside, InstallsWhole
  <2>3. CASE MoveOut(p)
    BY <2>3 DEF MoveOut, folders
  <2> QED
    BY <2>1, <2>2, <2>3
    DEF Step, Fetch, Read, ClearStaging, MakeStaging, WriteFile, WriteIndex, WriteFails,
        ClearRetired, Report, Crash, folders
<1> QED
  BY <1>1, SyncInvariant, PTL DEF Spec, InstalledWhole

(* What an earlier sync left behind stops no move of one that has removed  *)
(* it, and a removal of `catalog.new` that fails stops none at all.        *)
THEOREM MovesGoThrough ==
    ASSUME NEW p, Procs = {p}
    PROVE  Spec => []NeverBlocked
<1>1. SyncInv(p) => NeverBlocked
  BY DEF SyncInv, Staged, Aside, NeverBlocked, Vacant
<1> QED
  BY <1>1, SyncInvariant, PTL

(* A catalog that a dead sync put aside is kept until a new one is staged. *)
THEOREM OldIsKept ==
    ASSUME NEW p, Procs = {p}
    PROVE  Spec => OldKeptUntilNewWhole
<1>1. SyncInv(p) /\ [Next]_vars =>
        [dest = Absent /\ IsComplete(retired) /\ retired' # retired =>
             IsComplete(staging') \/ dest' = retired]_vars
  <2> SUFFICES ASSUME SyncInv(p), Next, dest = Absent, retired' # retired
               PROVE  IsComplete(staging') \/ dest' = retired
    BY DEF vars, folders
  <2>1. got[p] \in Versions /\ Step(p) /\ p \in Procs
    BY DEF SyncInv, TypeOK, Next
  <2>2. CASE ClearRetired(p)
    BY <2>1, <2>2 DEF ClearRetired, SyncInv, Staged, IsComplete
  <2>3. CASE PutBack(p)
    BY <2>3 DEF PutBack
  <2>4. pc[p] # "drop"
    BY <2>1, CompleteFacts DEF SyncInv, Aside
  <2>5. CASE MoveOut(p)
    BY <2>5 DEF MoveOut, folders
  <2>6. CASE Crash(p)
    BY <2>1, <2>4, <2>6 DEF Crash, SyncInv, Staged, IsComplete
  <2>7. CASE Report(p)
    BY <2>4, <2>7 DEF Report
  <2> QED
    BY <2>1, <2>2, <2>3, <2>5, <2>6, <2>7
    DEF Step, Fetch, Read, ClearStaging, MakeStaging, WriteFile, WriteIndex, WriteFails,
        MoveIn, folders
<1> QED
  BY <1>1, SyncInvariant, PTL DEF Spec, OldKeptUntilNewWhole

(* A sync that ends well installed what it fetched, and says what changed. *)
THEOREM ReportIsTrue ==
    ASSUME NEW p, Procs = {p}
    PROVE  Spec => ReportTrue
<1>1. SyncInv(p) /\ [Next]_vars => [EndsTrue]_vars
  <2> SUFFICES ASSUME SyncInv(p), Step(p), pc[p] # "idle", result'[p] = "ok"
               PROVE  /\ Complete(dest', got[p])
                      /\ report'[p] = Change(Installed(was[p]), Installed(dest'))
    BY DEF Next, EndsTrue
  <2>1. /\ result[p] = "none" /\ got[p] \in Versions
        /\ p \in DOMAIN result /\ p \in DOMAIN report
    BY DEF SyncInv, TypeOK, Compares
  <2>2. Report(p)
    BY <2>1 DEF Step, Fetch, Read, ClearStaging, MakeStaging, WriteFile, WriteIndex, WriteFails,
        ClearRetired, MoveOut, MoveIn, PutBack, Crash, End
  <2>3. /\ pc[p] = "drop" /\ dest' = dest
        /\ report'[p] = Change(old[p], Catalog[got[p]])
    BY <2>1, <2>2 DEF Report
  <2>4. Complete(dest', got[p]) /\ old[p] = Installed(was[p])
    BY <2>3 DEF SyncInv, Aside, Compares
  <2>5. Installed(dest') = Catalog[got[p]]
    BY <2>1, <2>4, CompleteFacts
  <2> QED
    BY <2>3, <2>4, <2>5
<1> QED
  BY <1>1, SyncInvariant, PTL DEF Spec, ReportTrue

-----------------------------------------------------------------------------
(* The process of the mapping is the one there is.                         *)
LEMMA TheOnly == ASSUME NEW p, Procs = {p} PROVE TheProc = p
  BY DEF TheProc

(* A sync implements CatalogSwap: it replaces the catalog in one step, or  *)
(* not at all, and only its death loses one.                               *)
THEOREM SyncImplementsSwap ==
    ASSUME NEW p, Procs = {p}
    PROVE  Spec => ImplementsSwap
<1>1. Init => Swap!Init
  BY TheOnly, WholeFacts DEF Init, Swap!Init, InstalledVersion, VersionOf, PhaseOf
<1>2. SyncInv(p) /\ [Next]_vars => [Swap!Next]_(Swap!swapVars)
  <2> SUFFICES ASSUME SyncInv(p), [Next]_vars
               PROVE  [Swap!Next]_(Swap!swapVars)
    OBVIOUS
  <2>1. /\ TheProc = p /\ p \in Procs /\ got[p] \in Versions
        /\ p \in DOMAIN pc /\ p \in DOMAIN result /\ p \in DOMAIN got
    BY TheOnly DEF SyncInv, TypeOK
  <2> USE DEF InstalledVersion, PhaseOf, Swap!swapVars
  <2>2. CASE Fetch(p)
    BY <2>1, <2>2 DEF Fetch, folders, Goto, End, Swap!Next, Swap!Begin, Swap!CannotFetch, Swap!Ended
  <2>3. CASE Read(p)
    BY <2>1, <2>3 DEF Read, folders, Goto
  <2>4. CASE ClearStaging(p)
    BY <2>1, <2>4 DEF ClearStaging, Goto, End, Swap!Next, Swap!Fail, Swap!Ended
  <2>5. CASE MakeStaging(p)
    BY <2>1, <2>5 DEF MakeStaging, Goto, End, Swap!Next, Swap!Fail, Swap!Ended
  <2>6. CASE WriteFile(p)
    BY <2>1, <2>6 DEF WriteFile
  <2>7. CASE WriteIndex(p)
    BY <2>1, <2>7 DEF WriteIndex, Goto
  <2>8. CASE WriteFails(p)
    BY <2>1, <2>8 DEF WriteFails, Goto, End, Swap!Next, Swap!Fail, Swap!Ended
  <2>9. CASE ClearRetired(p)
    BY <2>1, <2>9 DEF ClearRetired, Goto
  <2>10. CASE MoveOut(p)
    BY <2>1, <2>10 DEF MoveOut, folders, Goto, End, SyncInv, Aside, Swap!Next, Swap!Fail,
        Swap!Ended
  <2>11. CASE MoveIn(p)
    BY <2>1, <2>11, CompleteFacts DEF MoveIn, Goto, SyncInv, Staged, Aside, VersionOf,
        Swap!Next, Swap!Install
  <2>12. CASE PutBack(p)
    <3>1. /\ pc[p] = "back" /\ pc'[p] = "idle" /\ dest = Absent
          /\ got' = got /\ was' = was
          /\ IF was[p] = Absent THEN TRUE ELSE retired = was[p]
      BY <2>1, <2>12 DEF PutBack, Goto, End, SyncInv, Aside
    <3>2. CASE dest' = retired /\ retired # Absent /\ result'[p] = "error"
      <4>1. VersionOf(dest') \in Versions \union {None}
        BY <3>2 DEF VersionOf, SyncInv, Aside, TypeOK, Folders
      <4> QED
        BY <2>1, <3>1, <3>2, <4>1 DEF VersionOf, Swap!Next, Swap!Fail, Swap!Ended
    <3>3. CASE dest' = dest /\ retired = Absent /\ result'[p] = "error"
      BY <2>1, <3>1, <3>3 DEF VersionOf, Swap!Next, Swap!Fail, Swap!Ended
    <3>4. CASE dest' = dest /\ result'[p] = "lost"
      BY <2>1, <3>1, <3>4 DEF VersionOf, Swap!Next, Swap!Lose, Swap!Ended
    <3> QED
      BY <2>1, <2>12, <3>1, <3>2, <3>3, <3>4 DEF PutBack, End, Vacant
  <2>13. CASE Report(p)
    BY <2>1, <2>13 DEF Report, Goto, End, Swap!Next, Swap!Finish, Swap!Ended
  <2>14. CASE Crash(p)
    BY <2>1, <2>14 DEF Crash, Goto, End, SyncInv, Aside, VersionOf, Swap!Next, Swap!Die,
        Swap!Ended
  <2>15. CASE UNCHANGED vars
    BY <2>15 DEF vars, folders
  <2> QED
    BY <2>1, <2>2, <2>3, <2>4, <2>5, <2>6, <2>7, <2>8, <2>9, <2>10, <2>11, <2>12, <2>13, <2>14,
       <2>15 DEF Next, Step
<1> QED
  BY <1>1, <1>2, SyncInvariant, PTL DEF Spec, ImplementsSwap, Swap!Spec
=============================================================================
