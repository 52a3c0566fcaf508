-------------------------- MODULE MigrationProofs --------------------------
(***************************************************************************)
(* What holds of the migration for every list of items, and for every      *)
(* number of starts, failures, deaths and edits.                           *)
(*                                                                         *)
(* The invariant of a running start relates what it read when it began     *)
(* (`done`, and that there was no `complete`) to what the log says now:    *)
(* the only lines it adds are for items it has passed, so for the items    *)
(* ahead `done` is still what the log says.                                *)
(***************************************************************************)
EXTENDS Migration, NaturalsInduction, WellFoundedInduction, TLAPS

Candidates(k) == {Items[k][j] : j \in DOMAIN Items[k]}

-----------------------------------------------------------------------------
(* A set of positions that is not empty has a first one.                   *)
LEMMA FirstPosition ==
    ASSUME NEW T \in SUBSET Nat, T # {}
    PROVE  \E j \in T : \A l \in T : j <= l
<1>1. PICK j \in T : \A l \in T : ~(<<l, j>> \in OpToRel(<, Nat))
  BY NatLessThanWellFounded, WFMin, Zenon
<1>2. \A l \in T : ~(l < j)
  BY <1>1 DEF OpToRel
<1> QED
  BY <1>2

(* The slots are numbers, and their candidates are old files.              *)
LEMMA SlotFacts ==
    /\ Len(Items) \in Nat /\ Slots = 1..Len(Items)
    /\ \A k \in Slots : Candidates(k) \subseteq Sources /\ Items[k][1] \in Candidates(k)
    /\ \A k, l \in Slots : \A s \in Candidates(k) : s \in Candidates(l) => k = l
<1>1. Items \in Seq(Seq(Sources))
  BY ItemsAssumption
<1>2. Len(Items) \in Nat /\ Slots = 1..Len(Items)
  BY <1>1 DEF Slots
<1>3. ASSUME NEW k \in Slots
      PROVE  Candidates(k) \subseteq Sources /\ Items[k][1] \in Candidates(k)
  <2>1. Items[k] \in Seq(Sources) /\ Items[k] # <<>>
    BY <1>1, <1>2, ItemsAssumption DEF Slots
  <2>2. DOMAIN Items[k] = 1..Len(Items[k]) /\ Len(Items[k]) \in Nat /\ Len(Items[k]) # 0
    BY <2>1
  <2>3. 1 \in DOMAIN Items[k]
    BY <2>2
  <2>4. \A j \in DOMAIN Items[k] : Items[k][j] \in Sources
    BY <2>1, <2>2
  <2> QED
    BY <2>3, <2>4 DEF Candidates
<1>4. \A k, l \in Slots : \A s \in Candidates(k) : s \in Candidates(l) => k = l
  BY ItemsAssumption DEF Slots, Candidates
<1> QED
  BY <1>2, <1>3, <1>4

(* The listing names one of the item's own old places.                     *)
LEMMA ListedIsCandidate ==
    ASSUME NEW k \in Slots
    PROVE  Listed(k) \in Candidates(k)
<1> DEFINE there == {j \in DOMAIN Items[k] : Items[k][j] \in old}
<1>1. CASE there = {}
  BY <1>1, SlotFacts DEF Listed
<1>2. CASE there # {}
  <2>1. Items[k] \in Seq(Sources)
    BY ItemsAssumption, SlotFacts DEF Slots
  <2>2. there \in SUBSET Nat
    BY <2>1
  <2>3. \E j \in there : \A l \in there : j <= l
    BY <1>2, <2>2, FirstPosition
  <2>4. (CHOOSE j \in there : \A l \in there : j <= l) \in there
    BY <2>3
  <2>5. Listed(k) = Items[k][CHOOSE j \in there : \A l \in there : j <= l]
    BY <1>2 DEF Listed
  <2> HIDE DEF there
  <2>6. \A j \in there : Items[k][j] \in Candidates(k)
    BY DEF there, Candidates
  <2> QED
    BY <2>4, <2>5, <2>6
<1> QED
  BY <1>1, <1>2

-----------------------------------------------------------------------------
(* A start has copied fewer files than the items it has reached, and each  *)
(* item's source is one of its own old places.                             *)
SourceInv ==
    /\ copied < item
    /\ \A k \in Slots : from[k] \in Candidates(k)

LEMMA TypeStep == TypeOK /\ SourceInv /\ [Next]_vars => TypeOK' /\ SourceInv'
<1> SUFFICES ASSUME TypeOK, SourceInv, [Next]_vars
             PROVE  TypeOK' /\ SourceInv'
  OBVIOUS
<1> USE SlotFacts, NamesAssumption DEF TypeOK, SourceInv, Entries, Complete, Failed
<1> HIDE DEF Slots
<1>1. CASE Start
  <2>1. \A k \in Slots : Listed(k) \in Candidates(k) /\ Listed(k) \in Sources
    BY ListedIsCandidate
  <2>2. from' \in [Slots -> Sources] /\ \A k \in Slots : from'[k] \in Candidates(k)
    BY <1>1, <2>1 DEF Start
  <2>3. item' = 1 /\ copied' = 0 /\ done' \subseteq Sources /\ work' \in BOOLEAN /\ starts' \in Nat
    BY <1>1 DEF Start
  <2>4. /\ pc' \in {"idle", "item"} /\ result' \in {"none", "ok"}
        /\ UNCHANGED <<old, new, temp, log, tail, edits>>
    BY <1>1 DEF Start, End, home
  <2> QED
    BY <2>2, <2>3, <2>4
<1>2. CASE Skip
  BY <1>2 DEF Skip, home
<1>3. CASE BeginCopy
  BY <1>3 DEF BeginCopy, local
<1>4. CASE FinishCopy
  BY <1>4 DEF FinishCopy, local
<1>5. CASE Rename
  BY <1>5 DEF Rename, local
<1>6. CASE CopyFails
  BY <1>6 DEF CopyFails, home, local
<1>7. CASE LogCopied
  BY <1>7 DEF LogCopied, AppendLine
<1>8. CASE LogFailed
  BY <1>8 DEF LogFailed, AppendLine, End, local
<1>9. CASE Finish
  BY <1>9 DEF Finish, End, home, local
<1>10. CASE LogComplete
  BY <1>10 DEF LogComplete, AppendLine, End, local
<1>11. CASE AppendFails
  <2>1. pc \in {"log", "fail", "complete"} => DueLine \in Entries
    BY DEF DueLine
  <2>2. tail' \in {"none", "part"} \union Entries /\ log' = log
    BY <1>11, <2>1 DEF AppendFails, AppendTorn
  <2> QED
    BY <1>11, <2>2 DEF AppendFails, End, local
<1>12. CASE Crash
  <2>1. pc \in {"log", "fail", "complete"} => DueLine \in Entries
    BY DEF DueLine
  <2>2. tail' \in {"none", "part"} \union Entries /\ log' = log
    BY <1>12, <2>1 DEF Crash, AppendTorn
  <2> QED
    BY <1>12, <2>2 DEF Crash, End, local
<1>13. CASE User
  BY <1>13 DEF User, DeleteNew, WriteNew, ChangeOld, local
<1>14. CASE UNCHANGED vars
  BY <1>14 DEF vars, home, local
<1> QED
  BY <1>1, <1>2, <1>3, <1>4, <1>5, <1>6, <1>7, <1>8, <1>9, <1>10, <1>11, <1>12, <1>13, <1>14
     DEF Next, Process

LEMMA TypeInit == Init => TypeOK /\ SourceInv
<1> SUFFICES ASSUME Init
             PROVE  TypeOK /\ SourceInv
  OBVIOUS
<1>1. from \in [Slots -> Sources] /\ \A k \in Slots : from[k] \in Candidates(k)
  BY SlotFacts DEF Init
<1>2. new \in [Slots -> {"none", "own", "torn"} \union Sources]
  BY DEF Init
<1>3. temp \in [Slots -> {"none", "torn"} \union Sources]
  BY DEF Init
<1>4. item \in 1..(Len(Items) + 1) /\ copied \in 0..Len(Items) /\ copied < item
  BY SlotFacts DEF Init
<1>5. /\ old \subseteq Sources /\ log = {} /\ tail = "none" /\ pc = "idle" /\ done = {}
      /\ result = "none" /\ work = FALSE /\ starts = 0 /\ edits = 0
  BY DEF Init
<1> QED
  BY <1>1, <1>2, <1>3, <1>4, <1>5 DEF TypeOK, SourceInv

(* Type correctness of the home, the log and the start.                    *)
THEOREM TypeCorrect == Spec => [](TypeOK /\ SourceInv)
<1> QED
  BY TypeInit, TypeStep, PTL DEF Spec

-----------------------------------------------------------------------------
(* What a running start knows.  `done` is what the log says of the items   *)
(* ahead; those behind are in place or logged; the item it is copying had  *)
(* no new file, and a start with nothing to do is only looking.            *)
Ahead ==
    /\ Complete \notin Readable
    /\ \A k \in Slots : k >= item /\ from[k] \in Readable => from[k] \in done

Behind ==
    \A k \in Slots : k < item /\ from[k] \in old => new[k] # "none" \/ from[k] \in done

Here ==
    /\ pc \in {"copy", "rename"} => new[item] = "none" /\ from[item] \notin done
    /\ pc = "rename" => temp[item] = from[item]
    /\ pc = "log" => new[item] # "none"
    /\ pc = "complete" => item \notin Slots

OnlyLooking ==
    /\ pc = "item" /\ copied = 0 /\ done = {}
    /\ \A k \in Slots : from[k] \in old => new[k] # "none"

RunInv ==
    pc # "idle" =>
        /\ result = "none"
        /\ Ahead /\ Behind /\ Here
        /\ work = FALSE => OnlyLooking

(* A line appended is the only one a start can newly read.                 *)
LEMMA AppendReadable ==
    ASSUME NEW e, AppendLine(e)
    PROVE  Readable' \subseteq Readable \union {e}
  BY NamesAssumption DEF AppendLine, Readable, Entries, Complete, Failed

LEMMA RunStep == TypeOK /\ SourceInv /\ RunInv /\ [Next]_vars => RunInv'
<1> SUFFICES ASSUME TypeOK, SourceInv, RunInv, [Next]_vars, pc' # "idle"
             PROVE  RunInv'
  BY DEF RunInv
<1> USE SlotFacts, NamesAssumption DEF TypeOK, RunInv, Ahead, Behind, Here, OnlyLooking
<1> HIDE DEF Slots
<1>1. CASE Start
  <2>1. /\ Complete \notin Readable /\ pc' = "item" /\ result' = "none"
        /\ item' = 1 /\ copied' = 0 /\ done' = Readable \intersect Sources
        /\ \A k \in Slots : from'[k] = Listed(k)
        /\ UNCHANGED <<old, new, temp, log, tail>>
    BY <1>1 DEF Start, End, home
  <2>2. \A k \in Slots : Listed(k) \in Sources
    BY ListedIsCandidate
  <2>3. Readable' = Readable
    BY <2>1 DEF Readable
  <2>4. work' = FALSE => done' = {} /\ \A k \in Slots : Listed(k) \in old => new[k] # "none"
    BY <1>1, <2>1 DEF Start
  <2>5. Ahead' /\ Behind' /\ Here'
    BY <2>1, <2>2, <2>3
  <2> QED
    BY <2>1, <2>4, <2>5
<1>2. CASE Skip
  <2>1. Readable' = Readable
    BY <1>2 DEF Skip, home, Readable
  <2> QED
    BY <1>2, <2>1 DEF Skip, home, ToCopy
<1>3. CASE BeginCopy
  <2>1. Readable' = Readable
    BY <1>3 DEF BeginCopy, Readable
  <2> QED
    BY <1>3, <2>1 DEF BeginCopy, local, ToCopy
<1>4. CASE FinishCopy
  <2>1. Readable' = Readable
    BY <1>4 DEF FinishCopy, Readable
  <2> QED
    BY <1>4, <2>1 DEF FinishCopy, local
<1>5. CASE Rename
  <2>1. Readable' = Readable
    BY <1>5 DEF Rename, Readable
  <2>2. new'[item] # "none" /\ \A k \in Slots : k # item => new'[k] = new[k]
    BY <1>5 DEF Rename
  <2> QED
    BY <1>5, <2>1, <2>2 DEF Rename, local
<1>6. CASE CopyFails
  <2>1. Readable' = Readable
    BY <1>6 DEF CopyFails, home, Readable
  <2> QED
    BY <1>6, <2>1 DEF CopyFails, home, local, ToCopy
<1>7. CASE LogCopied
  <2>1. Readable' \subseteq Readable \union {from[item]}
    BY <1>7, AppendReadable DEF LogCopied
  <2>2. \A k \in Slots : k >= item' => from[k] # from[item]
    BY <1>7 DEF LogCopied, SourceInv
  <2>3. Ahead'
    BY <1>7, <2>1, <2>2 DEF LogCopied, Complete
  <2>4. Behind'
    BY <1>7 DEF LogCopied
  <2> QED
    BY <1>7, <2>3, <2>4 DEF LogCopied
<1>8. CASE Finish
  <2>1. Readable' = Readable
    BY <1>8 DEF Finish, home, Readable
  <2> QED
    BY <1>8, <2>1 DEF Finish, End, home, local
<1>9. CASE LogFailed \/ LogComplete \/ AppendFails \/ Crash
  BY <1>9 DEF LogFailed, LogComplete, AppendFails, Crash, End
<1>10. CASE User
  BY <1>10 DEF User
<1>11. CASE UNCHANGED vars
  <2>1. Readable' = Readable
    BY <1>11 DEF vars, home, Readable
  <2> QED
    BY <1>11, <2>1 DEF vars, home, local
<1> QED
  BY <1>1, <1>2, <1>3, <1>4, <1>5, <1>6, <1>7, <1>8, <1>9, <1>10, <1>11 DEF Next, Process

LEMMA RunInvariant == Spec => []RunInv
<1>1. Init => RunInv
  BY DEF Init, RunInv
<1> QED
  BY <1>1, RunStep, TypeCorrect, PTL DEF Spec

-----------------------------------------------------------------------------
(* No copy that stopped partway is ever a new file.                        *)
THEOREM CopiesAreWhole == Spec => []NeverTorn
<1>1. Init => NeverTorn
  BY DEF Init, NeverTorn
<1>2. TypeOK /\ SourceInv /\ RunInv /\ NeverTorn /\ [Next]_vars => NeverTorn'
  <2> SUFFICES ASSUME TypeOK, SourceInv, RunInv, NeverTorn, [Next]_vars
               PROVE  NeverTorn'
    OBVIOUS
  <2>1. CASE UNCHANGED new
    BY <2>1 DEF NeverTorn
  <2>2. CASE Rename
    BY <2>2, NamesAssumption DEF Rename, RunInv, Here, TypeOK, NeverTorn
  <2>3. CASE User
    BY <2>3 DEF User, DeleteNew, WriteNew, ChangeOld, TypeOK, NeverTorn
  <2>4. Rename \/ User \/ UNCHANGED new
    BY DEF Next, Process, vars, home, Start, Skip, BeginCopy, FinishCopy, CopyFails, LogCopied,
           LogFailed, Finish, LogComplete, AppendFails, Crash
  <2> QED
    BY <2>1, <2>2, <2>3, <2>4
<1> QED
  BY <1>1, <1>2, TypeCorrect, RunInvariant, PTL DEF Spec

(* Only a rename of a running start changes a new file.                    *)
LEMMA OnlyRenameInstalls ==
    ASSUME [Next]_vars, pc # "idle"
    PROVE  Rename \/ UNCHANGED new
  BY DEF Next, Process, User, vars, home, Start, Skip, BeginCopy, FinishCopy, CopyFails, LogCopied,
         LogFailed, Finish, LogComplete, AppendFails, Crash

(* A rename puts the item's own source where no new file was.              *)
LEMMA RenameInstalls ==
    ASSUME TypeOK, RunInv, Rename
    PROVE  /\ item \in Slots /\ new[item] = "none" /\ new'[item] = from[item]
           /\ \A k \in Slots : k # item => new'[k] = new[k]
  BY DEF TypeOK, RunInv, Here, Rename

(* A new file, the user's or a copy, outlives every start.                 *)
THEOREM NothingWrittenOver == Spec => NeverWrittenOver
<1>1. TypeOK /\ RunInv /\ [Next]_vars
      => [pc # "idle" => \A k \in Slots : new[k] # "none" => new'[k] = new[k]]_vars
  <2> SUFFICES ASSUME TypeOK, RunInv, [Next]_vars, pc # "idle",
                      NEW k \in Slots, new[k] # "none"
               PROVE  new'[k] = new[k]
    OBVIOUS
  <2>1. CASE Rename
    BY <2>1, RenameInstalls
  <2>2. CASE UNCHANGED new
    BY <2>2
  <2> QED
    BY <2>1, <2>2, OnlyRenameInstalls
<1> QED
  BY <1>1, TypeCorrect, RunInvariant, PTL DEF Spec, NeverWrittenOver

(* What the log shows as copied is not copied again.                       *)
THEOREM CopiedOnce == Spec => NeverCopiedTwice
<1>1. TypeOK /\ RunInv /\ [Next]_vars
      => [pc # "idle" => \A k \in Slots : new'[k] # new[k] => new'[k] \notin Readable]_vars
  <2> SUFFICES ASSUME TypeOK, RunInv, [Next]_vars, pc # "idle",
                      NEW k \in Slots, new'[k] # new[k]
               PROVE  new'[k] \notin Readable
    OBVIOUS
  <2>1. CASE Rename
    <3>1. k = item /\ new'[k] = from[item]
      BY <2>1, RenameInstalls
    <3>2. from[item] \notin done /\ item >= item
      BY <2>1 DEF Rename, RunInv, Here, TypeOK
    <3> QED
      BY <2>1, <3>1, <3>2 DEF Rename, RunInv, Ahead, TypeOK
  <2>2. CASE UNCHANGED new
    BY <2>2
  <2> QED
    BY <2>1, <2>2, OnlyRenameInstalls
<1> QED
  BY <1>1, TypeCorrect, RunInvariant, PTL DEF Spec, NeverCopiedTwice

(* The line `complete` ends the migration: no start touches the home again.*)
THEOREM CompleteEnds == Spec => CompleteIsFinal
<1>1. RunInv /\ [Next]_vars => [Process /\ Complete \in Readable => UNCHANGED home]_vars
  <2> SUFFICES ASSUME RunInv, Process, Complete \in Readable
               PROVE  UNCHANGED home
    OBVIOUS
  <2>1. pc = "idle"
    BY DEF RunInv, Ahead
  <2>2. Start
    BY <2>1 DEF Process, Skip, BeginCopy, FinishCopy, Rename, CopyFails, LogCopied, LogFailed,
                Finish, LogComplete, AppendFails, Crash
  <2> QED
    BY <2>2 DEF Start
<1> QED
  BY <1>1, RunInvariant, PTL DEF Spec, CompleteIsFinal

(* A start that ends well has left no old file behind.                     *)
THEOREM OkIsComplete == Spec => OkMeansAll
<1>1. TypeOK /\ RunInv /\ [Next]_vars
      => [pc # "idle" /\ result' = "ok" =>
             \A k \in Slots : from[k] \in old => new[k] # "none" \/ from[k] \in done]_vars
  <2> SUFFICES ASSUME TypeOK, RunInv, [Next]_vars, pc # "idle", result' = "ok"
               PROVE  \A k \in Slots : from[k] \in old => new[k] # "none" \/ from[k] \in done
    OBVIOUS
  <2>1. result = "none"
    BY DEF RunInv
  <2>2. Finish \/ LogComplete
    BY <2>1 DEF Next, Process, User, vars, Start, Skip, BeginCopy, FinishCopy, Rename, CopyFails,
                LogCopied, LogFailed, AppendFails, Crash, End
  <2>3. item \notin Slots
    BY <2>2 DEF Finish, LogComplete, RunInv, Here
  <2>4. \A k \in Slots : k < item
    BY <2>3, SlotFacts DEF TypeOK
  <2> QED
    BY <2>4 DEF RunInv, Behind
<1> QED
  BY <1>1, TypeCorrect, RunInvariant, PTL DEF Spec, OkMeansAll

(* A start with nothing to copy leaves a read-only home alone.             *)
THEOREM LookingWritesNothing == Spec => NothingToCopyWritesNothing
<1>1. TypeOK /\ RunInv /\ [Next]_vars => [pc # "idle" /\ ~work => UNCHANGED home]_vars
  <2> SUFFICES ASSUME TypeOK, RunInv, [Next]_vars, pc # "idle", ~work
               PROVE  UNCHANGED home
    OBVIOUS
  <2>1. OnlyLooking
    BY DEF RunInv, TypeOK
  <2>2. Skip \/ Finish \/ CopyFails \/ Crash \/ UNCHANGED vars
    BY <2>1 DEF OnlyLooking, Next, Process, User, Start, BeginCopy, FinishCopy, Rename, ToCopy,
                LogCopied, LogFailed, LogComplete, AppendFails
  <2> QED
    BY <2>1, <2>2 DEF OnlyLooking, Skip, Finish, CopyFails, Crash, vars, home
<1> QED
  BY <1>1, TypeCorrect, RunInvariant, PTL DEF Spec, NothingToCopyWritesNothing
=============================================================================
