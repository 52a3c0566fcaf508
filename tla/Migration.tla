----------------------------- MODULE Migration -----------------------------
(***************************************************************************)
(* The one-time copy of the user's old files into the scope home           *)
(* (crates/scope-core/src/paths/migration.rs), over a sequence of starts.  *)
(*                                                                         *)
(* A start lists the items, reads the log, and copies item by item: to a   *)
(* temporary file, by a rename, with a line of the log after it.  It can   *)
(* die between any two system calls, and any call can fail.  Between two   *)
(* starts the user edits the old folders and the home.  One start runs at  *)
(* a time.                                                                 *)
(*                                                                         *)
(* An old file is identified by its path, and the content of a copy by the *)
(* path it was copied from.  `items[k]` lists the places item k may come   *)
(* from, in the order the code tries them; its new file is number k.       *)
(***************************************************************************)
EXTENDS Naturals, Sequences

CONSTANTS
    Sources,    \* the paths of old files
    Items,      \* a sequence of sequences of them
    MaxStarts,  \* bound of the model: starts
    MaxEdits    \* bound of the model: edits by the user

ASSUME ItemsAssumption ==
    /\ Items \in Seq(Seq(Sources))
    /\ \A k \in DOMAIN Items : Items[k] # <<>>
    \* no path is a candidate of two items
    /\ \A k, l \in DOMAIN Items : \A a \in DOMAIN Items[k] : \A b \in DOMAIN Items[l] :
           Items[k][a] = Items[l][b] => k = l
ASSUME NamesAssumption ==
    Sources \cap {"none", "torn", "own", "part", "failed", "complete"} = {}
ASSUME BoundsAssumption == MaxStarts \in Nat /\ MaxEdits \in Nat

VARIABLES
    old,        \* the old files there are
    new,        \* the new file of each item: "none", "own" (the user's), "torn", or a copy
    temp,       \* its `.migrating` file: "none", "torn" or a copy
    log,        \* the lines of migration.jsonl that parse
    tail,       \* its last line when no newline ends it: "none", "part", or a line that parses
    pc,         \* the step of the running start, "idle" between starts
    item,       \* the item it is at
    from,       \* Item::from of each item, chosen by the listing
    done,       \* copied_before
    copied,     \* how many files this start copied
    result,     \* how the last start ended
    work,       \* history: whether this start found anything to do
    starts, edits

home  == <<new, temp, log, tail>>
local == <<item, from, done, copied, work>>
vars  == <<old, home, pc, local, result, starts, edits>>

Slots   == DOMAIN Items
Complete == "complete"
Failed   == "failed"
Entries == Sources \union {Complete, Failed}

-----------------------------------------------------------------------------
(* The log.                                                                *)

(* The lines a start reads: a last line without its newline counts when it *)
(* parses.                                                                 *)
Readable == log \union (IF tail \in Entries THEN {tail} ELSE {})

(* Appends the line e.  Onto a line that no newline ended, the two are one *)
(* line that does not parse, and both are lost.                            *)
AppendLine(e) ==
    /\ log'  = IF tail = "none" THEN log \union {e} ELSE log
    /\ tail' = "none"

(* What an append of e that stops partway leaves: nothing of it, a part,   *)
(* or all of it but the newline.                                           *)
AppendTorn(e) ==
    /\ UNCHANGED log
    /\ \/ UNCHANGED tail
       \/ tail' = "part"
       \/ tail = "none" /\ tail' = e

-----------------------------------------------------------------------------
(* The listing and the tests of `copy_one`.                                *)

(* The first candidate that is there, or the first.                        *)
Listed(k) ==
    LET c == Items[k]
        there == {j \in DOMAIN c : c[j] \in old}
    IN  IF there = {} THEN c[1]
        ELSE c[CHOOSE j \in there : \A l \in there : j <= l]

(* Variants: the log, or the new file, is not looked at.                   *)
ToCopyLogged(k)   == from[k] \in old /\ new[k] = "none"
ToCopyExisting(k) == from[k] \notin done /\ from[k] \in old

ToCopy(k) == from[k] \notin done /\ from[k] \in old /\ new[k] = "none"

-----------------------------------------------------------------------------
Init ==
    /\ old \in SUBSET Sources
    /\ new = [k \in Slots |-> "none"] /\ temp = [k \in Slots |-> "none"]
    /\ log = {} /\ tail = "none"
    /\ pc = "idle" /\ item = 1 /\ from = [k \in Slots |-> Items[k][1]]
    /\ done = {} /\ copied = 0 /\ result = "none"
    /\ work = FALSE /\ starts = 0 /\ edits = 0

End(r) == pc' = "idle" /\ result' = r

(* Variant: a `complete` line is not looked for.                           *)
StartAgain ==
    /\ pc = "idle" /\ starts < MaxStarts
    /\ starts' = starts + 1
    /\ from' = [k \in Slots |-> Listed(k)]
    /\ item' = 1 /\ copied' = 0
    /\ done' = Readable \intersect Sources
    /\ pc' = "item" /\ result' = "none"
    /\ work' = \/ Readable \intersect Sources # {}
               \/ \E k \in Slots : Listed(k) \in old /\ new[k] = "none"
    /\ UNCHANGED <<old, home, edits>>

(* `migrate`: the items are listed and the log is read.  A log with a      *)
(* `complete` line ends the start.                                         *)
Start ==
    /\ pc = "idle" /\ starts < MaxStarts
    /\ starts' = starts + 1
    /\ from' = [k \in Slots |-> Listed(k)]
    /\ item' = 1 /\ copied' = 0
    /\ done' = Readable \intersect Sources
    /\ work' = \/ Readable \intersect Sources # {}
               \/ \E k \in Slots : Listed(k) \in old /\ new[k] = "none"
    /\ \/ Complete \in Readable /\ End("ok")
       \/ Complete \notin Readable /\ pc' = "item" /\ result' = "none"
    /\ UNCHANGED <<old, home, edits>>

(* An item that is not copied: copied before, no source, or kept.          *)
Skip ==
    /\ pc = "item" /\ item \in Slots /\ ~ToCopy(item)
    /\ item' = item + 1
    /\ UNCHANGED <<old, home, pc, from, done, copied, work, result, starts, edits>>

(* Variant: the copy goes straight to the new file.                        *)
BeginCopyInPlace ==
    /\ pc = "item" /\ item \in Slots /\ ToCopy(item)
    /\ new' = [new EXCEPT ![item] = "torn"]
    /\ pc' = "copy"
    /\ UNCHANGED <<old, temp, log, tail, local, result, starts, edits>>

(* `fs::copy` has emptied the temporary file.                              *)
BeginCopy ==
    /\ pc = "item" /\ item \in Slots /\ ToCopy(item)
    /\ temp' = [temp EXCEPT ![item] = "torn"]
    /\ pc' = "copy"
    /\ UNCHANGED <<old, new, log, tail, local, result, starts, edits>>

(* It has written all of it.                                               *)
FinishCopy ==
    /\ pc = "copy"
    /\ temp' = [temp EXCEPT ![item] = from[item]]
    /\ pc' = "rename"
    /\ UNCHANGED <<old, new, log, tail, local, result, starts, edits>>

Rename ==
    /\ pc = "rename"
    /\ new'  = [new EXCEPT ![item] = temp[item]]
    /\ temp' = [temp EXCEPT ![item] = "none"]
    /\ pc' = "log"
    /\ UNCHANGED <<old, log, tail, local, result, starts, edits>>

(* The folder cannot be made, the copy stops partway, or the rename fails. *)
CopyFails ==
    /\ \/ pc = "item" /\ item \in Slots /\ ToCopy(item)
       \/ pc \in {"copy", "rename"}
    /\ pc' = "fail"
    /\ UNCHANGED <<old, home, local, result, starts, edits>>

LogCopied ==
    /\ pc = "log"
    /\ AppendLine(from[item])
    /\ pc' = "item" /\ item' = item + 1 /\ copied' = copied + 1
    /\ UNCHANGED <<old, new, temp, from, done, work, result, starts, edits>>

(* Variant: a failed copy is logged and the start goes on.                 *)
LogFailedGoesOn ==
    /\ pc = "fail"
    /\ AppendLine(Failed)
    /\ pc' = "item" /\ item' = item + 1
    /\ UNCHANGED <<old, new, temp, from, done, copied, work, result, starts, edits>>

(* A failed copy is logged and ends the start.                             *)
LogFailed ==
    /\ pc = "fail"
    /\ AppendLine(Failed)
    /\ End("failed")
    /\ UNCHANGED <<old, new, temp, local, starts, edits>>

(* All items done: `complete` is due once anything was ever copied.        *)
Finish ==
    /\ pc = "item" /\ item \notin Slots
    /\ \/ (copied > 0 \/ done # {}) /\ pc' = "complete" /\ UNCHANGED result
       \/ copied = 0 /\ done = {} /\ End("ok")
    /\ UNCHANGED <<old, home, local, starts, edits>>

LogComplete ==
    /\ pc = "complete"
    /\ AppendLine(Complete)
    /\ End("ok")
    /\ UNCHANGED <<old, new, temp, local, starts, edits>>

(* The line a start is about to append.                                    *)
DueLine == CASE pc = "log"      -> from[item]
             [] pc = "fail"     -> Failed
             [] pc = "complete" -> Complete

(* An append fails: the start ends with that error, whatever it was for.   *)
AppendFails ==
    /\ pc \in {"log", "fail", "complete"}
    /\ AppendTorn(DueLine)
    /\ End("failed")
    /\ UNCHANGED <<old, new, temp, local, starts, edits>>

(* The process dies, between two calls or partway through an append.       *)
Crash ==
    /\ pc # "idle"
    /\ \/ UNCHANGED <<log, tail>>
       \/ pc \in {"log", "fail", "complete"} /\ AppendTorn(DueLine)
    /\ End("died")
    /\ UNCHANGED <<old, new, temp, local, starts, edits>>

Process ==
    \/ Start \/ Skip \/ BeginCopy \/ FinishCopy \/ Rename \/ CopyFails
    \/ LogCopied \/ LogFailed \/ Finish \/ LogComplete \/ AppendFails \/ Crash

-----------------------------------------------------------------------------
(* The user, between starts: deletes or writes a new file, removes or adds *)
(* an old one.                                                             *)
DeleteNew(k) ==
    /\ new[k] # "none"
    /\ new' = [new EXCEPT ![k] = "none"]
    /\ UNCHANGED old

WriteNew(k) ==
    /\ new[k] = "none"
    /\ new' = [new EXCEPT ![k] = "own"]
    /\ UNCHANGED old

ChangeOld(s) ==
    /\ old' = IF s \in old THEN old \ {s} ELSE old \union {s}
    /\ UNCHANGED new

User ==
    /\ pc = "idle" /\ edits < MaxEdits
    /\ edits' = edits + 1
    /\ \/ \E k \in Slots : DeleteNew(k) \/ WriteNew(k)
       \/ \E s \in Sources : ChangeOld(s)
    /\ UNCHANGED <<temp, log, tail, pc, local, result, starts>>

Next == Process \/ User

Spec == Init /\ [][Next]_vars

-----------------------------------------------------------------------------
(* Every variable has a value the code can give it.                        *)
TypeOK ==
    /\ old \subseteq Sources
    /\ new  \in [Slots -> {"none", "own", "torn"} \union Sources]
    /\ temp \in [Slots -> {"none", "torn"} \union Sources]
    /\ log \subseteq Entries
    /\ tail \in {"none", "part"} \union Entries
    /\ pc \in {"idle", "item", "copy", "rename", "log", "fail", "complete"}
    /\ item \in 1..(Len(Items) + 1)
    /\ pc \in {"copy", "rename", "log", "fail"} => item \in Slots
    /\ from \in [Slots -> Sources]
    /\ done \subseteq Sources
    /\ copied \in 0..Len(Items)
    /\ result \in {"none", "ok", "failed", "died"}
    /\ work \in BOOLEAN
    /\ starts \in Nat /\ edits \in Nat

(* A copy that stops partway, by an error or a kill, never becomes the new *)
(* file, which later starts would keep.                                    *)
NeverTorn == \A k \in Slots : new[k] # "torn"

(* No start writes over or removes a new file, whoever made it.            *)
NeverWrittenOver ==
    [][pc # "idle" => \A k \in Slots : new[k] # "none" => new'[k] = new[k]]_vars

(* No start makes a copy the log shows as made, the copies of earlier      *)
(* starts that failed or died included.                                    *)
NeverCopiedTwice ==
    [][pc # "idle" => \A k \in Slots :
           new'[k] # new[k] => new'[k] \notin Readable]_vars

(* Once a start can read `complete`, none writes a byte of the home again: *)
(* not for a copy the user deleted, nor for a file added to an old folder. *)
CompleteIsFinal ==
    [][Process /\ Complete \in Readable => UNCHANGED home]_vars

(* A start that ends well leaves no old file behind: each has a new file,  *)
(* or a line that says it was copied before.                               *)
OkMeansAll ==
    [][pc # "idle" /\ result' = "ok" =>
           \A k \in Slots : from[k] \in old => new[k] # "none" \/ from[k] \in done]_vars

(* A start with nothing to copy writes nothing, so a read-only home works. *)
NothingToCopyWritesNothing ==
    [][pc # "idle" /\ ~work => UNCHANGED home]_vars
=============================================================================
