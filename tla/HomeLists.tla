----------------------------- MODULE HomeLists -----------------------------
(***************************************************************************)
(* The token list and the address book of one scope home, together: a task *)
(* runs one command at a time, on one list or the other.                   *)
(***************************************************************************)
EXTENDS TokenList

CONSTANTS
    Addresses, Fold, Books,     \* of the address book
    MaxCommands         \* bound of the model: commands begun, on both

ASSUME FoldAssumption == Fold \in [Addresses -> Addresses] /\ MaxCommands \in Nat

VARIABLES
    book, bookPen, bookTexts, bookMixed, bookAt, bookView, bookEnd,
    changes             \* commands begun on the book

Book == INSTANCE AddressBook

ASSUME BooksAssumption == \A entries \in Books : entries \in Seq(Addresses) /\ Book!Unique(entries)

bookVars == <<book, bookPen, bookTexts, bookMixed, bookAt, bookView, bookEnd>>

allVars == <<vars, bookVars, changes>>

HomeInit == Init /\ Book!BookInit /\ changes = 0

TokenCommand(p) ==
    /\ bookAt[p] = "idle"
    /\ Step(p) /\ jobs' + changes <= MaxCommands
    /\ UNCHANGED <<bookVars, changes>>

BookCommand(p) ==
    /\ at[p] = "idle"
    /\ \/ Book!BookBegin(p) /\ jobs + changes < MaxCommands /\ changes' = changes + 1
       \/ Book!BookStep(p) /\ UNCHANGED changes
    /\ UNCHANGED vars

HomeNext == \E p \in Procs : TokenCommand(p) \/ BookCommand(p)

HomeSpec == HomeInit /\ [][HomeNext]_allVars

-----------------------------------------------------------------------------
(* The book never lists an address twice, in any case, whatever saves were *)
(* lost or cut short, unless two have been written one over the other.     *)
OneEntryPerAddress == Book!OneEntryPerAddress

(* A book that does not parse, with no save under way, stays as it is: no  *)
(* command takes it for empty and saves over what its user could mend.     *)
(* (The token list, in the same state, is taken for empty.)                *)
BrokenBookKept == [][Book!BrokenAtRest => Book!BrokenAtRest']_bookVars
=============================================================================
