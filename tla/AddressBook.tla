---------------------------- MODULE AddressBook ----------------------------
(***************************************************************************)
(* The address book (crates/scope-core/src/domain/address_book.rs) and     *)
(* what changes it: `address-book add` and `remove`                        *)
(* (crates/scope-cli/src/cli/address_book.rs) and the handlers of the web  *)
(* server (crates/scope-web/src/api/address_book.rs), which serves several *)
(* requests at the same time.  Each loads the book, changes its copy and   *)
(* saves it whole.                                                         *)
(*                                                                         *)
(* An entry is its address; label, chain and tags go with it.  Addresses   *)
(* that differ in case only are the same one.  Reading the book (`list`,   *)
(* `summary`, `@label`) changes nothing and is left out.                   *)
(***************************************************************************)
EXTENDS Naturals, Sequences, Retain

CONSTANTS
    Procs,      \* tasks that change the book: commands and web handlers
    Addresses,
    Fold,       \* `to_lowercase`: the address each is compared as
    Books,      \* books there can be at first
    Absent, Broken

VARIABLES
    book,       \* address_book.yaml: a sequence of addresses, Absent or Broken
    bookPen, bookTexts, bookMixed,  \* who is writing it, and over what (WholeFile)
    bookAt,     \* what each task does next
    bookView,   \* its copy of the book
    bookEnd     \* how its last change ended

bookFile == <<book, bookPen, bookTexts, bookMixed>>

bookVars == <<bookFile, bookAt, bookView, bookEnd>>

BookFile == INSTANCE WholeFile WITH
    file <- book, pen <- bookPen, texts <- bookTexts, mixed <- bookMixed

-----------------------------------------------------------------------------
(* Variant: addresses are compared with their case.                        *)
SameText(a, b) == a = b

SameAddress(a, b) == Fold[a] = Fold[b]

Listed(entries, a) == \E i \in DOMAIN entries : SameAddress(entries[i], a)

(* Variant: a book that does not parse counts as empty, as for the tokens. *)
ReadableOrEmpty == {IF book \in {Absent, Broken} THEN << >> ELSE book}

(* `load`: a book that is not there is empty; one that does not parse is   *)
(* an error.                                                               *)
LoadedBook ==
    CASE book = Absent -> {<< >>}
      [] book = Broken -> {}
      [] OTHER -> {book}

(* What a text of the book cut short can parse to: an entry ends with a    *)
(* time that it must have.                                                 *)
BookParts(entries) == {SubSeq(entries, 1, n) : n \in 0..Len(entries)}

(* What the text of a book can parse to with the rest of a longer one      *)
(* after it; with none, nothing can follow.                                *)
BookOverrun(entries, longer) ==
    IF entries = << >> THEN {}
    ELSE {entries \o SubSeq(longer, n, Len(longer)) : n \in 2..Len(longer)}

(* The same of a text cut short: of the two entries where the texts meet   *)
(* there can be one, its address a piece of each.                          *)
Met(entries, i, piece, other, n) ==
    SubSeq(entries, 1, i) \o piece \o SubSeq(other, n, Len(other))

Pieces == {<< >>} \union {<<a>> : a \in Addresses}

BookPatched(entries, other) ==
    {Met(entries, i, piece, other, n) :
        i \in 0..Len(entries), piece \in Pieces, n \in 1..(Len(other) + 1)}

BookGoto(p, where, how) ==
    /\ bookAt' = [bookAt EXCEPT ![p] = where]
    /\ bookEnd' = [bookEnd EXCEPT ![p] = how]

-----------------------------------------------------------------------------
BookInit ==
    /\ book \in Books \union {Absent, Broken}
    /\ bookPen = [p \in Procs |-> "up"] /\ bookTexts = {} /\ bookMixed = FALSE
    /\ bookAt = [p \in Procs |-> "idle"]
    /\ bookView = [p \in Procs |-> << >>]
    /\ bookEnd = [p \in Procs |-> "none"]

(* The book cannot be read: the command ends, and writes nothing.          *)
LoadFails(p) ==
    /\ bookAt[p] = "idle" /\ LoadedBook = {}
    /\ BookGoto(p, "idle", "unreadable")
    /\ UNCHANGED <<bookFile, bookView>>

AddAddress(p, a) ==
    /\ bookAt[p] = "idle"
    /\ \E entries \in LoadedBook :
          IF Listed(entries, a)
          THEN BookGoto(p, "idle", "already there") /\ UNCHANGED bookView
          ELSE /\ bookView' = [bookView EXCEPT ![p] = Append(entries, a)]
               /\ BookGoto(p, "open", "none")
    /\ UNCHANGED bookFile

RemoveAddress(p, a) ==
    /\ bookAt[p] = "idle"
    /\ \E entries \in LoadedBook :
          IF ~Listed(entries, a)
          THEN BookGoto(p, "idle", "not found") /\ UNCHANGED bookView
          ELSE /\ bookView' = [bookView EXCEPT ![p] =
                      Retained(entries, {i \in DOMAIN entries : ~SameAddress(a, entries[i])})]
               /\ BookGoto(p, "open", "none")
    /\ UNCHANGED bookFile

OpenBook(p) ==
    /\ bookAt[p] = "open"
    /\ \/ BookFile!Open(p) /\ BookGoto(p, "write", "none")
       \/ BookGoto(p, "idle", "error") /\ UNCHANGED bookFile
    /\ UNCHANGED bookView

WriteBook(p) ==
    /\ bookAt[p] = "write"
    /\ \/ /\ BookFile!Write(p, bookView[p], UNION {BookOverrun(bookView[p], m) : m \in bookTexts})
          /\ BookGoto(p, "idle", "ok")
       \/ /\ BookFile!Tear(p, BookParts(bookView[p]),
                            UNION {BookPatched(bookView[p], m) : m \in bookTexts})
          /\ BookGoto(p, "idle", "error")
    /\ UNCHANGED bookView

BookBegin(p) == LoadFails(p) \/ \E a \in Addresses : AddAddress(p, a) \/ RemoveAddress(p, a)

BookStep(p) == OpenBook(p) \/ WriteBook(p)

BookNext == \E p \in Procs : BookBegin(p) \/ BookStep(p)

BookSpec == BookInit /\ [][BookNext]_bookVars

-----------------------------------------------------------------------------
Unique(entries) ==
    \A i, n \in DOMAIN entries : i # n => Fold[entries[i]] # Fold[entries[n]]

(* Every variable has a value the code can give it.                        *)
BookTypeOK ==
    /\ book \in Seq(Addresses) \union {Absent, Broken}
    /\ bookPen \in [Procs -> BookFile!Pens]
    /\ bookTexts \subseteq Seq(Addresses) /\ bookMixed \in BOOLEAN
    /\ bookAt \in [Procs -> {"idle", "open", "write"}]
    /\ bookView \in [Procs -> Seq(Addresses)]
    /\ bookEnd \in [Procs -> {"none", "ok", "error", "unreadable", "already there", "not found"}]

(* The book never lists an address twice, in any case, whatever saves were *)
(* lost or cut short, unless two have been written one over the other.     *)
OneEntryPerAddress == book \notin {Absent, Broken} /\ ~bookMixed => Unique(book)

(* The book does not parse, and nobody is about to save it.                *)
BrokenAtRest == book = Broken /\ \A p \in Procs : bookAt[p] = "idle"
=============================================================================
