----------------------------- MODULE WholeFile -----------------------------
(***************************************************************************)
(* A file of the scope home that is saved whole and in place, by           *)
(* `std::fs::write`: the token list (tokens.rs, `save`) and the address    *)
(* book (domain/address_book.rs, `save`).                                  *)
(*                                                                         *)
(* The call opens the file, which empties it, and then writes from its     *)
(* start.  Neither file has a lock, so the opens and writes of several     *)
(* processes interleave: the second of two writes lands on the text of the *)
(* first, and what is left of a longer first text follows it.  What such a *)
(* text parses to is for the module of the list to say.                    *)
(***************************************************************************)
CONSTANTS
    Procs,      \* scope processes
    Absent,     \* no file
    Broken      \* a file that does not parse: an empty one, or a part of a text

VARIABLES
    file,       \* Absent, Broken, or the content that the file parses to
    pen,        \* each process: it has opened the file to write ("down") or not ("up")
    texts,      \* the contents written since the file was emptied, while one is yet to write
    mixed       \* history: a text made of two that parses has been in the file

wholeFileVars == <<file, pen, texts, mixed>>

Pens == {"up", "down"}

Closed == pen = [p \in Procs |-> "up"]

(* `fs::write` opens the file: it is there and empty.                      *)
Open(p) ==
    /\ pen[p] = "up"
    /\ file' = Broken /\ texts' = {}
    /\ pen' = [pen EXCEPT ![p] = "down"]
    /\ UNCHANGED mixed

(* It is done.  The file begins with the text of what it parses to or, if  *)
(* it does not, of what was written.                                       *)
Lift(p, written) ==
    /\ pen' = [pen EXCEPT ![p] = "up"]
    /\ texts' = IF \E q \in Procs \ {p} : pen[q] = "down"
                THEN texts \union ((written \union {file'}) \ {Broken}) ELSE {}

(* What is left of no earlier text parses with the one that p writes.      *)
Alone(contents) == file' \in contents /\ UNCHANGED mixed

(* What is left of an earlier one does.                                    *)
Joined(blends) == file' \in blends /\ mixed' = TRUE

(* It writes the text of c.  `blends` is what it parses to when the rest   *)
(* of an earlier, longer one of `texts` follows it.                        *)
Write(p, c, blends) ==
    /\ pen[p] = "down"
    /\ Alone({c}) \/ (texts # {} /\ Alone({Broken})) \/ Joined(blends)
    /\ Lift(p, {c})

(* It stops partway: the disk is full, or the process dies.  `parts` is    *)
(* what the text cut short parses to, when it does, and `blends` the same  *)
(* with the rest of an earlier text after it.                              *)
Tear(p, parts, blends) ==
    /\ pen[p] = "down"
    /\ Alone(parts \union {Broken}) \/ Joined(blends)
    /\ Lift(p, {})
=============================================================================
