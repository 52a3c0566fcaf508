------------------------------- MODULE Retain -------------------------------
(***************************************************************************)
(* `Vec::retain`, which the token list and the address book remove their   *)
(* entries with.                                                           *)
(***************************************************************************)
EXTENDS Naturals, FiniteSets

(* The elements of the sequence s at these places, in their order.         *)
Retained(s, places) ==
    [n \in 1..Cardinality(places) |->
        s[CHOOSE i \in places : Cardinality({k \in places : k <= i}) = n]]
=============================================================================
