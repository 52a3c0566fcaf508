--------------------------- MODULE MCCatalogSync ---------------------------
(***************************************************************************)
(* Three versions of a catalog of three venues for TLC: from the first to  *)
(* the second, venue 1 is updated, 2 removed and 3 added; the third is the *)
(* second without venue 1.                                                 *)
(***************************************************************************)
EXTENDS CatalogSync

CONSTANTS a, b, c

MCCatalog ==
    [v1 |-> <<a, b, "none">>, v2 |-> <<b, "none", c>>, v3 |-> <<"none", "none", c>>]
=============================================================================
