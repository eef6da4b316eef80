------------------------- MODULE MCCategoryDeletes -------------------------
(***************************************************************************)
(* Small instances of CategoryDeletes: two slots, so that a DELETE and the *)
(* request it races overlap, and a GET can follow.                         *)
(***************************************************************************)
EXTENDS CategoryDeletes, MCInputs, TLC

RequestSymmetry == Permutations(Requests)

=============================================================================
