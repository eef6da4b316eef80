------------------------- MODULE MCCategoryService -------------------------
(***************************************************************************)
(* Small instances of CategoryService: two slots, so that any two requests *)
(* overlap and a third can follow either.                                  *)
(***************************************************************************)
EXTENDS CategoryService, MCInputs, TLC

RequestSymmetry == Permutations(Requests)

=============================================================================
