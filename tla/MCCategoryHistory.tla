------------------------- MODULE MCCategoryHistory -------------------------
(***************************************************************************)
(* Small instances of CategoryHistory.                                     *)
(***************************************************************************)
EXTENDS CategoryHistory, MCInputs, TLC

RequestSymmetry == Permutations(Requests)

=============================================================================
