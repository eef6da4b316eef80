----------------------- MODULE MCCategoryRefinement -----------------------
(***************************************************************************)
(* One request slot: requests follow one another and never overlap.        *)
(***************************************************************************)
EXTENDS CategoryRefinement, MCInputs

=============================================================================
