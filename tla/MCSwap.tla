------------------------------- MODULE MCSwap -------------------------------
(***************************************************************************)
(* The paging module on small instances; the .cfg files give the sizes.    *)
(* The code never looks into a page, so its contents are interchangeable.  *)
(***************************************************************************)
EXTENDS Swap

ValueSymmetry == Permutations(Values)
=============================================================================
