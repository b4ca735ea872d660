------------------------------- MODULE MCLinks -------------------------------
(***************************************************************************)
(* Two regions around a hole for TLC: 3 pages and 1 page.                  *)
(***************************************************************************)
EXTENDS Links

MCRegions == <<[base |-> 0, n |-> 3], [base |-> 4, n |-> 1]>>
=============================================================================
