----------------------------- MODULE MCFirstFit -----------------------------
EXTENDS FirstFit

(***************************************************************************)
(* Two regions of RAM around a hole, as below and above the ISA hole; the  *)
(* first descriptors belong to pages page_init() never registers.          *)
(***************************************************************************)
MCRegions == <<[base |-> 1, n |-> 4], [base |-> 6, n |-> 2]>>
=============================================================================
