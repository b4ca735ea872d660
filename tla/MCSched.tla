------------------------------ MODULE MCSched ------------------------------
(***************************************************************************)
(* The process module on small instances: the .cfg files give MaxPid and   *)
(* KPages.                                                                 *)
(***************************************************************************)
EXTENDS Sched
=============================================================================
