------------------------------- MODULE MCDisk -------------------------------
(***************************************************************************)
(* The disk module on small instances: one channel with two drives, or two *)
(* channels for the registration of drives.                                *)
(***************************************************************************)
EXTENDS Disk
=============================================================================
