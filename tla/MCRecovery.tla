----------------------------- MODULE MCRecovery -----------------------------
(***************************************************************************)
(* Two disks, two sessions of the installer, and an installed system that  *)
(* is updated, snapshotted and rolled back.                                *)
(***************************************************************************)
EXTENDS Recovery

CONSTANTS d1, d2
=============================================================================
