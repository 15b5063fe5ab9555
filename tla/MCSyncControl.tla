--------------------------- MODULE MCSyncControl ---------------------------
(***************************************************************************)
(* Finite instances of SyncControl.                                        *)
(***************************************************************************)
EXTENDS SyncControl

CONSTANTS p1, p2, timer
=============================================================================
