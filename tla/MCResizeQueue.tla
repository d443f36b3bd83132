---------------------------- MODULE MCResizeQueue ----------------------------
(***************************************************************************)
(* Finite instances of ResizeQueue for TLC.                                *)
(***************************************************************************)
EXTENDS ResizeQueue
=============================================================================
