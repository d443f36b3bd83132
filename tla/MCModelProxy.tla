----------------------------- MODULE MCModelProxy ----------------------------
(***************************************************************************)
(* Finite instances of ModelProxy for TLC.                                 *)
(***************************************************************************)
EXTENDS ModelProxy
=============================================================================
