----------------------------- MODULE MCTerminal -----------------------------
(***************************************************************************)
(* Finite instances of Terminal for TLC.                                   *)
(***************************************************************************)
EXTENDS Terminal
=============================================================================
