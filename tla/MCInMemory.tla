----------------------------- MODULE MCInMemory -----------------------------
(***************************************************************************)
(* Finite instances of InMemory for TLC.                                   *)
(***************************************************************************)
EXTENDS InMemory
=============================================================================
