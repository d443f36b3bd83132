------------------------------ MODULE MCConnect ------------------------------
(***************************************************************************)
(* Finite instances of Connect for TLC.                                    *)
(***************************************************************************)
EXTENDS Connect
=============================================================================
