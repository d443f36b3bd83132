----------------------------- MODULE MCApiServer -----------------------------
(***************************************************************************)
(* Finite instances of ApiServer for TLC.                                  *)
(***************************************************************************)
EXTENDS ApiServer
=============================================================================
