------------------------- MODULE MCSessionController -------------------------
(***************************************************************************)
(* Finite instances of SessionController for TLC.                          *)
(***************************************************************************)
EXTENDS SessionController
=============================================================================
