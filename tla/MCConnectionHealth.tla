------------------------- MODULE MCConnectionHealth -------------------------
(***************************************************************************)
(* A model-checking instance of ConnectionHealth.                          *)
(***************************************************************************)
EXTENDS ConnectionHealth
=============================================================================
