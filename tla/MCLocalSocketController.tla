---------------------- MODULE MCLocalSocketController -----------------------
(***************************************************************************)
(* Model-checking instance of LocalSocketController, with the constants of *)
(* the code and one server key.                                            *)
(***************************************************************************)
EXTENDS LocalSocketController
=============================================================================
