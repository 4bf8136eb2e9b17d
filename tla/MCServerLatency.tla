-------------------------- MODULE MCServerLatency ---------------------------
(***************************************************************************)
(* A model-checking instance of ServerLatency.                             *)
(***************************************************************************)
EXTENDS ServerLatency

CONSTANTS a, b, c

MCServerLists == {<<>>, <<b>>, <<a, b, c>>}
=============================================================================
