------------------------------ MODULE MCSystem ------------------------------
(***************************************************************************)
(* Model-checking instances of System: two single-hop locations with one   *)
(* server each, or one multi-hop location through both.                    *)
(***************************************************************************)
EXTENDS System

CONSTANTS s1, s2, A, B, Multi

MCExitServers == [loc \in Locations |-> IF loc = A THEN {s1} ELSE {s2}]
MCEntryServers == [loc \in Locations |-> IF loc = Multi THEN {s1} ELSE MCExitServers[loc]]
MCWorlds == {[servers |-> Servers, device |-> TRUE, exitPick |-> s1, entryPick |-> s1]}
=============================================================================
