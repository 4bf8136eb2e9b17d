---------------------------- MODULE MCController ----------------------------
(***************************************************************************)
(* A model-checking instance of Controller.  Location Multi goes through   *)
(* entry server s1 to exit server s2.                                      *)
(***************************************************************************)
EXTENDS Controller

CONSTANTS s1, s2, Multi

MCExitServers == [loc \in Locations |-> {s2}]
MCEntryServers == [loc \in Locations |-> {s1}]

World(servers, device) ==
    [servers |-> servers, device |-> device, exitPick |-> s2, entryPick |-> s1]

\* Every server listed, none listed, and no current device.
MCWorlds == {World(Servers, TRUE), World({}, TRUE), World(Servers, FALSE)}
=============================================================================
