------------------------------ MODULE MCDaemon ------------------------------
(***************************************************************************)
(* Model-checking instances of Daemon: single-hop configurations for two   *)
(* servers and two device identities, and the two hops of a multi-hop      *)
(* route, which MCSwapped also activates in the other direction.           *)
(***************************************************************************)
EXTENDS Daemon

CONSTANTS s1, s2, old, new, internet

Config(type, key, identity, ranges) ==
    [type |-> type, key |-> key, identity |-> identity, ranges |-> ranges]

MCConfigs ==
    {Config("SingleHop", s1, old, {internet}), Config("SingleHop", s1, new, {internet}),
     Config("SingleHop", s2, old, {internet}),
     Config("MultiHopEntry", s1, old, {s2}), Config("MultiHopExit", s2, old, {internet})}

MCSwapped ==
    {Config("MultiHopEntry", s1, old, {s2}), Config("MultiHopExit", s2, old, {internet}),
     Config("MultiHopEntry", s2, old, {s1}), Config("MultiHopExit", s1, old, {internet})}

\* The order of Controller::activateNext(): an exit hop is activated when the
\* entry hop that routes to its server is up.
ExitAfterEntry ==
    LET Exit(d) == IF "MultiHopExit" \in DOMAIN d.connections
                   THEN {d.connections["MultiHopExit"].config} ELSE {}
    IN  \A cfg \in Exit(dmn') \ Exit(dmn) :
            /\ "MultiHopEntry" \in DOMAIN dmn.connections
            /\ cfg.key \in dmn.connections["MultiHopEntry"].config.ranges

OrderedSpec == Init /\ [][Next /\ ExitAfterEntry]_dmn
=============================================================================
