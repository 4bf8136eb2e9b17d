------------------------------- MODULE Daemon -------------------------------
(***************************************************************************)
(* The privileged daemon: class Daemon (src/src/daemon/daemon.cpp) behind  *)
(* one local socket connection (daemonlocalserverconnection.cpp) and its   *)
(* session check (daemonaccesscontrol.cpp).                                *)
(*                                                                         *)
(* The members are the fields of the record `dmn', with the part of the    *)
(* operating system the daemon configures through wgutils(), iputils() and *)
(* dnsutils(): the tunnel interface, its peers, the routes and the DNS     *)
(* resolvers.  Those calls are external: each may fail, and `fault' names  *)
(* the one that does in a given command.  Daemon::run() succeeds on every  *)
(* platform of the repository.                                             *)
(***************************************************************************)
EXTENDS Integers, Sequences, FiniteSets

CONSTANTS
    Configs,     \* the InterfaceConfigs clients activate
    Faults       \* the system calls that may fail

\* A config: hop type, server key, the identity that supportServerSwitching()
\* compares (keys, device addresses, gateways) and the allowed address ranges.
HopOrder == <<"SingleHop", "MultiHopEntry", "MultiHopExit">>
Types == {"SingleHop", "MultiHopEntry", "MultiHopExit"}

AllFaults == {"addInterface", "configureInterface", "updatePeer", "updateResolvers",
              "updateRoute", "restoreResolvers", "deletePeer", "deleteInterface"}

ASSUME DaemonAssumption ==
    /\ \A cfg \in Configs : /\ DOMAIN cfg = {"type", "key", "identity", "ranges"}
                            /\ cfg.type \in Types
    /\ Faults \subseteq AllFaults

Keys == {cfg.key : cfg \in Configs}
Ranges == UNION {cfg.ranges : cfg \in Configs}

VARIABLE dmn

NoFault == "none"

Message(type) == [type |-> type]
ConnectedMessage(key) == [type |-> "connected", pubkey |-> key]

-----------------------------------------------------------------------------
\* m_connections is a QMap: an absent hop type is not in the domain.

Connection(cfg) == [config |-> cfg, date |-> FALSE]

\* Mutant: every connection is stored as a single hop.
SetConnectionSingle(d, cfg) ==
    [d EXCEPT !.connections = [t \in DOMAIN @ \cup {"SingleHop"} |->
                                  IF t = "SingleHop" THEN Connection(cfg) ELSE @[t]]]

SetConnection(d, cfg) ==
    [d EXCEPT !.connections = [t \in DOMAIN @ \cup {cfg.type} |->
                                  IF t = cfg.type THEN Connection(cfg) ELSE @[t]]]

\* m_connections.first(): the lowest hop type.
FirstType(d) ==
    LET present == {i \in 1..3 : HopOrder[i] \in DOMAIN d.connections}
    IN  HopOrder[CHOOSE i \in present : \A j \in present : i <= j]

Failed(d) == [d |-> d, ok |-> FALSE]
Succeeded(d) == [d |-> d, ok |-> TRUE]

\* Mutant: nobody polls for the handshake.
PendingUnpolled(d, cfg) == Succeeded(SetConnection(d, cfg))

\* The end of a successful activation: the handshake is polled for.
Pending(d, cfg) ==
    Succeeded([SetConnection(d, cfg) EXCEPT !.handshakeTimer = TRUE])

NeedsResolvers(cfg) == cfg.type \in {"SingleHop", "MultiHopExit"}

-----------------------------------------------------------------------------
\* The system calls of deactivate() before the last.
TornDown(d, emitSignals, fault) ==
    LET configs == {d.connections[t].config : t \in DOMAIN d.connections}
    IN  [d EXCEPT !.resolvers = @ /\ fault = "restoreResolvers",
                  !.routes = @ \ UNION {cfg.ranges : cfg \in configs},
                  !.peers = @ \ {cfg.key : cfg \in configs},
                  !.handshakes = @ \ {cfg.key : cfg \in configs},
                  !.connections = <<>>,
                  !.out = IF emitSignals THEN Append(@, Message("disconnected")) ELSE @]

\* Mutant: the first failure ends the deactivation.
DeactivateDaemonHalfway(d, emitSignals, fault) ==
    IF fault = "restoreResolvers" THEN Failed(d)
    ELSE Succeeded([TornDown(d, emitSignals, fault) EXCEPT
                        !.interface = "absent", !.routes = {}, !.peers = {},
                        !.handshakes = {}])

\* Mutant: the client is not told.
DeactivateDaemonSilently(d, emitSignals, fault) ==
    Succeeded([TornDown(d, FALSE, fault) EXCEPT
                   !.interface = "absent", !.routes = {}, !.peers = {},
                   !.handshakes = {}])

\* deactivate(): an interface that goes away takes peers and routes with it.
DeactivateDaemon(d, emitSignals, fault) ==
    LET cleared == TornDown(d, emitSignals, fault)
    IN  IF fault = "deleteInterface" /\ d.interface # "absent" THEN Failed(cleared)
        ELSE Succeeded([cleared EXCEPT !.interface = "absent", !.routes = {},
                                       !.peers = {}, !.handshakes = {}])

SupportServerSwitching(d, cfg) ==
    /\ cfg.type \in DOMAIN d.connections
    /\ d.connections[cfg.type].config.identity = cfg.identity

\* switchServer(): a route that cannot be added is only logged.
SwitchServer(d, cfg, fault) ==
    LET last   == d.connections[cfg.type].config
        peered == [d EXCEPT !.peers = @ \cup {cfg.key}]
        routed == [peered EXCEPT !.routes =
                      ((IF fault = "updateRoute" THEN @ ELSE @ \cup cfg.ranges)
                          \ (last.ranges \ cfg.ranges))]
        pruned == IF cfg.key = last.key THEN routed
                  ELSE [routed EXCEPT !.peers = @ \ {last.key},
                                      !.handshakes = @ \ {last.key}]
    IN  IF fault = "updatePeer" THEN Failed(d)
        ELSE IF cfg.key # last.key /\ fault = "deletePeer" THEN Failed(routed)
        ELSE Succeeded(SetConnection(pruned, cfg))

\* Scenario 3 of activate(): switch, then set the resolvers anew.
ActivateBySwitching(d, cfg, fault) ==
    LET switched == SwitchServer(d, cfg, fault)
        restored == [switched.d EXCEPT !.resolvers = FALSE]
    IN  IF ~switched.ok THEN switched
        ELSE IF fault = "restoreResolvers" THEN Failed(switched.d)
        ELSE IF NeedsResolvers(cfg) /\ fault = "updateResolvers" THEN Failed(restored)
        ELSE Pending([restored EXCEPT !.resolvers = NeedsResolvers(cfg)], cfg)

\* Mutant: an interface that cannot be added is not noticed.
BringUpInterfaceUnchecked(d, fault) ==
    IF d.interface # "absent" \/ fault = "addInterface" THEN Succeeded(d)
    ELSE Succeeded([d EXCEPT !.interface = "configured"])

\* The interface is created and configured unless there is one already.
BringUpInterface(d, fault) ==
    IF d.interface # "absent" THEN Succeeded(d)
    ELSE IF fault = "addInterface" THEN Failed(d)
    ELSE IF fault = "configureInterface" THEN Failed([d EXCEPT !.interface = "created"])
    ELSE Succeeded([d EXCEPT !.interface = "configured"])

\* Scenario 1 of activate(): no connection of this hop type.
ActivateAnew(d, cfg, fault) ==
    LET up       == BringUpInterface(d, fault)
        peered   == [up.d EXCEPT !.peers = @ \cup {cfg.key}]
        resolved == [peered EXCEPT !.resolvers = @ \/ NeedsResolvers(cfg)]
    IN  IF ~up.ok THEN up
        ELSE IF fault = "updatePeer" THEN Failed(up.d)
        ELSE IF NeedsResolvers(cfg) /\ fault = "updateResolvers" THEN Failed(peered)
        ELSE IF cfg.ranges # {} /\ fault = "updateRoute" THEN Failed(resolved)
        ELSE Pending([resolved EXCEPT !.routes = @ \cup cfg.ranges], cfg)

\* activate(), with scenario 2 in the middle: deactivate(false) and start anew.
ActivateDaemon(d, cfg, fault) ==
    LET down == DeactivateDaemon(d, FALSE, fault)
    IN  IF cfg.type \notin DOMAIN d.connections THEN ActivateAnew(d, cfg, fault)
        ELSE IF SupportServerSwitching(d, cfg) THEN ActivateBySwitching(d, cfg, fault)
        ELSE IF ~down.ok THEN down
        ELSE ActivateAnew(down.d, cfg, fault)

\* getStatus(): the first connection, if the interface still has its peer.
GetStatusReply(d) ==
    LET first == d.connections[FirstType(d)]
        up    == /\ d.interface # "absent"
                 /\ DOMAIN d.connections # {}
                 /\ first.config.key \in d.peers
    IN  IF up THEN [type |-> "status", connected |-> TRUE, date |-> first.date,
                    hop |-> first.config.type]
        ELSE [type |-> "status", connected |-> FALSE, date |-> FALSE,
              hop |-> "SingleHop"]

\* checkHandshake(): the connections whose peer has completed its handshake are
\* dated and announced in hop order; the others are polled for again.
CheckHandshakeOf(d) ==
    LET done == {t \in DOMAIN d.connections : /\ ~d.connections[t].date
                                              /\ d.connections[t].config.key \in d.handshakes}
        dated == [t \in DOMAIN d.connections |->
                     IF t \in done THEN [d.connections[t] EXCEPT !.date = TRUE]
                     ELSE d.connections[t]]
        told(t) == IF t \in done
                   THEN <<ConnectedMessage(d.connections[t].config.key)>> ELSE <<>>
    IN  [d EXCEPT !.connections = dated,
                  !.handshakeTimer = \E t \in DOMAIN dated : ~dated[t].date,
                  !.out = @ \o told(HopOrder[1]) \o told(HopOrder[2]) \o told(HopOrder[3])]

-----------------------------------------------------------------------------
\* parseCommand() of the socket connection, behind isCommandAuthorizedForPeer().

Authorized(d, type) == d.session \/ type \in {"activate", "status"}

Reply(d, message) == [d EXCEPT !.out = Append(@, message)]

OnCommand(d, command, fault) ==
    LET activated == ActivateDaemon([d EXCEPT !.session = TRUE], command.config, fault)
    IN  CASE ~Authorized(d, command.type) ->
                 IF command.type = "logs" THEN Reply(d, Message("logs")) ELSE d
          [] Authorized(d, command.type) /\ command.type = "activate" ->
                 IF activated.ok THEN activated.d
                 ELSE Reply(activated.d, Message("disconnected"))
          [] Authorized(d, command.type) /\ command.type = "deactivate" ->
                 DeactivateDaemon([d EXCEPT !.session = FALSE], TRUE, fault).d
          [] Authorized(d, command.type) /\ command.type = "status" ->
                 Reply(d, GetStatusReply(d))
          [] Authorized(d, command.type) /\ command.type = "logs" ->
                 Reply(d, Message("logs"))
          [] Authorized(d, command.type) /\ command.type = "cleanlogs" -> d

Commands == [type : {"activate"}, config : Configs]
            \cup [type : {"deactivate", "status", "logs", "cleanlogs"}]
-----------------------------------------------------------------------------
\* `out' holds the messages the last step wrote to the client.
Quiet == [dmn EXCEPT !.out = <<>>]

Stopped == [connections |-> <<>>, handshakeTimer |-> FALSE, session |-> FALSE,
            interface |-> "absent", peers |-> {}, handshakes |-> {}, routes |-> {},
            resolvers |-> FALSE, out |-> <<>>]

Init == dmn = Stopped

Command(command, fault) == dmn' = OnCommand(Quiet, command, fault)

CheckHandshake == dmn.handshakeTimer /\ dmn' = CheckHandshakeOf(Quiet)

\* WireGuard completes a handshake with a peer of the interface.
PeerHandshake(key) ==
    /\ key \in dmn.peers \ dmn.handshakes
    /\ dmn' = [Quiet EXCEPT !.handshakes = @ \cup {key}]

\* Windows: the tunnel service died (monitorBackendFailure).
BackendFailure(fault) ==
    /\ dmn.interface # "absent"
    /\ dmn' = DeactivateDaemon([Quiet EXCEPT !.out = <<Message("backendFailure")>>],
                               TRUE, fault).d

\* A crash and the restart by the service manager, which removes what the
\* previous instance left behind.
Restart == dmn' = Stopped

Next ==
    \/ \E command \in Commands, fault \in Faults \cup {NoFault} : Command(command, fault)
    \/ CheckHandshake
    \/ \E key \in Keys : PeerHandshake(key)
    \/ \E fault \in Faults \cup {NoFault} : BackendFailure(fault)
    \/ Restart

Spec == Init /\ [][Next]_dmn

-----------------------------------------------------------------------------
Connections == UNION {[T -> [config : Configs, date : BOOLEAN]] : T \in SUBSET Types}

TypeOK ==
    /\ dmn.connections \in Connections
    /\ \A t \in DOMAIN dmn.connections : dmn.connections[t].config.type = t
    /\ dmn.handshakeTimer \in BOOLEAN
    /\ dmn.session \in BOOLEAN
    /\ dmn.interface \in {"absent", "created", "configured"}
    /\ dmn.peers \subseteq Keys
    /\ dmn.handshakes \subseteq dmn.peers
    /\ dmn.routes \subseteq Ranges
    /\ dmn.resolvers \in BOOLEAN

\* The messages of a step.
Wrote(type) == \E i \in DOMAIN dmn'.out : dmn'.out[i].type = type

\* A connection can always be taken down: while the daemon keeps one there is a
\* session, without which isCommandAuthorizedForPeer() ignores `deactivate'.
TunnelHasSession == DOMAIN dmn.connections # {} => dmn.session

\* A tunnel without an interface leaves nothing behind in the system.
NothingWithoutInterface ==
    dmn.interface = "absent" =>
        /\ dmn.peers = {} /\ dmn.routes = {}
        /\ DOMAIN dmn.connections = {}

Unpolled(d) == ~d.handshakeTimer /\ \E t \in DOMAIN d.connections : ~d.connections[t].date

\* No activation is forgotten: a connection that waits for its handshake is
\* polled for, or the client was told `disconnected' in the step that left it so.
PolledOrReported == [][Unpolled(dmn)' /\ ~Unpolled(dmn) => Wrote("disconnected")]_dmn

\* Every connection of the daemon has its WireGuard peer on the interface:
\* switchServer() is to "remove the old peer if it is no longer necessary".
ConnectionsHavePeers ==
    \A t \in DOMAIN dmn.connections : dmn.connections[t].config.key \in dmn.peers

=============================================================================
