------------------------------- MODULE System -------------------------------
(***************************************************************************)
(* The client and its daemon on macOS or Windows: Controller,              *)
(* LocalSocketController and Daemon composed over the two directions of    *)
(* the local socket.                                                       *)
(*                                                                         *)
(* Client objects live in one thread, so a socket event, a timer or a user *)
(* command runs through LocalSocketController and Controller, and through  *)
(* the calls they make of each other, in a single step.  The daemon is a   *)
(* process of its own: it reads commands, polls for handshakes, mishaps    *)
(* and restarts in between.                                                *)
(***************************************************************************)
EXTENDS Integers, Sequences, FiniteSets

CONSTANTS
    Servers, NoServer, Locations, ExitServers, EntryServers, MultihopLocations,
    MultihopSupported, CONNECTION_MAX_RETRY, Worlds, MaxRequests,
    CONNECTION_RETRY_INITIAL_MSEC, CONNECTION_RETRY_MAXIMUM_MSEC,
    Faults,
    Internet,      \* the address ranges an exit hop routes
    Identity,      \* the keys and addresses of the device
    Requests,      \* what users may ask for
    Askers,        \* the principals that ask: the client's user, the extension
    MaxCommands,   \* bound on the user commands of a behaviour
    MaxMishaps,    \* bound on crashes, late answers of the daemon, client restarts
    Restarts,      \* whether the client restarts
    MaxOrphans     \* bound on the unread commands a new socket leaves behind

VARIABLES
    ctl, lsc, dmn,
    up, down,      \* the socket: client to daemon, daemon to client
    orphans,       \* how many commands in `up' a socket since aborted has left
    commands, mishaps

vars == <<ctl, lsc, dmn, up, down, orphans, commands, mishaps>>

InterfaceConfig(hop, exit) ==
    [type |-> hop.type, key |-> hop.key, identity |-> Identity,
     ranges |-> IF hop.type = "MultiHopEntry" THEN {exit} ELSE {Internet}]

Types == {"SingleHop", "MultiHopEntry", "MultiHopExit"}
InterfaceConfigs ==
    {InterfaceConfig([type |-> type, key |-> key], exit) :
        type \in Types, key \in Servers, exit \in Servers}

\* What the signals of the platform controller tell the Controller of the link.
Link == CASE lsc.daemonState = "eReady" /\ lsc.socket \in {"open", "broken"}
                 /\ ~lsc.initializingTimer -> "ready"
          [] lsc.daemonState = "eUnknown" -> "initializing"
          [] OTHER -> "lost"

C == INSTANCE Controller WITH link <- Link
L == INSTANCE LocalSocketController WITH Keys <- Servers
D == INSTANCE Daemon WITH Configs <- InterfaceConfigs

ASSUME SystemAssumption ==
    /\ NoServer \notin Servers
    /\ ExitServers \in [Locations -> SUBSET Servers]
    /\ EntryServers \in [Locations -> SUBSET Servers]
    /\ MultihopSupported \in BOOLEAN
    /\ Worlds \subseteq [servers : SUBSET Servers, device : BOOLEAN,
                         exitPick : Servers, entryPick : Servers]
    /\ Faults \subseteq D!AllFaults
    /\ Requests \subseteq {"activate", "deactivate", "switch", "silentSwitch",
                           "getStatus", "quit", "cleanlogs"}
    /\ Askers \subseteq C!Users

-----------------------------------------------------------------------------
\* The calls a Controller handler made, carried out by LocalSocketController.

Carry(l, call, exit) ==
    CASE call.op = "activate" -> L!ActivateConfig(l, InterfaceConfig(call.hop, exit))
      [] call.op = "deactivate" -> L!SendDeactivate(l)
      [] call.op = "checkStatus" -> L!CheckStatus(l)

\* A handler makes at most two calls.
CarryAll(l, c) ==
    LET n     == Len(c.calls)
        first == IF n = 0 THEN l ELSE Carry(l, c.calls[1], c.server.exit)
    IN  IF n < 2 THEN first ELSE Carry(first, c.calls[2], c.server.exit)

ReadyOf(l) == l.daemonState = "eReady"

\* A client step ends in records c and l; what l wrote goes onto the socket.
ClientStep(c, l) ==
    /\ ctl' = c
    /\ lsc' = l
    /\ up' = up \o l.written
    /\ UNCHANGED orphans

\* The slot of the Controller for one signal of LocalSocketController.
Slot(c, signal, l, w) ==
    CASE signal.name = "disconnected" -> C!OnDisconnected(c, w)
      [] signal.name = "connected" -> C!OnConnected(c, signal.key, ReadyOf(l), w)
      [] signal.name = "initialized" -> C!OnInitialized(c, TRUE, signal.connected)
      [] signal.name = "statusUpdated" -> [c EXCEPT !.statusCallbacks = FALSE]

\* errorOccurred(): the signal and what the Controller makes of it come before
\* the response timers are dropped.
ErrorOccurred(c, l, w) ==
    LET told == IF L!ErrorSignals(l) = <<>> THEN [c EXCEPT !.calls = <<>>]
                ELSE C!OnDisconnected([c EXCEPT !.calls = <<>>], w)
    IN  [c |-> told, l |-> L!ScheduleReconnect(CarryAll(l, told))]

-----------------------------------------------------------------------------
Init ==
    /\ \E loc \in Locations, b \in BOOLEAN : ctl = C!Constructed(loc, b)
    /\ lsc = L!InitializeInternal(L!Created)
    /\ dmn = D!Stopped
    /\ up = <<>> /\ down = <<>> /\ orphans = 0
    /\ commands = 0 /\ mishaps = 0

\* A user command, a call of a Controller method.
CommandResult(command, c, loc, user, ready, w) ==
    CASE command = "activate" ->
             C!Activate(c, C!ServerDataOf(loc), user, "RandomizeServerSelection", TRUE, w)
      [] command = "deactivate" -> C!Deactivate(c, user, ready, w)
      [] command = "switch" ->
             IF c.state = "Off" THEN c
             ELSE C!SwitchTo(c, C!ServerDataOf(loc), "RandomizeServerSelection",
                             "Switching", ready, w)
      [] command = "silentSwitch" ->
             IF c.state # "On" THEN c
             ELSE C!SwitchTo(c, c.server, "DoNotRandomizeServerSelection",
                             "SilentSwitching", ready, w)
      [] command = "getStatus" -> C!GetStatusOf(c)
      [] command = "quit" -> C!OnQuit(c, ready, w)

UserCommand(command, loc, user, w) ==
    /\ commands < MaxCommands
    /\ command = "activate" => ctl.requests[user] < MaxRequests
    /\ command = "getStatus" => ctl.state \in {"On", "OnPartial"}    \* ConnectionHealth
    /\ LET c == CommandResult(command, C!Fresh, loc, user, ReadyOf(lsc), w)
       IN  ClientStep(c, CarryAll(L!Silent, c))
    /\ commands' = commands + 1
    /\ UNCHANGED <<dmn, down, mishaps>>

\* cleanupLogsNeeded: the Controller passes it on.
CleanupLogs ==
    /\ "cleanlogs" \in Requests
    /\ commands < MaxCommands
    /\ ClientStep(C!Fresh, L!CleanupBackendLogs(L!Silent))
    /\ commands' = commands + 1
    /\ UNCHANGED <<dmn, down, mishaps>>

AccountReply(user, w) ==
    /\ ctl.requests[user] > 0
    /\ LET c == C!StartActivation([C!Fresh EXCEPT !.requests[user] = @ - 1],
                                  "RandomizeServerSelection", user, w)
       IN  ClientStep(c, CarryAll(L!Silent, c))
    /\ UNCHANGED <<dmn, down, commands, mishaps>>

HandshakeTimeout(w) ==
    /\ ctl.handshakeTimer
    /\ LET c == C!OnHandshakeTimeout([C!Fresh EXCEPT !.handshakeTimer = FALSE],
                                     ReadyOf(lsc), w)
       IN  ClientStep(c, CarryAll(L!Silent, c))
    /\ UNCHANGED <<dmn, down, commands, mishaps>>

\* readData() and parseCommand(), with the slot of the signal they emit.
ClientReceive(w) ==
    /\ lsc.socket \in {"open", "broken"}
    /\ down # <<>>
    /\ LET l == L!ParseCommand(L!Silent, Head(down))
           c == IF l.signals = <<>> THEN C!Fresh ELSE Slot(C!Fresh, l.signals[1], l, w)
       IN  ClientStep(c, CarryAll(l, c))
    /\ down' = Tail(down)
    /\ UNCHANGED <<dmn, commands, mishaps>>

\* No answer in time: there is none to come, or (a mishap) it is late.
ResponseTimeout(w) ==
    /\ lsc.timeouts # {}
    /\ LET unanswerable == lsc.socket # "open" \/ (up = <<>> /\ down = <<>>)
       IN  /\ unanswerable \/ mishaps < MaxMishaps
           /\ mishaps' = IF unanswerable THEN mishaps ELSE mishaps + 1
    /\ LET e == ErrorOccurred(C!Fresh, L!Silent, w) IN ClientStep(e.c, e.l)
    /\ UNCHANGED <<dmn, down, commands>>

\* The socket of a dead daemon ends after the last message: two errors.
SocketClosed(w) ==
    /\ lsc.socket = "broken"
    /\ down = <<>>
    /\ LET first == ErrorOccurred(C!Fresh, [L!Silent EXCEPT !.socket = "closed"], w)
           again == ErrorOccurred(first.c, first.l, w)
       IN  ClientStep(again.c, again.l)
    /\ UNCHANGED <<dmn, down, commands, mishaps>>

\* The socket is aborted: what was flushed into it still reaches the daemon.
InitializingTimeout ==
    /\ lsc.initializingTimer
    /\ Len(up) <= MaxOrphans
    /\ ctl' = C!Fresh
    /\ lsc' = L!InitializeInternal([L!Silent EXCEPT !.initializingTimer = FALSE])
    /\ down' = <<>>
    /\ orphans' = Len(up)
    /\ UNCHANGED <<dmn, up, commands, mishaps>>

SocketConnected ==
    /\ lsc.socket = "connecting"
    /\ ClientStep(C!Fresh, L!DaemonConnected(L!Silent))
    /\ UNCHANGED <<dmn, down, commands, mishaps>>

\* The client quits or crashes, and is started again: its socket is gone, what was
\* flushed into it still reaches the daemon, and the daemon keeps the tunnel.
ClientRestart ==
    /\ Restarts
    /\ mishaps < MaxMishaps
    /\ Len(up) <= MaxOrphans
    /\ \E loc \in Locations, b \in BOOLEAN : ctl' = C!Constructed(loc, b)
    /\ lsc' = L!InitializeInternal(L!Created)
    /\ down' = <<>>
    /\ orphans' = Len(up)
    /\ mishaps' = mishaps + 1
    /\ UNCHANGED <<dmn, up, commands>>

-----------------------------------------------------------------------------
\* The daemon's steps.  Its messages are lost when nobody is connected.

DaemonStep(d) ==
    /\ dmn' = d
    /\ down' = IF lsc.socket = "open" THEN down \o d.out ELSE down

\* A command is answered on the socket it came from; only the signals of the
\* Daemon object reach the socket that replaced it.
DaemonReceive(fault) ==
    /\ up # <<>>
    /\ lsc.socket = "open" \/ orphans > 0
    /\ LET d == D!OnCommand(D!Quiet, Head(up), fault)
       IN  DaemonStep(IF orphans > 0 /\ Head(up).type # "deactivate"
                      THEN [d EXCEPT !.out = <<>>] ELSE d)
    /\ up' = Tail(up)
    /\ orphans' = IF orphans > 0 THEN orphans - 1 ELSE 0
    /\ UNCHANGED <<ctl, lsc, commands, mishaps>>

CheckHandshake ==
    /\ dmn.handshakeTimer
    /\ DaemonStep(D!CheckHandshakeOf(D!Quiet))
    /\ UNCHANGED <<ctl, lsc, up, orphans, commands, mishaps>>

PeerHandshake(key) ==
    /\ D!PeerHandshake(key)
    /\ UNCHANGED <<ctl, lsc, up, down, orphans, commands, mishaps>>

\* A crash and the restart of the daemon: the socket is broken, the commands it
\* held are lost, the answers on their way are still read.
DaemonCrash ==
    /\ mishaps < MaxMishaps
    /\ dmn' = D!Stopped
    /\ lsc' = IF lsc.socket = "open" THEN [L!Silent EXCEPT !.socket = "broken"] ELSE lsc
    /\ up' = <<>> /\ orphans' = 0
    /\ mishaps' = mishaps + 1
    /\ UNCHANGED <<ctl, down, commands>>

-----------------------------------------------------------------------------
ClientNext ==
    \/ \E command \in Requests \ {"cleanlogs"}, loc \in Locations, user \in Askers,
          w \in Worlds : UserCommand(command, loc, user, w)
    \/ CleanupLogs
    \/ \E user \in C!Users, w \in Worlds : AccountReply(user, w)
    \/ \E w \in Worlds : HandshakeTimeout(w)
    \/ \E w \in Worlds : ClientReceive(w)
    \/ \E w \in Worlds : ResponseTimeout(w)
    \/ \E w \in Worlds : SocketClosed(w)
    \/ InitializingTimeout
    \/ SocketConnected

DaemonNext ==
    \/ \E fault \in Faults \cup {D!NoFault} : DaemonReceive(fault)
    \/ CheckHandshake
    \/ \E key \in Servers : PeerHandshake(key)
    \/ DaemonCrash

Next ==
    \/ C!Running /\ ClientNext
    \/ ClientRestart
    \/ DaemonNext
    \/ ~C!Running /\ UNCHANGED vars

Spec == Init /\ [][Next]_vars

-----------------------------------------------------------------------------
\* No message is on its way, and the socket is up and initialized.
Settled ==
    /\ up = <<>> /\ down = <<>>
    /\ lsc.socket = "open" /\ lsc.daemonState = "eReady" /\ ~lsc.initializingTimer

\* "On" is never an illusion: when the messages have been delivered the daemon
\* does have a connection, over a WireGuard peer, that routes to the internet.
OnHasTunnel ==
    Settled /\ ctl.state = "On" =>
        \E t \in DOMAIN dmn.connections :
            /\ Internet \in dmn.connections[t].config.ranges
            /\ dmn.connections[t].config.key \in dmn.peers

\* ControllerImpl::deactivate "terminates the VPN tunnel" (controllerimpl.h:46):
\* when the messages have been delivered and no attempt is pending, an Off client
\* has no connection in the daemon.
OffHasNoTunnel ==
    Settled /\ ctl.state = "Off" /\ ctl.queue = <<>> => DOMAIN dmn.connections = {}
=============================================================================
