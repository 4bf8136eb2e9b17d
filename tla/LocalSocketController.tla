----------------------- MODULE LocalSocketController ------------------------
(***************************************************************************)
(* The platform controller of macOS and Windows: class                     *)
(* LocalSocketController (src/src/localsocketcontroller.cpp), which talks  *)
(* to the daemon over a local socket.                                      *)
(*                                                                         *)
(* The members are the fields of the record `lsc'.  `socket' is the        *)
(* QLocalSocket: "broken" is an open socket whose peer died and whose end  *)
(* has not been noticed yet; what is written to it, or to a socket that is *)
(* not open, is lost.  `written' and `signals' are the outputs of the last *)
(* step: messages for the daemon and signals for the Controller.           *)
(***************************************************************************)
EXTENDS Integers, Sequences

CONSTANTS
    Keys,                           \* public keys of the servers
    CONNECTION_RETRY_INITIAL_MSEC,  \* 500
    CONNECTION_RETRY_MAXIMUM_MSEC   \* 16000

\* The initial interval doubles to the maximum: 32 times 500 in the code.
Doublings == {1, 2, 4, 8, 16, 32, 64, 128}

ASSUME RetryAssumption ==
    /\ CONNECTION_RETRY_INITIAL_MSEC \in Nat \ {0}
    /\ \E p \in Doublings :
          CONNECTION_RETRY_MAXIMUM_MSEC = p * CONNECTION_RETRY_INITIAL_MSEC

VARIABLE lsc

Signal(name) == [name |-> name]

-----------------------------------------------------------------------------
\* Mutant: the timer is named after the request.
WriteMisnamed(l, message, expected) ==
    [l EXCEPT !.timeouts = @ \cup {message.type},
              !.written = IF l.socket = "open" THEN Append(@, message) ELSE @]

\* write(): a response timer guards a message that expects an answer.
Write(l, message, expected) ==
    [l EXCEPT !.timeouts = @ \cup expected,
              !.written = IF l.socket = "open" THEN Append(@, message) ELSE @]

CheckStatus(l) ==
    IF l.daemonState = "eUnknown" THEN l
    ELSE Write(l, [type |-> "status"], {"status"})

ActivateConfig(l, config) == Write(l, [type |-> "activate", config |-> config], {})

\* deactivate() when it does not answer `disconnected' by itself.
SendDeactivate(l) == Write(l, [type |-> "deactivate"], {})

DeactivateAnswersAtOnce(l, reason) ==
    l.daemonState # "eReady" \/ reason = "ReasonSwitching"

GetBackendLogs(l) ==
    IF l.daemonState # "eReady" THEN l ELSE Write(l, [type |-> "logs"], {})

CleanupBackendLogs(l) ==
    IF l.daemonState # "eReady" THEN l ELSE Write(l, [type |-> "cleanlogs"], {"logs"})

\* errorOccurred(): the signal first, then the response timers are dropped and a
\* reconnection is scheduled.
ErrorSignals(l) ==
    IF l.daemonState # "eInitializing" THEN <<Signal("disconnected")>> ELSE <<>>

\* Mutant: no reconnection is scheduled.
ScheduleReconnectNever(l) == [l EXCEPT !.timeouts = {}]

ScheduleReconnect(l) == [l EXCEPT !.timeouts = {}, !.initializingTimer = TRUE]

\* Mutant: the interval doubles without end.
BackoffUnlimited(l) ==
    IF l.daemonState # "eInitializing" THEN CONNECTION_RETRY_INITIAL_MSEC
    ELSE 2 * l.interval

\* The retry interval of initializeInternal().
Backoff(l) ==
    CASE l.daemonState # "eInitializing" -> CONNECTION_RETRY_INITIAL_MSEC
      [] l.daemonState = "eInitializing" /\ l.interval < CONNECTION_RETRY_MAXIMUM_MSEC ->
             2 * l.interval
      [] OTHER -> l.interval

\* Mutant: the state is left as it was.
InitializeInternalStateless(l) ==
    LET aborted == IF l.socket \in {"open", "broken"} THEN ScheduleReconnect(l) ELSE l
    IN  [aborted EXCEPT !.interval = Backoff(l), !.socket = "connecting"]

\* initializeInternal(): aborting an open socket makes it signal `disconnected',
\* whose slot is errorOccurred().
InitializeInternal(l) ==
    LET initializing == [l EXCEPT !.interval = Backoff(l), !.daemonState = "eInitializing"]
        aborted == IF l.socket \in {"open", "broken"}
                   THEN ScheduleReconnect(initializing) ELSE initializing
    IN  [aborted EXCEPT !.socket = "connecting"]

\* daemonConnected()
DaemonConnected(l) == CheckStatus([l EXCEPT !.socket = "open"])

\* emitStatusFromJson(): a status without a connection has none of its fields.
StatusSignals(message) ==
    IF message.connected THEN <<Signal("statusUpdated")>> ELSE <<>>

\* Mutant: any answer passes for a connection.
InitialStatusSignalsBlind(message) == <<[name |-> "initialized", connected |-> TRUE]>>

\* The first status after a (re)connection: a connection without a valid date
\* is an error that is only logged.
InitialStatusSignals(message) ==
    IF message.connected /\ ~message.date THEN <<>>
    ELSE <<[name |-> "initialized", connected |-> message.connected]>>

\* parseCommand()
ParseCommand(l, message) ==
    LET answered == [l EXCEPT !.timeouts = @ \ {message.type}]
    IN  CASE l.daemonState = "eInitializing" /\ message.type = "status" ->
                 [answered EXCEPT !.daemonState = "eReady",
                                  !.signals = InitialStatusSignals(message)]
          [] l.daemonState = "eInitializing" /\ message.type # "status" -> answered
          [] l.daemonState = "eReady" /\ message.type = "status" ->
                 [answered EXCEPT !.signals = StatusSignals(message)]
          [] l.daemonState = "eReady" /\ message.type = "disconnected" ->
                 [answered EXCEPT !.initializingTimer = FALSE,
                                  !.signals = <<Signal("disconnected")>>]
          [] l.daemonState = "eReady" /\ message.type = "connected" ->
                 [answered EXCEPT !.signals = <<[name |-> "connected",
                                                 key |-> message.pubkey]>>]
          [] OTHER -> answered
-----------------------------------------------------------------------------
\* The actions, against a daemon that may send anything at any time.

Silent == [lsc EXCEPT !.written = <<>>, !.signals = <<>>]

Messages == [type : {"status"}, connected : BOOLEAN, date : BOOLEAN]
            \cup [type : {"connected"}, pubkey : Keys]
            \cup [type : {"disconnected", "logs", "backendFailure"}]

Created == [daemonState |-> "eUnknown", socket |-> "closed",
            interval |-> CONNECTION_RETRY_INITIAL_MSEC, initializingTimer |-> FALSE,
            timeouts |-> {}, written |-> <<>>, signals |-> <<>>]

Init == lsc = Created

Initialize == lsc.daemonState = "eUnknown" /\ lsc' = InitializeInternal(Silent)

InitializingTimeout ==
    /\ lsc.initializingTimer
    /\ lsc' = InitializeInternal([Silent EXCEPT !.initializingTimer = FALSE])

SocketConnected == lsc.socket = "connecting" /\ lsc' = DaemonConnected(Silent)

\* errorOccurred() of a connection attempt that nobody answers.
SocketRefused ==
    /\ lsc.socket = "connecting"
    /\ lsc' = [ScheduleReconnect(Silent) EXCEPT !.socket = "closed",
                                                !.signals = ErrorSignals(lsc)]

DaemonDies == lsc.socket = "open" /\ lsc' = [Silent EXCEPT !.socket = "broken"]

\* The end of the socket is signalled twice: as an error and as disconnected.
SocketClosed ==
    /\ lsc.socket = "broken"
    /\ lsc' = [ScheduleReconnect(Silent) EXCEPT
                   !.socket = "closed",
                   !.signals = ErrorSignals(lsc) \o ErrorSignals(lsc)]

ResponseTimeout ==
    /\ lsc.timeouts # {}
    /\ lsc' = [ScheduleReconnect(Silent) EXCEPT !.signals = ErrorSignals(lsc)]

Receive(message) ==
    /\ lsc.socket \in {"open", "broken"}
    /\ lsc' = ParseCommand(Silent, message)

Activate(config) == lsc' = ActivateConfig(Silent, config)

Deactivate(reason) ==
    lsc' = IF DeactivateAnswersAtOnce(lsc, reason)
           THEN [Silent EXCEPT !.signals = <<Signal("disconnected")>>]
           ELSE SendDeactivate(Silent)

ControllerCall ==
    \/ \E key \in Keys : Activate(key)
    \/ \E reason \in {"ReasonNone", "ReasonSwitching"} : Deactivate(reason)
    \/ lsc' = CheckStatus(Silent)
    \/ lsc' = GetBackendLogs(Silent)
    \/ lsc' = CleanupBackendLogs(Silent)

Next ==
    \/ Initialize \/ InitializingTimeout
    \/ SocketConnected \/ SocketRefused \/ DaemonDies \/ SocketClosed
    \/ ResponseTimeout
    \/ \E message \in Messages : Receive(message)
    \/ lsc.daemonState # "eUnknown" /\ ControllerCall

Spec == Init /\ [][Next]_lsc

\* The daemon answers a request for its status.
StatusAnswer ==
    /\ lsc.socket = "open" /\ "status" \in lsc.timeouts
    /\ \E connected \in BOOLEAN :
          Receive([type |-> "status", connected |-> connected, date |-> connected])

\* Timers fire, a connection attempt is answered or refused, and so is a request
\* for the status.
FairSpec ==
    /\ Spec
    /\ WF_lsc(Initialize)
    /\ WF_lsc(InitializingTimeout)
    /\ WF_lsc(SocketConnected \/ SocketRefused)
    /\ WF_lsc(SocketClosed)
    /\ WF_lsc(StatusAnswer \/ ResponseTimeout)

-----------------------------------------------------------------------------
Outgoing ==
    [type : {"status", "deactivate", "logs", "cleanlogs"}]
    \cup [type : {"activate"}, config : Keys]

Signals ==
    [name : {"disconnected", "statusUpdated"}]
    \cup [name : {"connected"}, key : Keys]
    \cup [name : {"initialized"}, connected : BOOLEAN]

\* Types: only answers the client asks for have a timer.
TypeOK ==
    lsc \in [daemonState : {"eUnknown", "eInitializing", "eReady"},
             socket : {"closed", "connecting", "open", "broken"},
             interval : Nat,
             initializingTimer : BOOLEAN,
             timeouts : SUBSET {"status", "logs"},
             written : Seq(Outgoing),
             signals : Seq(Signals)]

\* The backoff doubles from its initial value and stops at its maximum exactly.
BackoffBounded ==
    lsc.interval \in CONNECTION_RETRY_INITIAL_MSEC..CONNECTION_RETRY_MAXIMUM_MSEC

\* daemonConnected() asserts that it answers an initialization, and readData()
\* that there was one (localsocketcontroller.cpp:121 and 205).
SocketAsserts ==
    /\ lsc.socket = "connecting" => lsc.daemonState = "eInitializing"
    /\ lsc.socket \in {"open", "broken"} => lsc.daemonState # "eUnknown"

\* The client is never stranded without its daemon: whenever the link is down or
\* still initializing, something is pending that will move it on: a connection
\* attempt, a reconnection timer or the timer that guards the first status.
NeverStranded ==
    /\ lsc.daemonState # "eUnknown"
    /\ lsc.daemonState = "eInitializing" \/ lsc.socket = "closed"
    => \/ lsc.socket = "connecting"
       \/ lsc.initializingTimer
       \/ "status" \in lsc.timeouts

\* The daemon is slow to answer, or not there.
Fault ==
    \/ ResponseTimeout \/ SocketRefused \/ DaemonDies
    \/ InitializingTimeout /\ lsc.socket = "open" /\ "status" \in lsc.timeouts

\* The backoff of initializeInternal() is there to "reconnect gracefully"
\* (localsocketcontroller.cpp:104): once the daemon stays up, takes every
\* connection and answers before a timer runs out, the link is ready again and
\* again, whatever timers, errors and answers of earlier connections are pending.
\* (It need not stay ready: the timer an aborted socket arms may abort the next.)
Reconnects ==
    <>[][~Fault]_lsc => []<>(lsc.daemonState = "eReady" /\ lsc.socket = "open")
=============================================================================
