-------------------- MODULE LocalSocketControllerProofs ---------------------
(***************************************************************************)
(* Proofs about LocalSocketController, for any set of server keys and any  *)
(* pair of retry intervals the second of which is the first, doubled some  *)
(* times over.                                                             *)
(*                                                                         *)
(* The inductive invariant is that the members are well typed, that the    *)
(* interval is a doubling of the initial one within the maximum, that the  *)
(* assertions of the socket slots hold, and that a link which is down has  *)
(* something pending.  None of the last two is inductive without the       *)
(* other: a connection made while the state is not eInitializing would     *)
(* leave its first status unguarded.                                       *)
(***************************************************************************)
EXTENDS LocalSocketController, TLAPS

Members ==
    [daemonState : {"eUnknown", "eInitializing", "eReady"},
     socket : {"closed", "connecting", "open", "broken"},
     interval : Nat,
     initializingTimer : BOOLEAN,
     timeouts : SUBSET {"status", "logs"},
     written : Seq(Outgoing),
     signals : Seq(Signals)]

\* The interval is one the backoff can reach.
BackoffOf(l) ==
    /\ \E p \in Doublings : l.interval = p * CONNECTION_RETRY_INITIAL_MSEC
    /\ l.interval <= CONNECTION_RETRY_MAXIMUM_MSEC

AssertsOf(l) ==
    /\ l.socket = "connecting" => l.daemonState = "eInitializing"
    /\ l.socket \in {"open", "broken"} => l.daemonState # "eUnknown"

PendingOf(l) ==
    /\ l.daemonState # "eUnknown"
    /\ l.daemonState = "eInitializing" \/ l.socket = "closed"
    => \/ l.socket = "connecting"
       \/ l.initializingTimer
       \/ "status" \in l.timeouts

\* A record of members the program can have.
Good(l) == l \in Members /\ BackoffOf(l) /\ AssertsOf(l) /\ PendingOf(l)

-----------------------------------------------------------------------------
\* What the outputs of a step are has no bearing on the rest of the invariant.
LEMMA OutputsGood ==
    ASSUME NEW l, Good(l), NEW w \in Seq(Outgoing), NEW s \in Seq(Signals)
    PROVE  Good([l EXCEPT !.written = w, !.signals = s])
<1>1. l \in Members
  BY DEF Good
<1>2. [l EXCEPT !.written = w, !.signals = s] \in Members
  BY <1>1 DEF Members
<1> QED  BY <1>1, <1>2 DEF Good, BackoffOf, AssertsOf, PendingOf, Members

\* The same for the signals alone.
LEMMA SignalsGood ==
    ASSUME NEW l, Good(l), NEW s \in Seq(Signals)
    PROVE  Good([l EXCEPT !.signals = s])
<1>1. l \in Members
  BY DEF Good
<1>2. [l EXCEPT !.signals = s] \in Members
  BY <1>1 DEF Members
<1> QED  BY <1>1, <1>2 DEF Good, BackoffOf, AssertsOf, PendingOf, Members

\* `Silent' drops the outputs of the last step.
LEMMA SilentGood ==
    ASSUME Good(lsc)
    PROVE  /\ Good(Silent)
           /\ \A f \in {"daemonState", "socket", "interval", "initializingTimer",
                        "timeouts"} : Silent[f] = lsc[f]
<1>1. <<>> \in Seq(Outgoing) /\ <<>> \in Seq(Signals)
  OBVIOUS
<1>2. Good(Silent)
  BY <1>1, OutputsGood DEF Silent
<1>3. lsc \in Members
  BY DEF Good
<1> QED  BY <1>2, <1>3 DEF Silent, Members

\* write() sends a request and may start a response timer.
LEMMA WriteGood ==
    ASSUME NEW l, Good(l), NEW message \in Outgoing,
           NEW expected \in SUBSET {"status", "logs"}
    PROVE  Good(Write(l, message, expected))
<1>1. l \in Members
  BY DEF Good
<1>2. Append(l.written, message) \in Seq(Outgoing)
  BY <1>1 DEF Members
<1>3. Write(l, message, expected) \in Members
  BY <1>1, <1>2 DEF Write, Members
<1>4. /\ Write(l, message, expected).daemonState = l.daemonState
      /\ Write(l, message, expected).socket = l.socket
      /\ Write(l, message, expected).interval = l.interval
      /\ Write(l, message, expected).initializingTimer = l.initializingTimer
      /\ Write(l, message, expected).timeouts = l.timeouts \cup expected
  BY <1>1 DEF Write, Members
<1> QED  BY <1>3, <1>4 DEF Good, BackoffOf, AssertsOf, PendingOf

\* checkStatus()
LEMMA CheckStatusGood ==
    ASSUME NEW l, Good(l)
    PROVE  Good(CheckStatus(l))
<1>1. [type |-> "status"] \in Outgoing
  BY DEF Outgoing
<1> QED  BY <1>1, WriteGood DEF CheckStatus

\* The timer of errorOccurred() is what keeps the link from being stranded.
LEMMA ScheduleReconnectGood ==
    ASSUME NEW l, Good(l), NEW socket \in {l.socket, "closed"}, NEW s \in Seq(Signals)
    PROVE  Good([ScheduleReconnect(l) EXCEPT !.socket = socket, !.signals = s])
<1> DEFINE r == [ScheduleReconnect(l) EXCEPT !.socket = socket, !.signals = s]
<1>1. l \in Members
  BY DEF Good
<1>2. r \in Members
  BY <1>1 DEF ScheduleReconnect, Members
<1>3. /\ r.daemonState = l.daemonState /\ r.socket = socket /\ r.interval = l.interval
      /\ r.initializingTimer = TRUE
  BY <1>1 DEF ScheduleReconnect, Members
<1> QED  BY <1>2, <1>3 DEF Good, BackoffOf, AssertsOf, PendingOf

\* The signals of errorOccurred().
LEMMA ErrorSignalsType ==
    ASSUME NEW l
    PROVE  /\ ErrorSignals(l) \in Seq(Signals)
           /\ ErrorSignals(l) \o ErrorSignals(l) \in Seq(Signals)
<1>1. Signal("disconnected") \in Signals
  BY DEF Signal, Signals
<1>2. ErrorSignals(l) \in Seq(Signals)
  BY <1>1 DEF ErrorSignals
<1> QED  BY <1>2

\* The interval doubles within its bounds: a doubling below the maximum is at
\* most half of it.
LEMMA BackoffStays ==
    ASSUME NEW l, Good(l)
    PROVE  /\ Backoff(l) \in Nat
           /\ \E p \in Doublings : Backoff(l) = p * CONNECTION_RETRY_INITIAL_MSEC
           /\ Backoff(l) <= CONNECTION_RETRY_MAXIMUM_MSEC
<1> DEFINE I == CONNECTION_RETRY_INITIAL_MSEC
           M == CONNECTION_RETRY_MAXIMUM_MSEC
<1>1. I \in Nat \ {0}
  BY RetryAssumption
<1>2. PICK q \in Doublings : M = q * I
  BY RetryAssumption
<1>3. PICK p \in Doublings : l.interval = p * I
  BY DEF Good, BackoffOf
<1>4. l.interval <= M /\ l \in Members
  BY DEF Good, BackoffOf
<1>5. CASE l.daemonState # "eInitializing"
  <2>1. Backoff(l) = I
    BY <1>5 DEF Backoff
  <2>2. 1 \in Doublings /\ I = 1 * I /\ I <= q * I
    BY <1>1, <1>2 DEF Doublings
  <2> QED  BY <2>1, <2>2, <1>1, <1>2
<1>6. CASE l.daemonState = "eInitializing" /\ l.interval < M
  <2>1. Backoff(l) = 2 * l.interval
    BY <1>6 DEF Backoff
  <2>2. p * I < q * I
    BY <1>2, <1>3, <1>6
  <2>3. 2 * p \in Doublings /\ 2 * (p * I) <= q * I /\ 2 * (p * I) = (2 * p) * I
    BY <2>2, <1>1, <1>2, <1>3 DEF Doublings
  <2>4. 2 * (p * I) \in Nat
    BY <1>1, <1>3 DEF Doublings
  <2> QED  BY <2>1, <2>3, <2>4, <1>2, <1>3
<1>7. CASE l.daemonState = "eInitializing" /\ ~(l.interval < M)
  <2>1. Backoff(l) = l.interval
    BY <1>7 DEF Backoff
  <2> QED  BY <2>1, <1>3, <1>4 DEF Members
<1> QED  BY <1>5, <1>6, <1>7

\* initializeInternal() ends with a connection attempt, in eInitializing.
LEMMA InitializeInternalGood ==
    ASSUME NEW l, Good(l)
    PROVE  Good(InitializeInternal(l))
<1> DEFINE r == InitializeInternal(l)
<1>1. l \in Members
  BY DEF Good
<1>2. Backoff(l) \in Nat
  BY BackoffStays
<1>3. r \in Members
  BY <1>1, <1>2 DEF InitializeInternal, ScheduleReconnect, Members
<1>4. r.daemonState = "eInitializing" /\ r.socket = "connecting" /\ r.interval = Backoff(l)
  BY <1>1, <1>2 DEF InitializeInternal, ScheduleReconnect, Members
<1>5. BackoffOf(r)
  BY <1>4, BackoffStays DEF BackoffOf
<1> QED  BY <1>3, <1>4, <1>5 DEF Good, AssertsOf, PendingOf

\* The signals of a first status.
LEMMA InitialStatusSignalsType ==
    ASSUME NEW message \in Messages, message.type = "status"
    PROVE  InitialStatusSignals(message) \in Seq(Signals)
<1>1. message.connected \in BOOLEAN
  BY DEF Messages
<1>2. [name |-> "initialized", connected |-> message.connected] \in Signals
  BY <1>1 DEF Signals
<1> QED  BY <1>2 DEF InitialStatusSignals

\* parseCommand(): the answer that stops the timer of the first status also ends
\* the initialization.
LEMMA ParseCommandGood ==
    ASSUME NEW l, Good(l), l.socket \in {"open", "broken"}, NEW message \in Messages
    PROVE  Good(ParseCommand(l, message))
<1> DEFINE answered == [l EXCEPT !.timeouts = @ \ {message.type}]
           r == ParseCommand(l, message)
<1>1. l \in Members /\ l.daemonState # "eUnknown"
  BY DEF Good, AssertsOf
<1>2. /\ answered \in Members
      /\ answered.daemonState = l.daemonState /\ answered.socket = l.socket
      /\ answered.interval = l.interval
      /\ answered.initializingTimer = l.initializingTimer
      /\ answered.timeouts = l.timeouts \ {message.type}
  BY <1>1 DEF Members
<1>3. l.daemonState = "eReady" => Good(answered)
  BY <1>2 DEF Good, BackoffOf, AssertsOf, PendingOf
<1>4. message.type # "status" => Good(answered)
  BY <1>2 DEF Good, BackoffOf, AssertsOf, PendingOf
<1> HIDE DEF answered
<1>5. CASE l.daemonState = "eInitializing" /\ message.type = "status"
  <2>1. r = [answered EXCEPT !.daemonState = "eReady",
                             !.signals = InitialStatusSignals(message)]
    BY <1>5 DEF ParseCommand, answered
  <2>2. InitialStatusSignals(message) \in Seq(Signals)
    BY <1>5, InitialStatusSignalsType
  <2>3. r \in Members /\ r.daemonState = "eReady" /\ r.socket = l.socket
        /\ r.interval = l.interval
    BY <2>1, <2>2, <1>2 DEF Members
  <2> QED  BY <2>3 DEF Good, BackoffOf, AssertsOf, PendingOf
<1>6. CASE l.daemonState = "eInitializing" /\ message.type # "status"
  BY <1>4, <1>6 DEF ParseCommand, answered
<1>7. CASE l.daemonState = "eReady" /\ message.type = "status"
  <2>1. r = [answered EXCEPT !.signals = StatusSignals(message)]
    BY <1>7 DEF ParseCommand, answered
  <2>2. Signal("statusUpdated") \in Signals
    BY DEF Signal, Signals
  <2>3. StatusSignals(message) \in Seq(Signals)
    BY <2>2 DEF StatusSignals
  <2> QED  BY <2>1, <2>3, <1>3, <1>7, SignalsGood
<1>8. CASE l.daemonState = "eReady" /\ message.type = "disconnected"
  <2>1. r = [answered EXCEPT !.initializingTimer = FALSE,
                             !.signals = <<Signal("disconnected")>>]
    BY <1>8 DEF ParseCommand, answered
  <2>2. <<Signal("disconnected")>> \in Seq(Signals)
    BY DEF Signal, Signals
  <2>3. r \in Members /\ r.daemonState = "eReady" /\ r.socket = l.socket
        /\ r.interval = l.interval
    BY <2>1, <2>2, <1>2, <1>8 DEF Members
  <2> QED  BY <2>3 DEF Good, BackoffOf, AssertsOf, PendingOf
<1>9. CASE l.daemonState = "eReady" /\ message.type = "connected"
  <2>1. r = [answered EXCEPT !.signals = <<[name |-> "connected",
                                            key |-> message.pubkey]>>]
    BY <1>9 DEF ParseCommand, answered
  <2>2. message.pubkey \in Keys
    BY <1>9 DEF Messages
  <2>3. [name |-> "connected", key |-> message.pubkey] \in Signals
    BY <2>2 DEF Signals
  <2>4. <<[name |-> "connected", key |-> message.pubkey]>> \in Seq(Signals)
    BY <2>3
  <2> QED  BY <2>1, <2>4, <1>3, <1>9, SignalsGood
<1>10. CASE l.daemonState = "eReady"
            /\ message.type \notin {"status", "disconnected", "connected"}
  BY <1>3, <1>10 DEF ParseCommand, answered
<1> QED  BY <1>1, <1>5, <1>6, <1>7, <1>8, <1>9, <1>10 DEF Members

\* The calls of the Controller send requests and change nothing else.
LEMMA ControllerCallGood ==
    ASSUME Good(lsc), ControllerCall
    PROVE  Good(lsc')
<1>1. Good(Silent)
  BY SilentGood
<1>2. ASSUME NEW key \in Keys, Activate(key)
      PROVE  Good(lsc')
  <2>1. [type |-> "activate", config |-> key] \in Outgoing
    BY DEF Outgoing
  <2> QED  BY <2>1, <1>1, <1>2, WriteGood DEF Activate, ActivateConfig
<1>3. ASSUME NEW reason \in {"ReasonNone", "ReasonSwitching"}, Deactivate(reason)
      PROVE  Good(lsc')
  <2>1. [type |-> "deactivate"] \in Outgoing /\ <<Signal("disconnected")>> \in Seq(Signals)
    BY DEF Outgoing, Signal, Signals
  <2>2. CASE DeactivateAnswersAtOnce(lsc, reason)
    BY <2>1, <2>2, <1>1, <1>3, SignalsGood DEF Deactivate
  <2>3. CASE ~DeactivateAnswersAtOnce(lsc, reason)
    BY <2>1, <2>3, <1>1, <1>3, WriteGood DEF Deactivate, SendDeactivate
  <2> QED  BY <2>2, <2>3
<1>4. CASE lsc' = CheckStatus(Silent)
  BY <1>1, <1>4, CheckStatusGood
<1>5. CASE lsc' = GetBackendLogs(Silent)
  <2>1. [type |-> "logs"] \in Outgoing
    BY DEF Outgoing
  <2> QED  BY <2>1, <1>1, <1>5, WriteGood DEF GetBackendLogs
<1>6. CASE lsc' = CleanupBackendLogs(Silent)
  <2>1. [type |-> "cleanlogs"] \in Outgoing
    BY DEF Outgoing
  <2> QED  BY <2>1, <1>1, <1>6, WriteGood DEF CleanupBackendLogs
<1> QED  BY <1>2, <1>3, <1>4, <1>5, <1>6 DEF ControllerCall

-----------------------------------------------------------------------------
\* The members the constructor leaves are good.
LEMMA CreatedGood ==
    ASSUME Init
    PROVE  Good(lsc)
<1>1. 1 \in Doublings /\ CONNECTION_RETRY_INITIAL_MSEC \in Nat
      /\ CONNECTION_RETRY_INITIAL_MSEC = 1 * CONNECTION_RETRY_INITIAL_MSEC
      /\ CONNECTION_RETRY_INITIAL_MSEC <= CONNECTION_RETRY_MAXIMUM_MSEC
  BY RetryAssumption DEF Doublings
<1>2. lsc \in Members
  BY <1>1 DEF Init, Created, Members
<1>3. /\ lsc.interval = CONNECTION_RETRY_INITIAL_MSEC
      /\ lsc.daemonState = "eUnknown" /\ lsc.socket = "closed"
  BY DEF Init, Created
<1> QED  BY <1>1, <1>2, <1>3 DEF Good, BackoffOf, AssertsOf, PendingOf

\* Every handler keeps the members good.
LEMMA StepGood ==
    ASSUME Good(lsc), [Next]_lsc
    PROVE  Good(lsc')
<1>1. /\ Good(Silent) /\ Silent.socket = lsc.socket
      /\ Silent.daemonState = lsc.daemonState
  BY SilentGood
<1>2. lsc \in Members
  BY DEF Good
<1>3. CASE Initialize
  BY <1>1, <1>3, InitializeInternalGood DEF Initialize
<1>4. CASE InitializingTimeout
  \* The timer has fired, and the connection attempt takes its place.
  <2> DEFINE fired == [Silent EXCEPT !.initializingTimer = FALSE]
             r == InitializeInternal(fired)
  <2>1. Silent \in Members
    BY <1>1 DEF Good
  <2>2. /\ fired \in Members
        /\ fired.daemonState = Silent.daemonState /\ fired.interval = Silent.interval
    BY <2>1 DEF Members
  <2>3. Backoff(fired) = Backoff(Silent)
    BY <2>2 DEF Backoff
  <2>4. Backoff(fired) \in Nat /\ BackoffOf([interval |-> Backoff(fired)])
    BY <2>3, <1>1, BackoffStays DEF BackoffOf
  <2>5. /\ r \in Members /\ r.daemonState = "eInitializing"
        /\ r.socket = "connecting" /\ r.interval = Backoff(fired)
    BY <2>2, <2>4 DEF InitializeInternal, ScheduleReconnect, Members
  <2>6. Good(r)
    BY <2>4, <2>5 DEF Good, BackoffOf, AssertsOf, PendingOf
  <2> QED  BY <2>6, <1>4 DEF InitializingTimeout
<1>5. CASE SocketConnected
  \* The state is eInitializing, so that the first status is asked for and timed.
  <2> DEFINE opened == [Silent EXCEPT !.socket = "open"]
             r == CheckStatus(opened)
  <2>1. Silent \in Members /\ Silent.daemonState = "eInitializing" /\ BackoffOf(Silent)
    BY <1>1, <1>5 DEF Good, AssertsOf, SocketConnected
  <2>2. /\ opened \in Members /\ opened.daemonState = "eInitializing"
        /\ opened.socket = "open" /\ opened.interval = Silent.interval
    BY <2>1 DEF Members
  <2>3. [type |-> "status"] \in Outgoing
    BY DEF Outgoing
  <2>4. Append(opened.written, [type |-> "status"]) \in Seq(Outgoing)
    BY <2>2, <2>3 DEF Members
  <2> DEFINE w == Append(opened.written, [type |-> "status"])
             t == opened.timeouts \cup {"status"}
  <2>5. r = [opened EXCEPT !.timeouts = t, !.written = w]
    BY <2>2 DEF CheckStatus, Write
  <2> HIDE DEF w, opened, r
  <2>6. /\ r \in Members /\ r.daemonState = "eInitializing" /\ r.socket = "open"
        /\ r.interval = Silent.interval /\ "status" \in r.timeouts
    <3>1. t \in SUBSET {"status", "logs"} /\ w \in Seq(Outgoing)
      BY <2>2, <2>4 DEF Members, w
    <3> QED  BY <3>1, <2>2, <2>5 DEF Members
  <2>7. Good(r)
    BY <2>1, <2>6 DEF Good, BackoffOf, AssertsOf, PendingOf
  <2> QED  BY <2>7, <1>5 DEF SocketConnected, DaemonConnected, r, opened
<1>6. CASE SocketRefused
  BY <1>1, <1>6, ScheduleReconnectGood, ErrorSignalsType DEF SocketRefused
<1>7. CASE DaemonDies
  <2>1. Silent \in Members
    BY <1>1 DEF Good
  <2>2. /\ lsc' \in Members /\ lsc'.socket = "broken"
        /\ lsc'.daemonState = Silent.daemonState /\ lsc'.interval = Silent.interval
        /\ lsc'.initializingTimer = Silent.initializingTimer
        /\ lsc'.timeouts = Silent.timeouts
    BY <2>1, <1>7 DEF DaemonDies, Members
  <2> QED  BY <2>2, <1>1, <1>7 DEF DaemonDies, Good, BackoffOf, AssertsOf, PendingOf
<1>8. CASE SocketClosed
  BY <1>1, <1>8, ScheduleReconnectGood, ErrorSignalsType DEF SocketClosed
<1>9. CASE ResponseTimeout
  <2>1. ScheduleReconnect(Silent) \in Members
        /\ ScheduleReconnect(Silent).socket = Silent.socket
    BY <1>1 DEF Good, ScheduleReconnect, Members
  <2>2. [ScheduleReconnect(Silent) EXCEPT !.signals = ErrorSignals(lsc)]
        = [ScheduleReconnect(Silent) EXCEPT !.socket = Silent.socket,
                                            !.signals = ErrorSignals(lsc)]
    BY <2>1 DEF Members
  <2> QED  BY <2>2, <1>1, <1>9, ScheduleReconnectGood, ErrorSignalsType DEF ResponseTimeout
<1>10. ASSUME NEW message \in Messages, Receive(message)
       PROVE  Good(lsc')
  BY <1>1, <1>10, ParseCommandGood DEF Receive
<1>11. CASE ControllerCall
  BY <1>11, ControllerCallGood
<1>12. CASE UNCHANGED lsc
  BY <1>12 DEF Good, BackoffOf, AssertsOf, PendingOf
<1> QED  BY <1>3, <1>4, <1>5, <1>6, <1>7, <1>8, <1>9, <1>10, <1>11, <1>12 DEF Next

\* The inductive invariant.
Inv == Good(lsc)

\* The members are good in every state the program reaches.
LEMMA AlwaysGood == Spec => []Inv
<1>1. Init => Inv
  BY CreatedGood DEF Inv
<1>2. Inv /\ [Next]_lsc => Inv'
  BY StepGood DEF Inv
<1> QED  BY <1>1, <1>2, PTL DEF Spec

\* Every handler of LocalSocketController leaves well-typed members: only
\* requests for a status or the logs are ever timed.
THEOREM TypeCorrect == Spec => []TypeOK
<1>1. Inv => TypeOK
  BY DEF Inv, Good, TypeOK, Members
<1> QED  BY <1>1, AlwaysGood, PTL

\* initializeInternal() doubles the retry interval from its initial value and
\* never beyond the maximum.
THEOREM BackoffStaysBounded == Spec => []BackoffBounded
<1>1. Inv => BackoffBounded
  <2> SUFFICES ASSUME Inv PROVE BackoffBounded
    OBVIOUS
  <2>1. PICK p \in Doublings : lsc.interval = p * CONNECTION_RETRY_INITIAL_MSEC
    BY DEF Inv, Good, BackoffOf
  <2>2. CONNECTION_RETRY_INITIAL_MSEC \in Nat /\ CONNECTION_RETRY_MAXIMUM_MSEC \in Nat
    BY RetryAssumption DEF Doublings
  <2>3. lsc.interval <= CONNECTION_RETRY_MAXIMUM_MSEC
    BY DEF Inv, Good, BackoffOf
  <2>4. /\ p * CONNECTION_RETRY_INITIAL_MSEC \in Int
        /\ CONNECTION_RETRY_INITIAL_MSEC <= p * CONNECTION_RETRY_INITIAL_MSEC
    BY <2>2 DEF Doublings
  <2> QED  BY <2>1, <2>2, <2>3, <2>4 DEF BackoffBounded
<1> QED  BY <1>1, AlwaysGood, PTL

\* The assertions of daemonConnected() and readData() cannot fail.
THEOREM SocketAssertsHold == Spec => []SocketAsserts
<1>1. Inv => SocketAsserts
  BY DEF Inv, Good, AssertsOf, SocketAsserts
<1> QED  BY <1>1, AlwaysGood, PTL

\* Whenever the link to the daemon is down or initializing, a connection attempt,
\* the reconnection timer or the timer of the first status is pending.
THEOREM LinkNeverStranded == Spec => []NeverStranded
<1>1. Inv => NeverStranded
  BY DEF Inv, Good, PendingOf, NeverStranded
<1> QED  BY <1>1, AlwaysGood, PTL
=============================================================================
