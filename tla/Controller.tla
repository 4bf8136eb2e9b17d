----------------------------- MODULE Controller -----------------------------
(***************************************************************************)
(* The client's connection state machine: class Controller, translated     *)
(* from src/src/controller.cpp for the desktop builds (MZ_LINUX,           *)
(* MZ_WINDOWS, MZ_MACOS).                                                  *)
(*                                                                         *)
(* The members of the object are the fields of the record `ctl'.  A method *)
(* is an operator from such a record to the record it leaves behind, so    *)
(* that the calls a method makes are nested the way the code nests them    *)
(* and an action below is a whole handler, run to completion by the Qt     *)
(* event loop.  `link' is the state of the platform controller behind the  *)
(* ControllerImpl interface as far as its signals let the Controller know: *)
(* it initializes, answers, is lost and initializes again.                 *)
(*                                                                         *)
(* A `world' w is what a handler reads of the rest of the application: the *)
(* servers the country model lists at that moment, whether the current     *)
(* device is known, and the servers the random weights pick.               *)
(*                                                                         *)
(* Three fields are outputs of the last handler and not members: the       *)
(* `calls' of the platform controller, the states `announced' through      *)
(* stateChanged(), both in their order, and the other signals `emitted'.   *)
(***************************************************************************)
EXTENDS Integers, Sequences, FiniteSets, ControllerStates

CONSTANTS
    Servers,               \* public keys of the servers
    NoServer,              \* "no key", an empty QString
    Locations,             \* what a ServerData selects: exit (and entry) city
    ExitServers,           \* [Locations -> SUBSET Servers], ServerData::exitServers
    EntryServers,          \* [Locations -> SUBSET Servers], ServerData::entryServers
    MultihopLocations,     \* locations with an entry city, ServerData::multihop
    MultihopSupported,     \* ControllerImpl::multihopSupported
    CONNECTION_MAX_RETRY,  \* 9 in the code
    Worlds,                \* what a handler may find in the rest of the application
    MaxRequests            \* bound on the account requests in flight

ASSUME ServersAssumption ==
    /\ NoServer \notin Servers
    /\ ExitServers \in [Locations -> SUBSET Servers]
    /\ EntryServers \in [Locations -> SUBSET Servers]
    /\ MultihopLocations \subseteq Locations
    /\ MultihopSupported \in BOOLEAN

ASSUME WorldsAssumption ==
    Worlds \subseteq [servers : SUBSET Servers, device : BOOLEAN,
                      exitPick : Servers, entryPick : Servers]

ASSUME BoundsAssumption ==
    /\ CONNECTION_MAX_RETRY \in Nat /\ CONNECTION_MAX_RETRY > 1
    /\ MaxRequests \in Nat

VARIABLES ctl, link

vars == <<ctl, link>>

-----------------------------------------------------------------------------
States == {"Initializing", "Off", "Connecting", "Confirming", "On", "OnPartial",
           "Disconnecting", "SilentSwitching", "Switching"}

NextSteps == {"None", "Quit", "Update", "Disconnect"}

\* enum ActivationPrincipal: the order is the permission to deactivate.
Principals == {"Null", "ExtensionUser", "ClientUser"}
Rank(p) == CASE p = "Null" -> 0 [] p = "ExtensionUser" -> 1 [] p = "ClientUser" -> 2
Users == {"ExtensionUser", "ClientUser"}

Policies == {"RandomizeServerSelection", "DoNotRandomizeServerSelection"}

HopTypes == {"SingleHop", "MultiHopEntry", "MultiHopExit"}
Hop == [key : Servers, type : HopTypes]

ServerData == [loc : Locations, entry : Servers \cup {NoServer},
               exit : Servers \cup {NoServer}]

ServerDataOf(loc) == [loc |-> loc, entry |-> NoServer, exit |-> NoServer]


\* Calls of the platform controller, in the order a handler makes them.
ImplCall(op, hop) == [op |-> op, hop |-> hop]
NoHop == [key |-> NoServer, type |-> "SingleHop"]
ImplCalls == [op : {"activate", "deactivate", "checkStatus"}, hop : Hop \cup {NoHop}]

Signals == {"readyToQuit", "readyToUpdate", "readyToServerUnavailable",
            "activationBlockedForCaptivePortal", "recordConnectionStart",
            "recordConnectionEnd", "reset"}

\* Mutant: a disconnection passes for a server switch.
StateToReasonWide(s) ==
    IF s \in {"Switching", "SilentSwitching", "Disconnecting"} THEN "ReasonSwitching"
    ELSE "ReasonNone"

StateToReason(s) ==
    CASE s \in {"Switching", "SilentSwitching"} -> "ReasonSwitching"
      [] s = "Confirming" -> "ReasonConfirming"
      [] OTHER -> "ReasonNone"

-----------------------------------------------------------------------------
\* The small methods every handler is made of.

Emit(c, signals) == [c EXCEPT !.emitted = @ \cup signals]

Call(c, call) == [c EXCEPT !.calls = Append(@, call)]

\* Mutant: the flag outlives the state it was set in.
SetStateKeepsFlag(c, s) ==
    IF c.state = s THEN c
    ELSE [c EXCEPT !.state = s, !.announced = Append(@, s),
                   !.connectingTimer = (s = "Confirming")]

\* setState() with the slot of its signal, maybeEnableDisconnectInConfirming().
SetState(c, s) ==
    IF c.state = s THEN c
    ELSE [c EXCEPT !.state = s, !.announced = Append(@, s),
                   !.enableDisconnectInConfirming = FALSE,
                   !.connectingTimer = (s = "Confirming")]

ClearConnectedTime(c) ==
    [c EXCEPT !.connectedTime = @ /\ c.isSwitchingServer, !.timer = FALSE]

ResetConnectedTime(c) ==
    [c EXCEPT !.connectedTime = @ \/ ~c.isSwitchingServer, !.timer = TRUE]

ClearRetryCounter(c) == [c EXCEPT !.retry = 0]

\* Mutant: the handshake timer is forgotten.
AbandonAttemptKeepsTimer(c) ==
    ClearRetryCounter(ClearConnectedTime([c EXCEPT !.queue = <<>>]))

\* What deactivate() and disconnected() both do to an attempt in progress.
AbandonAttempt(c) ==
    ClearRetryCounter(ClearConnectedTime(
        [c EXCEPT !.handshakeTimer = FALSE, !.queue = <<>>]))

ReadySignals(step) ==
    CASE step = "Quit" -> {"readyToQuit"}
      [] step = "Update" -> {"readyToUpdate"}
      [] OTHER -> {}

\* processNextStep(): the step is consumed, whatever it is.
ProcessNextStep(c) ==
    Emit([c EXCEPT !.nextStep = "None"], ReadySignals(c.nextStep))

\* getStatus(): only the first waiting callback sends a request.
GetStatusOf(c) ==
    IF c.statusCallbacks THEN c
    ELSE Call([c EXCEPT !.statusCallbacks = TRUE], ImplCall("checkStatus", NoHop))

ServerUnavailable(c) == Emit(c, {"readyToServerUnavailable"})

-----------------------------------------------------------------------------
\* The activation chain: activate() -> activateInternal() -> activateNext().

\* Server::weightChooser(): any of the servers, as the random number falls; an
\* uninitialized Server when there are none.
WeightChooser(servers, pick) ==
    IF servers = {} THEN NoServer
    ELSE IF pick \in servers THEN pick
    ELSE CHOOSE s \in servers : TRUE

\* The remembered key is used, if still listed, when the policy keeps it.
ChooseServer(policy, key, listed, pick, w) ==
    IF policy = "DoNotRandomizeServerSelection" /\ key # NoServer
    THEN IF key \in w.servers THEN key ELSE NoServer
    ELSE WeightChooser(listed \cap w.servers, pick)

\* Mutant: the exit hop is queued first.
HopsReversed(loc, entry, exit) ==
    IF loc \in MultihopLocations /\ MultihopSupported
    THEN <<[key |-> exit, type |-> "MultiHopExit"],
           [key |-> entry, type |-> "MultiHopEntry"]>>
    ELSE <<[key |-> exit, type |-> "SingleHop"]>>

Hops(loc, entry, exit) ==
    IF loc \in MultihopLocations /\ MultihopSupported
    THEN <<[key |-> entry, type |-> "MultiHopEntry"],
           [key |-> exit, type |-> "MultiHopExit"]>>
    ELSE <<[key |-> exit, type |-> "SingleHop"]>>

ActivateNext(c, w) ==
    LET started == Call([c EXCEPT !.handshakeTimer = TRUE],
                        ImplCall("activate", Head(c.queue)))
    IN  IF ~w.device THEN Emit(c, {"reset"})
        ELSE IF c.initiator = "ExtensionUser" \/ c.state = "SilentSwitching"
        THEN started
        ELSE SetState(started, "Confirming")

ActivateInternal(c, policy, initiator, w) ==
    LET loc     == c.server.loc
        exit    == ChooseServer(policy, c.server.exit, ExitServers[loc], w.exitPick, w)
        entry   == ChooseServer(policy, c.server.entry, EntryServers[loc], w.entryPick, w)
        hops    == Hops(loc, entry, exit)
        cleared == [ClearConnectedTime(c) EXCEPT !.initiator = initiator,
                                                 !.handshakeTimer = FALSE,
                                                 !.queue = <<>>]
        queued  == [cleared EXCEPT !.queue = hops,
                                   !.server = [loc   |-> loc,
                                               entry |-> Head(hops).key,
                                               exit  |-> exit]]
    IN  IF exit = NoServer THEN ServerUnavailable(cleared)
        ELSE IF ~w.device THEN [cleared EXCEPT !.nextStep = "Disconnect"]
        ELSE IF loc \in MultihopLocations /\ entry = NoServer
        THEN ServerUnavailable(cleared)
        ELSE ActivateNext(queued, w)

\* Mutant: the state is left to activateNext().
StartActivationStaysPut(c, policy, initiator, w) ==
    ActivateInternal(ClearRetryCounter(c), policy, initiator, w)

\* The tail of activate() and of both replies to its account request.
StartActivation(c, policy, initiator, w) ==
    LET connecting == IF initiator = "ExtensionUser" THEN c
                      ELSE SetState(c, "Connecting")
    IN  ActivateInternal(ClearRetryCounter(connecting), policy, initiator, w)

ActivatableStates == {"Off", "OnPartial", "Switching", "SilentSwitching"}

\* activate(): `reachable' is the answer of the network watcher.
Activate(c, data, initiator, policy, reachable, w) ==
    LET accepted == [c EXCEPT !.isSwitchingServer =
                                  c.state \in {"Switching", "SilentSwitching"},
                              !.server = data]
    IN  IF c.state \notin ActivatableStates THEN c
        ELSE IF c.state # "Off" THEN StartActivation(accepted, policy, initiator, w)
        ELSE IF c.portalDetected
        THEN Emit([accepted EXCEPT !.portalDetected = FALSE],
                  {"activationBlockedForCaptivePortal"})
        ELSE IF ~reachable THEN accepted
        ELSE [accepted EXCEPT !.requests[initiator] = @ + 1]

-----------------------------------------------------------------------------
\* The deactivation chain: deactivate() -> ControllerImpl -> disconnected().

\* disconnected()
OnDisconnected(c, w) ==
    LET idle == ProcessNextStep(AbandonAttempt(c))
    IN  IF c.nextStep \in {"Quit", "Update"} THEN SetState(idle, "Off")
        ELSE IF c.nextStep = "None" /\ c.state \in {"SilentSwitching", "Switching"}
        THEN Activate(idle, c.next,
                      IF c.state = "SilentSwitching" THEN c.initiator ELSE "ClientUser",
                      c.nextPolicy, TRUE, w)
        ELSE SetState(Emit([idle EXCEPT !.initiator = "Null"],
                           IF c.state # "Confirming" THEN {"recordConnectionEnd"} ELSE {}),
                      "Off")

DeactivatableStates == {"On", "OnPartial", "Switching", "SilentSwitching",
                        "Confirming", "Connecting"}

\* Mutant: the early return "Already disconnected" is gone.
MayDeactivateAnyState(c, user) == Rank(c.initiator) <= Rank(user)

MayDeactivate(c, user) ==
    /\ Rank(c.initiator) <= Rank(user)
    /\ c.state \in DeactivatableStates

\* deactivate(): the platform controller answers at once when the reason is a
\* server switch, or when it is not ready.
Deactivate(c, user, ready, w) ==
    LET portal == IF ~c.portalDetected THEN c
                  ELSE Emit([c EXCEPT !.portalDetected = FALSE],
                            {"activationBlockedForCaptivePortal"})
        leaving == IF c.state \in {"Switching", "SilentSwitching"} THEN portal
                   ELSE SetState(portal, "Disconnecting")
        idle    == AbandonAttempt(GetStatusOf(leaving))
    IN  IF ~MayDeactivate(c, user) THEN c
        ELSE IF StateToReason(idle.state) = "ReasonSwitching" \/ ~ready
        THEN OnDisconnected(idle, w)
        ELSE Call(idle, ImplCall("deactivate", NoHop))

\* The end of switchServers() and silentSwitchServers().
SwitchTo(c, data, policy, state, ready, w) ==
    LET switching == [c EXCEPT !.isSwitchingServer = TRUE,
                               !.next = data, !.nextPolicy = policy]
    IN  Deactivate(SetState(ClearRetryCounter(ClearConnectedTime(switching)), state),
                   "ClientUser", ready, w)

\* connected() once every hop has completed its handshake.
ConnectionEstablished(c, ready, w) ==
    LET done == [c EXCEPT !.queue = <<>>, !.handshakeTimer = FALSE, !.retry = 0,
                          !.isSwitchingServer = @ \/ c.state \in {"On", "OnPartial"}]
        on   == ResetConnectedTime(SetState(done,
                    IF c.initiator = "ExtensionUser" THEN "OnPartial" ELSE "On"))
        told == IF done.isSwitchingServer THEN on
                ELSE Emit(on, {"recordConnectionStart"})
    IN  IF c.nextStep = "None" THEN told
        ELSE Deactivate(told, "ClientUser", ready, w)

\* connected()
OnConnected(c, key, ready, w) ==
    IF IF c.queue = <<>> THEN c.server.exit # key ELSE Head(c.queue).key # key
    THEN c
    ELSE IF Len(c.queue) > 1
    THEN ActivateNext([c EXCEPT !.queue = Tail(@)], w)
    ELSE ConnectionEstablished(c, ready, w)

\* implInitialized()
OnInitialized(c, status, connected) ==
    LET next == ProcessNextStep(c)
    IN  IF ~status THEN SetState(c, "Off")
        ELSE IF c.nextStep \in {"Quit", "Update"} THEN SetState(next, "Off")
        ELSE IF ~connected THEN SetState(next, "Off")
        ELSE [SetState(next, "On") EXCEPT !.connectedTime = TRUE, !.timer = TRUE]

\* Mutant: one retry too many.
OnHandshakeTimeoutOnceMore(c, ready, w) ==
    LET retried == [c EXCEPT !.retry = @ + 1]
    IN  IF c.nextStep # "None" THEN Deactivate(c, "ClientUser", ready, w)
        ELSE IF retried.retry <= CONNECTION_MAX_RETRY + 1
        THEN ActivateInternal(retried, "RandomizeServerSelection", c.initiator, w)
        ELSE ServerUnavailable(retried)

\* Mutant: the retry counter is not raised.
OnHandshakeTimeoutUncounted(c, ready, w) ==
    IF c.nextStep # "None" THEN Deactivate(c, "ClientUser", ready, w)
    ELSE ActivateInternal(c, "RandomizeServerSelection", c.initiator, w)

\* handshakeTimeout()
OnHandshakeTimeout(c, ready, w) ==
    LET retried == [c EXCEPT !.retry = @ + 1]
    IN  IF c.nextStep # "None" THEN Deactivate(c, "ClientUser", ready, w)
        ELSE IF retried.retry = 1 \/ retried.retry < CONNECTION_MAX_RETRY
        THEN ActivateInternal(retried, "RandomizeServerSelection", c.initiator, w)
        ELSE ServerUnavailable(retried)

\* quit()
OnQuit(c, ready, w) ==
    LET quitting == [c EXCEPT !.nextStep = "Quit"]
    IN  CASE c.state \in {"Initializing", "Off"} -> Emit(quitting, {"readyToQuit"})
          [] c.state \in {"On", "OnPartial", "Switching", "SilentSwitching",
                          "Connecting"} -> Deactivate(quitting, "ClientUser", ready, w)
          [] OTHER -> quitting

\* updateRequired()
OnUpdateRequired(c, ready, w) ==
    LET updating == [c EXCEPT !.nextStep = "Update"]
    IN  CASE c.state = "Off" -> Emit(c, {"readyToUpdate"})
          [] c.state \in {"On", "OnPartial"} ->
                 Deactivate(updating, "ClientUser", ready, w)
          [] OTHER -> updating

-----------------------------------------------------------------------------
\* The actions.  Each starts from a record without outputs.

Fresh == [ctl EXCEPT !.calls = <<>>, !.announced = <<>>, !.emitted = {}]

\* readyToQuit ends the process: nothing runs after it.
Running == "readyToQuit" \notin ctl.emitted

\* Whether the platform controller sends a deactivation to the daemon: the
\* local socket does when the link is up, D-Bus always.
Ready(r) == r \in BOOLEAN /\ (link = "ready" => r)

\* The members as the constructor and initialize() leave them; isSwitchingServer has
\* no initializer.
Constructed(loc, uninitialized) ==
    [state |-> "Initializing", initiator |-> "Null", nextStep |-> "None",
     queue |-> <<>>, retry |-> 0, handshakeTimer |-> FALSE,
     connectingTimer |-> FALSE, enableDisconnectInConfirming |-> FALSE,
     timer |-> FALSE, connectedTime |-> FALSE,
     isSwitchingServer |-> uninitialized, portalDetected |-> FALSE,
     server |-> ServerDataOf(loc), next |-> ServerDataOf(loc),
     nextPolicy |-> "RandomizeServerSelection",
     requests |-> [u \in Users |-> 0], statusCallbacks |-> FALSE,
     calls |-> <<>>, announced |-> <<>>, emitted |-> {}]

Init ==
    /\ link = "initializing"
    /\ \E loc \in Locations, b \in BOOLEAN : ctl = Constructed(loc, b)

\* The App enters its main state again before the first answer: a new platform
\* controller replaces the one that is still initializing.
Initialize(loc) ==
    /\ ctl.state = "Initializing"
    /\ ctl' = [Fresh EXCEPT !.server = ServerDataOf(loc), !.next = ServerDataOf(loc)]
    /\ link' = "initializing"

\* activate() from a TaskControllerAction of the client or of the extension.
UserActivate(loc, user, reachable, w) ==
    /\ ctl.requests[user] < MaxRequests
    /\ ctl' = Activate(Fresh, ServerDataOf(loc), user, "RandomizeServerSelection",
                       reachable, w)
    /\ UNCHANGED link

\* Mutant: both signals of one request are handled.
AccountReplyTwice(user, proceed, w) ==
    /\ ctl' = StartActivation([Fresh EXCEPT !.requests[user] = @ - 1],
                              "RandomizeServerSelection", user, w)
    /\ UNCHANGED link

\* The reply to an account request: `proceed' is FALSE when the request failed
\* and the App is no longer in its main state.
AccountReply(user, proceed, w) ==
    /\ ctl.requests[user] > 0
    /\ LET answered == [Fresh EXCEPT !.requests[user] = @ - 1]
       IN  ctl' = IF proceed
                  THEN StartActivation(answered, "RandomizeServerSelection", user, w)
                  ELSE answered
    /\ UNCHANGED link

UserDeactivate(user, ready, w) ==
    /\ Ready(ready)
    /\ ctl' = Deactivate(Fresh, user, ready, w)
    /\ UNCHANGED link

\* switchServers(): serverDataChanged() schedules it unless the state is Off.
UserSwitch(loc, ready, w) ==
    /\ Ready(ready)
    /\ ctl.state # "Off"
    /\ ctl' = SwitchTo(Fresh, ServerDataOf(loc), "RandomizeServerSelection",
                       "Switching", ready, w)
    /\ UNCHANGED link

\* silentSwitchServers(): with a cooldown another server must be available.
SilentSwitch(cooldown, ready, w) ==
    /\ Ready(ready)
    /\ ctl.state = "On"
    /\ cooldown => Cardinality(ExitServers[ctl.server.loc] \cap w.servers) > 1
    /\ ctl' = SwitchTo(Fresh, ctl.server,
                       IF cooldown THEN "RandomizeServerSelection"
                       ELSE "DoNotRandomizeServerSelection",
                       "SilentSwitching", ready, w)
    /\ UNCHANGED link

Quit(ready, w) ==
    /\ Ready(ready)
    /\ ctl' = OnQuit(Fresh, ready, w)
    /\ UNCHANGED link

UpdateRequired(ready, w) ==
    /\ Ready(ready)
    /\ ctl' = OnUpdateRequired(Fresh, ready, w)
    /\ UNCHANGED link

CaptivePortal(present) ==
    /\ ctl' = [Fresh EXCEPT !.portalDetected = present]
    /\ UNCHANGED link

GetStatus ==
    /\ ctl' = GetStatusOf(Fresh)
    /\ UNCHANGED link

HandshakeTimeout(ready, w) ==
    /\ Ready(ready)
    /\ ctl.handshakeTimer
    /\ ctl' = OnHandshakeTimeout([Fresh EXCEPT !.handshakeTimer = FALSE], ready, w)
    /\ UNCHANGED link

\* The lambda on m_connectingTimer.
ConnectingTimeout ==
    /\ ctl.connectingTimer
    /\ ctl' = [Fresh EXCEPT !.connectingTimer = FALSE,
                            !.enableDisconnectInConfirming = TRUE]
    /\ UNCHANGED link

-----------------------------------------------------------------------------
\* The signals of the platform controller (controllerimpl.h).

ImplInitialized(status, connected) ==
    /\ link \in {"initializing", "lost"}
    /\ connected => status
    /\ ctl' = OnInitialized(Fresh, status, connected)
    /\ link' = "ready"

ImplConnected(key, w) ==
    /\ link = "ready"
    /\ ctl' = OnConnected(Fresh, key, TRUE, w)
    /\ UNCHANGED link

ImplDisconnected(w) ==
    /\ ctl' = OnDisconnected(Fresh, w)
    /\ UNCHANGED link

\* The daemon is gone: disconnected() is emitted and the implementation starts
\* over.
ImplLost(w) ==
    /\ link # "initializing"
    /\ ctl' = OnDisconnected(Fresh, w)
    /\ link' = "lost"

ImplStatusUpdated ==
    /\ link = "ready"
    /\ ctl' = [Fresh EXCEPT !.statusCallbacks = FALSE]
    /\ UNCHANGED link

-----------------------------------------------------------------------------
UserNext ==
    \/ \E loc \in Locations : Initialize(loc)
    \/ \E loc \in Locations, user \in Users, reachable \in BOOLEAN, w \in Worlds :
          UserActivate(loc, user, reachable, w)
    \/ \E user \in Users, ready \in BOOLEAN, w \in Worlds :
          UserDeactivate(user, ready, w)
    \/ \E loc \in Locations, ready \in BOOLEAN, w \in Worlds : UserSwitch(loc, ready, w)
    \/ \E cooldown \in BOOLEAN, ready \in BOOLEAN, w \in Worlds :
          SilentSwitch(cooldown, ready, w)
    \/ \E ready \in BOOLEAN, w \in Worlds : Quit(ready, w)
    \/ \E ready \in BOOLEAN, w \in Worlds : UpdateRequired(ready, w)
    \/ \E present \in BOOLEAN : CaptivePortal(present)
    \/ GetStatus

ReplyNext ==
    \E user \in Users, proceed \in BOOLEAN, w \in Worlds : AccountReply(user, proceed, w)

TimerNext ==
    \/ \E ready \in BOOLEAN, w \in Worlds : HandshakeTimeout(ready, w)
    \/ ConnectingTimeout

ImplNext ==
    \/ \E status, connected \in BOOLEAN : ImplInitialized(status, connected)
    \/ \E key \in Servers, w \in Worlds : ImplConnected(key, w)
    \/ \E w \in Worlds : ImplDisconnected(w)
    \/ \E w \in Worlds : ImplLost(w)
    \/ ImplStatusUpdated

Next ==
    \/ Running /\ (UserNext \/ ReplyNext \/ TimerNext \/ ImplNext)
    \/ ~Running /\ UNCHANGED vars

Spec == Init /\ [][Next]_vars

-----------------------------------------------------------------------------
\* The members of a Controller.
Members == [state : States, initiator : Principals, nextStep : NextSteps,
            queue : Seq(Hop), retry : Nat, handshakeTimer : BOOLEAN,
            connectingTimer : BOOLEAN, enableDisconnectInConfirming : BOOLEAN,
            timer : BOOLEAN, connectedTime : BOOLEAN,
            isSwitchingServer : BOOLEAN, portalDetected : BOOLEAN,
            server : ServerData, next : ServerData, nextPolicy : Policies,
            requests : [Users -> Nat], statusCallbacks : BOOLEAN,
            calls : Seq(ImplCalls), announced : Seq(States), emitted : SUBSET Signals]

TypeOK == ctl \in Members /\ link \in {"initializing", "ready", "lost"}

\* handshakeTimeout() dereferences the first and the last hop of the queue and
\* asserts that there is one (controller.cpp:286) and that the last is no entry
\* (controller.cpp:303): whenever its timer runs, this holds.
HandshakeTimerHasHop ==
    ctl.handshakeTimer =>
        /\ ctl.queue # <<>>
        /\ ctl.queue[Len(ctl.queue)].type # "MultiHopEntry"

\* timerTimeout() asserts StateOn or StateOnPartial (controller.cpp:231), so that its
\* one-second timer runs in no other state.  It does: a multi-hop switch asked for in
\* Initializing is under way when initialized() finds the daemon connected and starts
\* the timer, and the handshake of the entry hop goes on to Confirming.
TimerTimeoutAsserts == ctl.timer => ctl.state \in {"On", "OnPartial"}

\* Attempts are given up: a hop that never answers raises the retry counter at
\* most one above CONNECTION_MAX_RETRY (the one is a late handshake of an entry
\* server, after the last retry, that starts the exit hop).
RetryBounded == ctl.retry <= CONNECTION_MAX_RETRY + 1

\* Partial protection belongs to the extension: the proxy-only tunnel is never
\* shown for an activation the client asked for.
PartialIsExtension == ctl.state = "OnPartial" => ctl.initiator = "ExtensionUser"

\* While a connection is being confirmed the user can cancel it, or will be able
\* to when m_connectingTimer fires; in no other state is the flag left set.
CancelBecomesPossible ==
    IF ctl.state = "Confirming"
    THEN ctl.enableDisconnectInConfirming \/ ctl.connectingTimer
    ELSE ~ctl.enableDisconnectInConfirming /\ ~ctl.connectingTimer

\* A multi-hop tunnel is built inside out: the exit hop is asked for only in
\* answer to the handshake of the entry hop queued right before it.
ExitHopFollowsEntry ==
    [][\A i \in DOMAIN ctl'.calls :
          ctl'.calls[i].op = "activate" /\ ctl'.calls[i].hop.type = "MultiHopExit"
          => /\ Len(ctl.queue) = 2
             /\ ctl.queue[1].type = "MultiHopEntry"
             /\ ctl'.queue = <<ctl.queue[2]>>]_vars

\* Observers of stateChanged() see an Initializing Controller of which every single
\* announcement is one of Moves, those within a handler included (switchServers() in
\* Confirming: Switching, Connecting, Confirming), and whose state is what was
\* announced last: it implements the view of it that ConnectionHealth and
\* ServerLatency take for granted.
View == INSTANCE ControllerView WITH state <- ctl.state, announced <- ctl.announced
FollowsMoves == View!Spec

-----------------------------------------------------------------------------
\* The timers of the Qt event loop fire.
FairSpec ==
    /\ Spec
    /\ WF_vars(Running /\ \E ready \in BOOLEAN, w \in Worlds : HandshakeTimeout(ready, w))
    /\ WF_vars(Running /\ ConnectingTimeout)

\* Once nobody asks for anything new and the daemon stops disconnecting, so that only
\* answers and timers are left, no attempt is retried for ever: the handshake timer is
\* found stopped again and again, because the tunnel came up, went down, or the retries
\* were exhausted.
Settling ==
    \/ ReplyNext \/ TimerNext \/ ImplStatusUpdated
    \/ \E key \in Servers, w \in Worlds : ImplConnected(key, w)
    \/ \E status, connected \in BOOLEAN : ImplInitialized(status, connected)

AttemptsEnd == <>[][Settling]_vars => []<>(~ctl.handshakeTimer \/ ~Running)

=============================================================================
