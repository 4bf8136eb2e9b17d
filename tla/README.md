# Mozilla VPN in TLA+

This directory specifies and verifies the parts of the desktop client of Mozilla
VPN that decide whether a tunnel exists and who may use it: the connection state
machine (`Controller`), its link to the privileged daemon
(`LocalSocketController`), the daemon (`Daemon`), the application object with its
task queue and account (`MozillaVPN`, `TaskScheduler`), the in-app login
(`AuthenticationInApp`), and the two observers that ping (`ConnectionHealth`,
`ServerLatency`). The modules are translated from the source; `PROJECT.json` maps
every definition to the lines it stands for.

## 1. Inventory

| Part | State | Operations | Talks to |
|---|---|---|---|
| `Controller` (`src/src/controller.cpp`) | `m_state`, `m_initiator`, `m_nextStep`, `m_activationQueue`, `m_connectionRetry`, four timers, `m_serverData`, `m_nextServerData`, `m_portalDetected`, `m_getStatusCallbacks`, `isSwitchingServer` | activate, deactivate, switchServers, silentSwitchServers, quit, updateRequired, getStatus, captive portal slots, handshake and connecting timeouts, slots for the signals of the platform controller | calls `ControllerImpl`; is called by `TaskControllerAction`, `ConnectionHealth`, the App |
| `LocalSocketController` (`localsocketcontroller.cpp`) | `m_daemonState`, the socket, `m_initializingTimer` and its interval, `m_responseTimeouts` | initialize, activate, deactivate, checkStatus, logs, reconnection, parseCommand | a local socket to the daemon; signals to `Controller` |
| `Daemon` (`daemon/daemon.cpp`) | `m_connections`, `m_handshakeTimer`; in the system: interface, peers, routes, resolvers | activate, switchServer, deactivate, getStatus, checkHandshake | system calls; signals to the socket connection |
| Socket connection and access control (`daemon/daemonlocalserverconnection.cpp`, `daemonaccesscontrol.cpp`) | the session | readData, parseCommand, replies | `Daemon` |
| `TaskScheduler`, `TaskControllerAction` | queue, running task, tasks to reschedule, fallback timer | schedule, completion, deletion by policy | runs every background operation |
| `MozillaVPN` with `User`, `DeviceModel`, `ErrorHandler` | application state, user, devices, keys, settings | login, logout, activate, device removal, subscription, refresh, update | schedules tasks, follows `Controller`, talks to the account server |
| `AuthenticationInApp`, `AuthenticationInAppSession` | view state, address, FxA session token, requests in flight | enter e-mail, sign in or up, codes, reset, cancel, delete account | the FxA server; its result completes a task |
| `ConnectionHealth`, `PingHelper`, `DnsPingSender` | stability, timers, ring of pings, baseline | start, stop, suspend, ping results, checkup | `getStatus` of `Controller`, silent switches |
| `ServerLatency` | queue, reply list, latencies and their sum, timers | start, stop, refresh, replies, timeouts | state of `Controller`, server list |
| `Telemetry` | session id | session start, end | signals of `Controller` |
| The rest | see `components` in `PROJECT.json` | | |

All client objects run in one thread: a handler is atomic, and what is hard is
the order in which the event loop runs handlers. An activation spans an account
request, one handshake per hop and two timers; a user, the browser extension, an
update and a lost daemon may each cut in between. The daemon is another process,
and its answers describe a past it may have left. It performs an activation as a
sequence of system calls, each of which can fail. What makes each part correct:

* `Controller`: no timer fires in a state its handler does not expect, retries
  end, a multi-hop tunnel is built from the entry on, partial protection is the
  extension's only, a slow attempt can be cancelled.
* `LocalSocketController`: a lost daemon is always looked for, with a bounded
  backoff, and found again.
* `Daemon`: what is left in the system belongs to a connection the client can take
  down, and every activation is answered.
* Together: On means there is a tunnel, Off means there is none.
* `MozillaVPN`: a signed-out client is not led back by what was scheduled before,
  the main view has what it relies on, a device does not stay hidden, and the
  deactivation of an abandoned tunnel is run.
* `AuthenticationInApp`: no view waits for a reply that is not coming.
* `ConnectionHealth`: pings go through the tunnel they judge, and a dead gateway is
  reported.
* `ServerLatency`: nothing is measured through a tunnel, a measurement ends, and
  the average is that of the latencies kept.

The most important hazards behind these properties are listed with their lines
under `hazards`; others are in section 5.

## 2. Modules

| Module | Models |
|---|---|
| `Controller` | class Controller |
| `ControllerStates` | the moves of its state that `stateChanged()` announces |
| `ControllerView` | the abstract specification made of them, which `Controller` implements |
| `ControllerProofs` | theorems about `Controller` |
| `LocalSocketController` | class LocalSocketController, against any daemon |
| `LocalSocketControllerProofs` | its theorems |
| `Daemon` | class Daemon with command dispatch and session check, against any client |
| `DaemonProofs` | its theorems |
| `System` | the three composed over the socket |
| `SystemProofs` | theorems about the three together |
| `TaskScheduler` | class TaskScheduler and the policy of a group, as operators |
| `MozillaVPN` | the application object, its models, tasks and settings |
| `MozillaVPNProofs` | its theorems |
| `AuthenticationInApp` | the in-app login, against the FxA server |
| `AuthenticationInAppProofs` | its theorems |
| `ConnectionHealth` | the health check with its pings |
| `ConnectionHealthProofs` | its theorems |
| `ServerLatency` | the latency measurement |
| `ServerLatencyProofs` | its theorems |
| `MC*` | the instances for TLC |

### Controller

The members of the object are the fields of one record, `ctl`. A method is an
operator from record to record, so methods nest as in the code, and an action is
a whole handler: `UserDeactivate` contains `deactivate()`, the status request in
it, the answer that `LocalSocketController` may give synchronously, the
`disconnected()` slot and the activation of the next server that follows from it.
`calls`, `emitted` and `announced` are the outputs of a handler: the calls of the
platform controller in their order, the signals, and the states that `setState()`
announces through `stateChanged()`, in their order. `link` abstracts the platform
controller to what its signals reveal. A *world* is what a handler reads of the
application: listed servers, the current device, the random picks.

| Code | Model |
|---|---|
| `activate()`, `activateInternal()`, `activateNext()` | `Activate`, `ActivateInternal`, `ActivateNext` |
| the account request of `activate()` | `requests`, a count per principal, and `AccountReply` |
| `deactivate()`, `disconnected()` | `Deactivate`, `OnDisconnected` |
| `switchServers()`, `silentSwitchServers()` | `UserSwitch`, `SilentSwitch`, over `SwitchTo` |
| `connected()`, `implInitialized()`, `statusUpdated()` | `ImplConnected`, `ImplInitialized`, `ImplStatusUpdated` |
| `handshakeTimeout()`, `m_connectingTimer` | `HandshakeTimeout`, `ConnectingTimeout` |
| `quit()`, `updateRequired()`, `m_nextStep` | `Quit`, `UpdateRequired`, `ProcessNextStep` |
| a daemon that is lost and found | `ImplLost`, then `ImplInitialized` |

Abstracted: hops are a key and a type; the port (53 on the first retry), address
ranges, DNS and excluded applications are data no guard reads. `connectedTime`
and the timers are Booleans. The canary ping, `m_isDeviceConnected` and the log
calls change nothing else and are left out. The multi-hop and the
connectivity-check features count as enabled. `isSwitchingServer` has no
initializer in `controller.h`, so `Init` chooses it. `Initialize` models
`MozillaVPN` entering its main state again while the controller still initializes.
After `readyToQuit` nothing runs.

### LocalSocketController

`socket` has a state "broken" for a peer that died and whose end is not noticed
yet. Writes to a socket that is not open are lost. The end of a socket raises
`errorOccurred()` twice, for `QLocalSocket::errorOccurred` and for
`disconnected`; `abort()` of a connected socket raises it once, synchronously,
which is external behaviour of Qt that this model relies on. Response timers
are the set of message types they wait for.

### Daemon

`connections` is `m_connections`, keyed by hop type; `interface`, `peers`,
`handshakes`, `routes` and `resolvers` are the effect of the system calls. In
every command `fault` names at most one call that fails. The identity of a
configuration is what `supportServerSwitching()` compares. A restarted daemon
starts from a clean system: the platform code removes what its predecessor left.

### System

`up` and `down` are the two directions of the socket. A user command, a timer or
a message runs through both client objects in one step (`CarryAll`, `Slot`). An
aborted connection leaves up to `MaxOrphans` flushed commands that the daemon
still executes, and whose answers nobody reads. `MaxMishaps` bounds
crashes, late answers and, with `Restarts`, restarts of the client, which leave
their flushed commands behind in the same way; a response timer may also fire, for free, when no answer can
come any more.

### ControllerStates and ControllerView

An abstract specification of the Controller for those who only watch its state
through `stateChanged()`. `ControllerStates!Moves` lists the calls of `setState()`
that announce something: the state each is made in and the one it sets. One handler
may announce several, as `switchServers()` does, which announces Switching from
whatever state it finds and goes on to deactivate. `ControllerView` is the
specification of a state that starts in Initializing and of a list of announcements
per handler, each of which is a move from the one before (`Walk`). `Controller`
instantiates it with its own state and its field `announced` (`View`), and
`FollowsMoves` is the refinement, `View!Spec`. `ConnectionHealth` and
`ServerLatency` let their Controller make one announcement of `Moves` at a time, so
that what is shown of them holds for the Controller of the code, the announcements
in the middle of a handler included.

### TaskScheduler and MozillaVPN

`TaskScheduler` is a module of operators on a record with a queue, a running task
and the tasks that a zero timer will schedule again; `Run`, `PolicyOf` and `NoTask`
are its parameters, which `MozillaVPN` instantiates with its tasks. `vpn` has the
members of the application object and of the models it owns; `vpn.saved` are the
settings, which is all that `Restart` keeps. A task is a record; `Done` is its
`completed()` signal, with the group it may belong to. A `TaskFunction` runs in a
step of its own, before which nothing else can happen (`Calm`).

| Code | Model |
|---|---|
| `initialize()` and `maybeStateMain()` | `Initialized`, `MaybeStateMain` |
| `reset()`, `logout()`, `cancelAuthentication()` | `Reset`, `Logout`, `CancelAuthentication` |
| the slot of `stateChanged` | `SetState` |
| `errorHandle()`, `errorHandled()` | `ReportNetworkError`, `ReportError`, `ErrorHandled` |
| replies of the tasks | `Fetched`, `FetchFails`, `AddDeviceSucceeds`, `AddDeviceFails`, `RemoveDeviceSucceeds`, `RemoveDeviceFails`, `HeartbeatReply`, `AddonIndexReply`, `NewAddonListed`, `AddonReply` |
| `TaskControllerAction` | `RunControllerAction`, `TaskCheckStatus`, `TaskStateChanged` |
| the account request of `Controller::activate()` | `vpn.waiting`, `ActivationGranted`, `ActivationUnchecked` |

`guardian` is the account on the server. A reply may be lost after the server has
acted. A request sent without a token is refused. A description of the account may
fail to parse, in the user or at any device (`Malformed`): the models keep what was
read before that, and `MalformedAccount`, `ActivationMisread` and
`AuthenticationFails` go on as the code does. `checkCurrentDevice()` changes nothing
in these members; where it returns early the state is no main view, so that nothing
is skipped. The Controller is reduced to six
states; "Idle" is a StateConnecting whose `activateInternal()` returned without an
attempt.

### AuthenticationInApp

`auth` is the session with the state its views show; `auth.requests` are the
requests in flight, with the address and the FxA session they were made for, and
replies are taken in any order. Types "Login", "Deletion" and "Management" are the
three tasks that own a session. `auth.swallowed` records an answer that the code
only logs, after which the view waits for the user to cancel. `fxa` is the server's
list of sessions.

### ConnectionHealth

Time passes in seconds, the period of both timers. An entry of the ring is what has
become of its ping; `helper.of` (a history variable) says through which tunnel it
was sent. Sequence numbers are kept modulo twice the window, with 0 told apart,
since a ring that has not been used is filled with it. `late` is the reply of a
ping sender that was stopped: `recvPing` is a queued connection.

### ServerLatency

`Send` is the loop that appends pings and numbers them; `Retries` and `NewPings` are
the two uses of it in `maybeSendPings()`. A record of the reply list has the age of its
ping. Time does not pass beyond the
timeout of the first record, whose timer is then due. A server list is a sequence.

## 3. Runs

Passing runs:

* `controller_multihop`: the Controller on a multi-hop
  location, with every order of requests, timers and signals, with servers or the
  device disappearing. `HandshakeTimerHasHop` is the pair of assertions of
  `handshakeTimeout()`. `RetryBounded`, `PartialIsExtension` and
  `CancelBecomesPossible` are the bounds and modes described above.
  `ExitHopFollowsEntry` is an action property: the exit hop is asked for only in
  answer to the handshake of the entry hop queued before it. `FollowsMoves` is the
  refinement of `ControllerView`. The liveness property `AttemptsEnd` says that
  under fair timers an attempt nobody interferes with ends.
* `daemon`: any command order with any failing call, handshakes, backend failures,
  restarts. `TunnelHasSession`, `NothingWithoutInterface`, `PolledOrReported`.
* `socket`: the client's end with the constants of the code, against a daemon
  that may answer anything, die or stay silent. `BackoffBounded`,
  `SocketAsserts`, `NeverStranded`, and the liveness property `Reconnects`: once
  the daemon behaves, the link is ready again and again.
* `system`: client and daemon without mishaps, up to six commands on two
  locations. Once messages are delivered, On has a tunnel (`OnHasTunnel`) and Off
  has none (`OffHasNoTunnel`).
* `system_mishap`: three commands, server switches and log cleanups included, with
  one crash of the daemon, one restart of the client or one late answer.
  `OnHasTunnel` still holds.
  `OffHasNoTunnel` does not, which is the run `system_off`.
* `app`: two commands of users, timers or other devices, one failed request, and
  restarts, from a first start or a signed-in one. `SignedOutStays`
  and `MainIsReady` are about stale functions, replies and errors: which
  step may show an account without a token, what a sign-out deletes, and what the main
  view finds; `RemovalsTracked`
  about the devices `DeviceModel` hides; `QueueAlwaysServed` and the liveness
  property `DeactivationRuns` about the queue, for clients that get past every device
  task.
* `auth`: `BusyHasRequest` and the liveness property `SpinnersEnd`, for the three
  tasks with two errors.
* `health`: `PingsNeedTunnel`, `EvidenceFresh`, and the liveness property
  `SignalLossReported`, for clients whose status callbacks do not wait for good.
* `latency`: `MeasuresOnlyOff`, `RefreshNotLost`, `SortedByTransmitTime` (which the
  ping timer relies on), `SumOfLatencies`, and the liveness property
  `MeasurementEnds`.

Runs that show a disagreement between code and text (quoted under `findings`):

* `controller_timer`: a switch to a multi-hop location asked for in Initializing has
  its entry hop under way when `implInitialized()` finds the daemon connected, shows
  On and starts the one-second timer; the handshake of that hop then goes on to
  Confirming with the timer running. `TimerTimeoutAsserts` is the assertion of
  `timerTimeout()` (`controller.cpp:231`), which only builds with assertions stop at.
* `daemon_swap`: when the direction of a multi-hop route is reversed, switching
  one hop deletes the peer of the other. The run restricts the free daemon to the
  order in which the Controller asks for hops (`OrderedSpec`).
* `system_off`: an activation sent during a reconnection and cancelled at once
  comes up, and the client shows Off.

### Bounds

| Bound | Value | Why it is enough |
|---|---|---|
| `CONNECTION_MAX_RETRY` | 2 (code: 9) | first retry, last retry and giving up are all distinct; the theorems hold for every value above 1 |
| servers, locations of `Controller` | 2, 1 multi-hop | an entry and an exit; the entry hop alone, both, and none are all queued; single-hop routes are in the runs of `System`, and every location in the theorems |
| `MaxRequests` | 1 per principal | two account requests are in flight together, one of each user |
| `MaxCommands` | 1 to 6 | activate, cut in, and recover |
| `MaxMishaps` | 0 or 1 | a second crash meets a state a first one has already reset |
| `MaxOrphans` | 2, in `system_mishap` 1 | no handler writes more than two commands; one orphan is enough for a stale activation or deactivation |
| `CONNECTION_RETRY_MAXIMUM_MSEC` | 16000, in `System` 1000 | the backoff is checked with the constants of the code in `socket`; `System` needs one doubling |
| `MaxCommands`, `MaxFailures` of `MozillaVPN` | 2, 1 | one command starts something and the next cuts in; every action fires, and the bugs of the mutants show |
| devices | 2 others of at most 2 | the limit is reached, and another device can be removed from the main view |
| `MaxSessions`, `MaxErrors` | 1, 2 | one FxA session that a reset forgets while its requests are in flight; an error on top of an error |
| `PING_STATS_WINDOW`, `LossThreshold`, `PING_TIME_NOSIGNAL` | 3, 1, 2 | the ring wraps, losses are fine or not, and the signal is lost before the ring is |
| `SERVER_LATENCY_MAX_PARALLEL`, `_MAX_RETRIES`, `_TIMEOUT` | 2, 1, 2 ticks | a server waits for its turn, a retry meets a younger ping, a reply comes in time or not |

The runs of `System`, `MozillaVPN`, `AuthenticationInApp`, `ConnectionHealth` and
`ServerLatency` set `CHECK_DEADLOCK FALSE`: the client may rest, with its
commands used up or nothing to do. In the other runs deadlock is checked. No
symmetry is used: servers and locations are told apart by the instances.

### Fairness

`Controller!FairSpec` is fair to its two timers: a started `QTimer` fires unless
it is stopped. `AttemptsEnd` states as its own assumption that requests and
disconnections cease. `LocalSocketController!FairSpec` is fair to the timers, to
the end of a connection attempt (Qt reports success or an error) and to a status
request being answered or timing out; `Reconnects` in addition assumes that
timeouts, refusals and crashes cease. `MozillaVPN!FairSpec` is fair to the steps of
the running task: its function, its timer, and its request, which is answered or
fails. Requests have a timeout, except those of `TaskAddDevice` and
`TaskRemoveDevice`, which call `disableTimeout()` (`taskadddevice.cpp:61`,
`taskremovedevice.cpp:52`): their answers are not fair, and `DeactivationRuns`
makes its promise only when no such task runs for good (`HeldUp`). A login waits for
the user and is not fair either. `AuthenticationInApp!FairSpec` says that some request in flight is
answered or fails. `ConnectionHealth!FairSpec` lets time pass and delivers
queued replies; pings are never sure to be answered. Nor are status requests:
`getStatus()` sends one for its first waiter only (`controller.cpp:869`), so a status
lost with the socket leaves the callbacks waiting for good. `SignalLossReported`
excepts that case by its hypothesis `StatusesCome`.
`ServerLatency!FairSpec` lets time pass.

## 4. Proofs

`ControllerProofs` proves for every set of servers and locations, every set of
worlds, every `CONNECTION_MAX_RETRY > 1` and every `MaxRequests`:

| Theorem | States |
|---|---|
| `TypeCorrect` | `Spec => []TypeOK` |
| `HandshakeTimerSafe` | `Spec => []HandshakeTimerHasHop` |
| `RetriesBounded` | `Spec => []RetryBounded` |
| `PartialBelongsToExtension` | `Spec => []PartialIsExtension` |
| `ConfirmingCanBeCancelled` | `Spec => []CancelBecomesPossible` |
| `ExitHopOrdered` | `Spec => ExitHopFollowsEntry` |
| `ImplementsView` | `Spec => FollowsMoves`, the refinement of `ControllerView` |

The assumptions are the named ones of `Controller` (`ServersAssumption`,
`WorldsAssumption`, `BoundsAssumption`), which TLC evaluates in every run.

Because a handler is a nest of operators, the proof climbs the same ladder twice:
one lemma per method says that it maps members to members, and one that it
preserves the invariant, each citing only the lemmas of the methods it calls. The
invariant is not inductive as it stands. `RetryBounded` needs to know that while
the handshake timer runs the counter is still below its limit, or that one late
entry handshake has started the exit hop; that needs the shape of the queue,
which `HandshakeTimerHasHop` needs too: empty, one hop that is no entry hop, or an
entry hop followed by an exit hop. That is `AttemptOf`. `ModesOf` joins partial
protection and the cancel flag to the state. `Inv` is `TypeOK` with both.

The last two theorems are about steps. `Quiet` relates the members before and after
a method: it starts no exit hop, and it appends to `announced` only, so that a list of
moves stays one (`Walks`). The relation is transitive, and `WalkOn` adds one
announcement; `SetStateQuiet` is the only place where the moves are looked at, with the
state each caller is in as its assumption. Every method but `connected()` is quiet, and
`connected()` starts the exit hop only from the queue shape above. `Moves` therefore
holds between any two consecutive announcements, and not only between the state a
handler finds and the one it leaves. Partial protection is never announced from
Initializing, which needs to know that the link is initializing there
(`AnswerInitializes`, added in `ShowInv`).

`LocalSocketControllerProofs` proves `TypeCorrect`, `BackoffStaysBounded`,
`SocketAssertsHold` and `LinkNeverStranded`, for every set of keys and every pair of
intervals that up to seven doublings connect (`RetryAssumption`; the code needs
five). The backoff is bounded because the interval is always a doubling of the
initial one: below the maximum it is then at most half of it. `NeverStranded` needs
`SocketAsserts`: a connection that opens in eInitializing has its first status
timed, and the answer that ends the timer also ends the initialization.

`ConnectionHealthProofs` proves `TypeCorrect`, `PingsOnlyThroughTunnel` and
`EvidenceStaysFresh`, for every window, threshold, timeout and set of states
(`HealthAssumption`). The evidence is fresh because a tunnel is replaced only from a
state without one, in which the pings have stopped, and `start()` empties the ring.

`DaemonProofs` proves `TypeCorrect`, `ConnectionsHaveSession`, `NothingLeftBehind`
and the action property `NoActivationForgotten`, for every set of configs and every
set of system calls that may fail (`DaemonAssumption`). There is one lemma per
method, which says what the method keeps whichever of its calls fails. The
invariant joins the types to `NothingWithoutInterface`, from which `switchServer()`
knows that there is an interface to work on, and to `TunnelHasSession`.
`deactivate()` runs after the session has been dropped, so its lemma does without
the last part and gives the empty map instead.

`MozillaVPNProofs` proves `TypeCorrect`, `QueueServed`, `RemovalsAreTracked` and the
action properties `MainEnteredReady` and `SignOutIsFinal`,
for every set of devices and every bound on devices, commands and failures. The
invariant is in two parts. `Sound` has the types and says that a queue with tasks has
a running one; `Tracked` says that a hidden device has its removal task, which must
survive the deletion of tasks by policy. Relations between the object before and after
an operation carry the steps up the nest of operators: `Schedules` (the scheduler
changes the queue alone and drops no removal), `Keeps` (settings, user, devices and state
stay), `Handles` and `Moves` (a whole handler: the main view is entered with its models,
a signed-in view with a token, and with the token go the functions). Deleting tasks filters the queue with a recursive function;
what it computes is obtained from `SetInduction`, an induction principle over a *set*
of numbers that the provers can use where the library's, over an operator, cannot be
instantiated.

`AuthenticationInAppProofs` proves `TypeCorrect` and `SpinnerWaits`, for every bound on
sessions and errors. A reply is taken out of the requests before its handler runs, so
each handler has a lemma saying that it leaves a busy state, sends a request, or
swallows the answer. `BusyHasRequest` is not inductive: a mail that is sent again is a
request whose success changes nothing. `Waits` therefore asks for a request of another
kind. The types need a bound on the logins in flight, each of which may make an FxA
session.

`ServerLatencyProofs` proves `TypeCorrect`, `MeasuredOff`, `RefreshKept`, `SortedList`
and `SumKept`, for every set of server lists, parallelism, retry limit and timeout
(`LatencyAssumption`). The list is sorted because a ping is appended with age 0 and
the next sequence number; the invariant (`Whole`) therefore bounds every number by the
next one, and has the limits on lengths and retries and the empty lists of an object
without a sender. The loop of sends is again a recursive function and goes by
`SetInduction`. So does `SumKept`: the reference definition of `SumOfLatencies` is a
fold over a function, in an order nobody specifies. `SumExists` builds a sum that is
the same in every order (`Adds`), one element at a time; `SumUnique` shows that the
fold equals it; and `SumOfUpdate` that replacing or adding one value changes it by the
difference, which is what `setLatency()` computes. The invariant `Summed` also says
that the measured servers are finitely many, without which a sum means nothing.

`SystemProofs` proves two theorems about client and daemon together, from the named
assumptions of the three modules restated for the composition (`SystemAssumption`).

* `OnIsTunnel`: `SingleHopsOnly /\ Spec => []OnHasTunnel`, for all servers, locations,
  requests of both users, failing system calls, crashes of the daemon, late answers,
  restarts of the client and commands left behind by aborted connections, without any
  bound on them. The hypothesis is needed: a client restarted over a half-built
  multi-hop tunnel shows On (section 5). The property itself only speaks of moments
  when every message is delivered, so it says nothing about the steps in between; the
  invariant `SingleInv` does. A message that shows a tunnel was true when the daemon
  wrote it, and either still is or a `disconnected` is queued behind it; the same holds
  for a client in On over a ready link. Each command, poll and signal keeps it because
  a daemon whose tunnel goes away writes `disconnected` in the same step or loses its
  socket.
* `OffIsNoTunnel`: `OneUser /\ Spec => []OffHasNoTunnel`, for all servers, locations
  and hops, and any number of activations and deactivations, status requests and
  quits at any moment. `OffInv` separates three phases. Before the first connection
  and before the first answer nothing can be sent that starts a tunnel. Afterwards
  (`Working`) a deactivation that will end a session has no activation behind it, the
  client that sent it is idle until it is answered, and after `disconnected` there is
  no further news of a tunnel in the socket. A late `connected`, or a handshake timer
  that fires while the deactivation is on its way, therefore activates nothing more.
  Every part of `OneUser` is needed: TLC finds a counterexample when one is dropped
  (section 5). The run `system` satisfies it.

Both proofs reduce the three components first, one lemma per method, to what the other
side of the socket can tell: the Controller to its state and calls (`Calm`, `Starts`,
`Stops`, `Rests`), the socket to what it writes (`Writer`, `Writes`), the daemon to its
connections and answers (`Honest`, `Keeps`, `Serves`, `Says`). One lemma per action of
`System` then shows that the invariant is kept.

Only model-checked is liveness (`AttemptsEnd`, `Reconnects`, `DeactivationRuns`,
`SpinnersEnd`, `SignalLossReported`, `MeasurementEnds`), which is out of the prover's
reach.

Every invariant and every action property of the passing runs is also a theorem. The
hypotheses of `OnIsTunnel` and `OffIsNoTunnel` exclude instances in which the properties
fail (section 5, `system_off`).

## 5. Not modelled

See `components`. In short: mobile and WebAssembly platforms and the conditional
code for them (except the suspension of the two ping observers); the D-Bus and
NetworkManager transports; the system calls below the daemon, the firewall and split
tunnelling of the platforms; the updater, billing through stores, captive portal
probes, telemetry, the contents of add-ons, the inspector, and the user interface.
They reach the modelled parts only through inputs that the models choose freely.
Message encoding is abstracted to what the parsers make of it. Vendored
cryptography and support code is outside the project.

Observations made while modelling which no property states, because nothing in the
repository promises otherwise or because a hazard with a note has them:

* Controller: the extension may end a tunnel found at startup, whose initiator is
  Null (`controller.cpp:1063`); a second activation replaces the location of one that waits for its account
  request, which `docs/Components/controller.md:7` excludes; whether a session start
  is recorded may depend on the uninitialized `isSwitchingServer` (`controller.h:246`).
* Link: after one late answer the client may abort and reopen a healthy connection
  again and again, since the abort itself arms the reconnection timer
  (`localsocketcontroller.cpp:115`); a lost status answer leaves the callbacks of
  `getStatus()` waiting, and a gateway that dies then is not reported as no signal;
  cleaning the logs always ends in a response timeout.
* Client restart: a client started while the daemon waits for a handshake stays in
  Initializing (`localsocketcontroller.cpp:258`); one started after only the entry
  hop of a multi-hop tunnel has come up shows On (`controller.cpp:193`), which is
  why `system_mishap` checks `OnHasTunnel` on a single-hop location.
* Off with a tunnel, beyond `system_off`, each found by dropping one part of `OneUser`:
  a `connected` that was on its way when the extension's tunnel was deactivated brings
  the client to OnPartial, from where its user activates behind the pending
  deactivation (`controller.cpp:697`); of two activations that wait for their account
  requests the second is granted after the first has been deactivated
  (`controller.cpp:1033`); a switch requested before the daemon is ready and then
  deactivated is only half undone (`localsocketcontroller.cpp:138`); a silent switch
  followed by a quit goes to Off without a `deactivate`; a server switch that fails in
  the daemon leaves the old connection and answers `disconnected`.
* Daemon: a failed configuration leaves an interface behind (`daemon.cpp:118`); the
  status of a multi-hop tunnel is that of its entry hop (`daemon.cpp:455`).
* Application: an activation may be granted after the client has left the main view
  (`controller.cpp:1010`); a `TaskAddDevice` that outlives a logout stores keys into
  the settings just removed (`mozillavpn.cpp:756`), and one whose reply is lost
  leaves a key the server no longer knows; a client closed between `deviceAdded()`
  and the next account request asks for a login again (`mozillavpn.cpp:566`);
  `maybeStateMain()` that finds no servers removes the settings and not the tasks
  (`mozillavpn.cpp:398`), so a second `maybeStateMain()` queued by another login may
  then show SubscriptionNeeded without a token. This takes ten commands and five
  failures, far beyond the bounds of `app`: it is why "signed in implies a token" is
  no theorem and `SignedOutStays` names the exception; an
  alert of an old request resets a login under way (`mozillavpn.cpp:1356`); the
  assertion at `mozillavpn.cpp:382` fails when a device was removed elsewhere.
* In-app login: a failed account deletion reports success
  (`authenticationinappsession.cpp:719`); the token of an FxA session that `reset()`
  forgets is never destroyed (`:602`); `authenticationinapp.h:144` names a
  StateDeletingAccount that nothing sets; `finalizeSignInOrUp()` may assert (`:732`).
* Observers: after the first `stop()` there are no DNS pings any more
  (`dnspingsender.h:24`); an unstable connection with one server asks for a silent
  switch every second (`connectionhealth.cpp:183`); on iOS a measurement may start
  in the background (`serverlatency.cpp:251`); ages and latencies are differences of
  the wall clock (`serverlatency.cpp:143`, `:276`), which the model takes as monotonic:
  when it is set during a measurement, timeouts come early or late and the latencies
  are off, a negative one included.

## 6. Plan

Done: `Controller`, `LocalSocketController`, `Daemon`, `TaskScheduler` with
`MozillaVPN`, `AuthenticationInApp`, `ConnectionHealth` and `ServerLatency`, each with
its proofs; `System` with the theorems about On and Off; `ControllerView` as the proved abstraction between `Controller`
and its observers.

Next:

1. Proofs: `OnIsTunnel` for multi-hop routes of a client that does not restart;
   `OffIsNoTunnel` with server switches in a ready client.
2. The captive portal monitor and the telemetry sessions over the signals of
   `Controller`; the address arithmetic of `IPAddress::excludeAddresses()` against a
   reference definition.
