---------------------------- MODULE SystemProofs ----------------------------
(***************************************************************************)
(* Proofs about System: what the client shows and what the daemon has,     *)
(* once the messages have been delivered.                                  *)
(*                                                                         *)
(* OnIsTunnel is about routes of a single hop, with every fault of the     *)
(* daemon, crash, timeout and restart.  Its inductive invariant SingleInv  *)
(* reads the messages on their way: what a message shows of the tunnel is  *)
(* so, or a `disconnected' behind it takes it back; the same goes for what *)
(* the client shows.                                                       *)
(*                                                                         *)
(* OffIsNoTunnel is about one user and a daemon in order.  Its inductive   *)
(* invariant OffInv has the phases Unconnected, Asking and Working; in the *)
(* last one it says that no activation is queued behind a deactivation     *)
(* that ends a session, and that a client with a deactivation on its way   *)
(* is idle, so that no late answer makes it activate another hop.          *)
(*                                                                         *)
(* The Controller, the socket and the daemon are first reduced, method by  *)
(* method, to what the other sides can tell (Member, Writer, SingleDaemon, *)
(* AnyDaemon); then comes one lemma per step of System.                    *)
(***************************************************************************)
EXTENDS System, SequenceTheorems, TLAPS

-----------------------------------------------------------------------------
\* The Controller, as far as the other side of the socket can tell.

Names == Servers \cup {NoServer}

\* The hop types of the routes the Controller may ask for.
HopKinds == IF MultihopLocations \cap Locations # {} /\ MultihopSupported THEN Types
            ELSE {"SingleHop"}

Hops == [key : Names, type : HopKinds]
Calls == [op : {"activate", "deactivate", "checkStatus"}, hop : Hops]
ServerData == [loc : Locations, entry : Names, exit : Names]

Fields == {"state", "initiator", "nextStep", "queue", "retry", "handshakeTimer",
           "connectingTimer", "enableDisconnectInConfirming", "timer", "connectedTime",
           "isSwitchingServer", "portalDetected", "server", "next", "nextPolicy",
           "requests", "statusCallbacks", "calls", "announced", "emitted"}

\* The members of a Controller, with the types of those that reach the daemon.
Member(c) ==
    /\ DOMAIN c = Fields
    /\ c.queue \in Seq(Hops) /\ c.calls \in Seq(Calls)
    /\ c.server \in ServerData /\ c.next \in ServerData

\* A method that does not show On by itself.
Calm(c, r) == Member(r) /\ (r.state = "On" => c.state = "On")

LEMMA CalmTransitive ==
    ASSUME NEW a, NEW b, NEW c, Calm(a, b), Calm(b, c)
    PROVE  Calm(a, c)
BY DEF Calm

LEMMA CalmEmit ==
    ASSUME NEW c, Member(c), NEW signals
    PROVE  Calm(c, C!Emit(c, signals)) /\ C!Emit(c, signals).state = c.state
BY DEF C!Emit, Calm, Member, Fields

LEMMA CalmSetState ==
    ASSUME NEW c, Member(c), NEW s
    PROVE  /\ Member(C!SetState(c, s)) /\ C!SetState(c, s).state = s
           /\ C!SetState(c, s).queue = c.queue /\ C!SetState(c, s).calls = c.calls
BY DEF C!SetState, Member, Fields

LEMMA CalmClear ==
    ASSUME NEW c, Member(c)
    PROVE  /\ Calm(c, C!ClearConnectedTime(c)) /\ C!ClearConnectedTime(c).state = c.state
           /\ Calm(c, C!ResetConnectedTime(c)) /\ C!ResetConnectedTime(c).state = c.state
           /\ Calm(c, C!ClearRetryCounter(c)) /\ C!ClearRetryCounter(c).state = c.state
BY DEF C!ClearConnectedTime, C!ResetConnectedTime, C!ClearRetryCounter, Calm, Member, Fields

LEMMA CalmCall ==
    ASSUME NEW c, Member(c), NEW call \in Calls
    PROVE  Calm(c, C!Call(c, call)) /\ C!Call(c, call).state = c.state
BY DEF C!Call, Calm, Member, Fields

LEMMA NoHopIsHop == \A op \in {"deactivate", "checkStatus"} : C!ImplCall(op, C!NoHop) \in Calls
BY DEF C!ImplCall, C!NoHop, Calls, Hops, Names, HopKinds, Types

LEMMA CalmAbandon ==
    ASSUME NEW c, Member(c)
    PROVE  /\ Calm(c, C!AbandonAttempt(c)) /\ C!AbandonAttempt(c).state = c.state
           /\ C!AbandonAttempt(c).nextStep = c.nextStep
           /\ C!AbandonAttempt(c).next = c.next
<1>1. Member([c EXCEPT !.handshakeTimer = FALSE, !.queue = <<>>])
    BY DEF Member, Fields
<1> QED
    BY <1>1, EmptySeq DEF C!AbandonAttempt, C!ClearConnectedTime, C!ClearRetryCounter,
       Calm, Member, Fields

LEMMA CalmProcess ==
    ASSUME NEW c, Member(c)
    PROVE  Calm(c, C!ProcessNextStep(c)) /\ C!ProcessNextStep(c).state = c.state
BY DEF C!ProcessNextStep, C!Emit, Calm, Member, Fields

LEMMA CalmGetStatus ==
    ASSUME NEW c, Member(c)
    PROVE  Calm(c, C!GetStatusOf(c)) /\ C!GetStatusOf(c).state = c.state
BY NoHopIsHop DEF C!GetStatusOf, C!Call, Calm, Member, Fields

LEMMA ChosenServer ==
    ASSUME NEW policy, NEW key \in Names, NEW listed \in SUBSET Servers, NEW pick,
           NEW w \in Worlds
    PROVE  C!ChooseServer(policy, key, listed, pick, w) \in Names
<1>1. C!WeightChooser(listed \cap w.servers, pick) \in Names
    BY DEF C!WeightChooser, Names
<1> QED BY <1>1 DEF C!ChooseServer, Names

LEMMA CalmActivateNext ==
    ASSUME NEW c, Member(c), c.queue # <<>>, NEW w \in Worlds
    PROVE  Calm(c, C!ActivateNext(c, w))
<1>1. C!ImplCall("activate", Head(c.queue)) \in Calls
    BY DEF C!ImplCall, Calls, Member
<1> DEFINE timed   == [c EXCEPT !.handshakeTimer = TRUE]
           started == C!Call(timed, C!ImplCall("activate", Head(c.queue)))
<1>2. Member(timed) /\ timed.state = c.state
    BY DEF Member, Fields
<1>3. Calm(c, started) /\ Member(started)
    <2> HIDE DEF timed
    <2> QED BY <1>1, <1>2, CalmCall DEF Calm
<1>4. Calm(c, C!Emit(c, {"reset"}))
    BY CalmEmit
<1>5. Calm(c, C!SetState(started, "Confirming"))
    <2> HIDE DEF started
    <2> QED BY <1>3, CalmSetState DEF Calm
<1> QED BY <1>3, <1>4, <1>5 DEF C!ActivateNext

LEMMA HopsOfRoute ==
    ASSUME NEW loc \in Locations, NEW entry \in Names, NEW exit \in Names
    PROVE  /\ C!Hops(loc, entry, exit) \in Seq(Hops)
           /\ C!Hops(loc, entry, exit) # <<>>
           /\ Head(C!Hops(loc, entry, exit)).key \in Names
<1>1. CASE loc \in MultihopLocations /\ MultihopSupported
    <2>1. HopKinds = Types
        BY <1>1 DEF HopKinds
    <2>2. [key |-> entry, type |-> "MultiHopEntry"] \in Hops
          /\ [key |-> exit, type |-> "MultiHopExit"] \in Hops
        BY <2>1 DEF Hops, Types
    <2> QED BY <1>1, <2>2 DEF C!Hops
<1>2. CASE ~(loc \in MultihopLocations /\ MultihopSupported)
    <2>1. [key |-> exit, type |-> "SingleHop"] \in Hops
        BY DEF Hops, HopKinds, Types
    <2> QED BY <1>2, <2>1 DEF C!Hops
<1> QED BY <1>1, <1>2

LEMMA CalmActivateInternal ==
    ASSUME NEW c, Member(c), NEW policy, NEW initiator, NEW w \in Worlds
    PROVE  Calm(c, C!ActivateInternal(c, policy, initiator, w))
<1> DEFINE loc   == c.server.loc
           exit  == C!ChooseServer(policy, c.server.exit, ExitServers[loc], w.exitPick, w)
           entry == C!ChooseServer(policy, c.server.entry, EntryServers[loc], w.entryPick, w)
           hops  == C!Hops(loc, entry, exit)
           cleared == [C!ClearConnectedTime(c) EXCEPT !.initiator = initiator,
                                                      !.handshakeTimer = FALSE,
                                                      !.queue = <<>>]
           queued  == [cleared EXCEPT !.queue = hops,
                                      !.server = [loc   |-> loc,
                                                  entry |-> Head(hops).key,
                                                  exit  |-> exit]]
<1>1. loc \in Locations /\ c.server.exit \in Names /\ c.server.entry \in Names
    BY DEF Member, ServerData
<1>2. ExitServers[loc] \in SUBSET Servers /\ EntryServers[loc] \in SUBSET Servers
    BY <1>1, SystemAssumption
<1>3. exit \in Names /\ entry \in Names
    BY <1>1, <1>2, ChosenServer
<1> HIDE DEF exit, entry
<1>4. hops \in Seq(Hops) /\ hops # <<>> /\ Head(hops).key \in Names
    BY <1>1, <1>3, HopsOfRoute
<1> HIDE DEF hops
<1>5. Calm(c, cleared) /\ Member(cleared)
    <2>1. Member(C!ClearConnectedTime(c)) /\ C!ClearConnectedTime(c).state = c.state
        BY CalmClear DEF Calm
    <2> QED BY <2>1, EmptySeq DEF Calm, Member, Fields
<1> HIDE DEF cleared
<1>6. Calm(c, queued) /\ Member(queued) /\ queued.queue # <<>>
    BY <1>1, <1>3, <1>4, <1>5 DEF Calm, Member, Fields, ServerData
<1>7. Calm(c, [cleared EXCEPT !.nextStep = "Disconnect"])
    BY <1>5 DEF Calm, Member, Fields
<1>8. Calm(c, C!ServerUnavailable(cleared))
    BY <1>5, CalmEmit, CalmTransitive DEF C!ServerUnavailable
<1> HIDE DEF queued
<1>9. Calm(c, C!ActivateNext(queued, w))
    BY <1>6, CalmActivateNext, CalmTransitive
<1> QED
    BY <1>7, <1>8, <1>9 DEF C!ActivateInternal, exit, entry, hops, cleared, queued

LEMMA CalmStart ==
    ASSUME NEW c, Member(c), NEW policy, NEW initiator, NEW w \in Worlds
    PROVE  Calm(c, C!StartActivation(c, policy, initiator, w))
<1> DEFINE connecting == IF initiator = "ExtensionUser" THEN c
                         ELSE C!SetState(c, "Connecting")
<1>1. Calm(c, connecting)
    BY CalmSetState DEF Calm
<1> HIDE DEF connecting
<1>2. Calm(c, C!ClearRetryCounter(connecting))
    BY <1>1, CalmClear, CalmTransitive DEF Calm
<1> QED
    BY <1>2, CalmActivateInternal, CalmTransitive DEF C!StartActivation, connecting, Calm

LEMMA CalmActivate ==
    ASSUME NEW c, Member(c), NEW data \in ServerData, NEW initiator, NEW policy,
           NEW reachable \in BOOLEAN, NEW w \in Worlds
    PROVE  Calm(c, C!Activate(c, data, initiator, policy, reachable, w))
<1> DEFINE accepted == [c EXCEPT !.isSwitchingServer =
                                     c.state \in {"Switching", "SilentSwitching"},
                                 !.server = data]
<1>1. Calm(c, accepted) /\ Member(accepted)
    BY DEF Calm, Member, Fields
<1> HIDE DEF accepted
<1>2. Calm(c, C!StartActivation(accepted, policy, initiator, w))
    BY <1>1, CalmStart, CalmTransitive
<1>3. Calm(accepted, [accepted EXCEPT !.portalDetected = FALSE])
    BY <1>1 DEF Calm, Member, Fields
<1>4. Calm(c, C!Emit([accepted EXCEPT !.portalDetected = FALSE],
                     {"activationBlockedForCaptivePortal"}))
    BY <1>1, <1>3, CalmEmit, CalmTransitive DEF Calm
<1>5. Calm(c, [accepted EXCEPT !.requests[initiator] = @ + 1])
    BY <1>1 DEF Calm, Member, Fields
<1>6. Calm(c, c)
    BY DEF Calm
<1> QED BY <1>1, <1>2, <1>4, <1>5, <1>6 DEF C!Activate, accepted

LEMMA CalmDisconnected ==
    ASSUME NEW c, Member(c), NEW w \in Worlds
    PROVE  Member(C!OnDisconnected(c, w)) /\ C!OnDisconnected(c, w).state # "On"
<1> DEFINE idle == C!ProcessNextStep(C!AbandonAttempt(c))
<1>1. Member(idle) /\ idle.state = c.state
    BY CalmAbandon, CalmProcess DEF Calm
<1> HIDE DEF idle
<1>2. /\ Member(C!SetState(idle, "Off"))
      /\ C!SetState(idle, "Off").state # "On"
    BY <1>1, CalmSetState
<1>3. ASSUME NEW signals
      PROVE  LET r == C!SetState(C!Emit([idle EXCEPT !.initiator = "Null"], signals), "Off")
             IN  Member(r) /\ r.state # "On"
    <2>1. Member([idle EXCEPT !.initiator = "Null"])
        BY <1>1 DEF Member, Fields
    <2> QED BY <2>1, CalmEmit, CalmSetState DEF Calm
<1>4. ASSUME c.state \in {"SilentSwitching", "Switching"}, NEW initiator
      PROVE  LET r == C!Activate(idle, c.next, initiator, c.nextPolicy, TRUE, w)
             IN  Member(r) /\ r.state # "On"
    <2>1. c.next \in ServerData
        BY DEF Member
    <2>2. Calm(idle, C!Activate(idle, c.next, initiator, c.nextPolicy, TRUE, w))
        BY <1>1, <2>1, CalmActivate
    <2> QED BY <1>1, <1>4, <2>2 DEF Calm
<1> QED BY <1>2, <1>3, <1>4 DEF C!OnDisconnected, idle

LEMMA CalmDeactivate ==
    ASSUME NEW c, Member(c), NEW user, NEW ready \in BOOLEAN, NEW w \in Worlds
    PROVE  Calm(c, C!Deactivate(c, user, ready, w))
<1> DEFINE portal == IF ~c.portalDetected THEN c
                     ELSE C!Emit([c EXCEPT !.portalDetected = FALSE],
                                 {"activationBlockedForCaptivePortal"})
           leaving == IF c.state \in {"Switching", "SilentSwitching"} THEN portal
                      ELSE C!SetState(portal, "Disconnecting")
           idle    == C!AbandonAttempt(C!GetStatusOf(leaving))
<1>1. Calm(c, portal)
    <2>1. Calm(c, [c EXCEPT !.portalDetected = FALSE])
        BY DEF Calm, Member, Fields
    <2> QED BY <2>1, CalmEmit, CalmTransitive DEF Calm
<1> HIDE DEF portal
<1>2. Calm(c, leaving)
    BY <1>1, CalmSetState DEF Calm
<1> HIDE DEF leaving
<1>3. Calm(c, C!GetStatusOf(leaving))
    BY <1>2, CalmGetStatus, CalmTransitive DEF Calm
<1>4. Calm(c, idle)
    BY <1>3, CalmAbandon, CalmTransitive DEF Calm
<1> HIDE DEF idle
<1>5. Calm(c, C!OnDisconnected(idle, w))
    BY <1>4, CalmDisconnected DEF Calm
<1>6. Calm(c, C!Call(idle, C!ImplCall("deactivate", C!NoHop)))
    BY <1>4, NoHopIsHop, CalmCall, CalmTransitive DEF Calm
<1>7. Calm(c, c)
    BY DEF Calm
<1> QED BY <1>5, <1>6, <1>7 DEF C!Deactivate, portal, leaving, idle

LEMMA CalmSwitchTo ==
    ASSUME NEW c, Member(c), NEW data \in ServerData, NEW policy,
           NEW state \in {"Switching", "SilentSwitching"}, NEW ready \in BOOLEAN,
           NEW w \in Worlds
    PROVE  Calm(c, C!SwitchTo(c, data, policy, state, ready, w))
<1> DEFINE switching == [c EXCEPT !.isSwitchingServer = TRUE,
                                  !.next = data, !.nextPolicy = policy]
           cleared == C!ClearRetryCounter(C!ClearConnectedTime(switching))
<1>1. Member(switching)
    BY DEF Member, Fields
<1> HIDE DEF switching
<1>2. Member(cleared)
    BY <1>1, CalmClear DEF Calm
<1> HIDE DEF cleared
<1>3. Member(C!SetState(cleared, state)) /\ C!SetState(cleared, state).state # "On"
    BY <1>2, CalmSetState
<1> QED BY <1>3, CalmDeactivate DEF C!SwitchTo, switching, cleared, Calm

LEMMA LongTail ==
    ASSUME NEW S, NEW q \in Seq(S), Len(q) > 1
    PROVE  Tail(q) \in Seq(S) /\ Tail(q) # <<>>
<1>1. q # <<>>
    OBVIOUS
<1>2. Tail(q) \in Seq(S) /\ Len(Tail(q)) = Len(q) - 1
    BY <1>1, HeadTailProperties
<1>3. Len(q) \in Nat /\ Len(<<>>) = 0
    BY LenProperties
<1>4. Len(Tail(q)) # Len(<<>>)
    BY <1>2, <1>3
<1> QED BY <1>2, <1>4

LEMMA NextHop ==
    ASSUME NEW c, Member(c), Len(c.queue) > 1
    PROVE  LET d == [c EXCEPT !.queue = Tail(@)] IN Member(d) /\ d.queue # <<>>
<1>1. Tail(c.queue) \in Seq(Hops) /\ Tail(c.queue) # <<>>
    BY LongTail DEF Member
<1> QED BY <1>1 DEF Member, Fields

LEMMA MemberConnected ==
    ASSUME NEW c, Member(c), NEW key, NEW ready \in BOOLEAN, NEW w \in Worlds
    PROVE  Member(C!OnConnected(c, key, ready, w))
<1>1. Member(C!ConnectionEstablished(c, ready, w))
    <2> DEFINE done == [c EXCEPT !.queue = <<>>, !.handshakeTimer = FALSE, !.retry = 0,
                          !.isSwitchingServer = @ \/ c.state \in {"On", "OnPartial"}]
               on   == C!ResetConnectedTime(C!SetState(done,
                          IF c.initiator = "ExtensionUser" THEN "OnPartial" ELSE "On"))
               told == IF done.isSwitchingServer THEN on
                       ELSE C!Emit(on, {"recordConnectionStart"})
    <2>1. Member(done)
        BY EmptySeq DEF Member, Fields
    <2> HIDE DEF done
    <2>2. Member(on)
        BY <2>1, CalmSetState, CalmClear DEF Calm
    <2> HIDE DEF on
    <2>3. Member(told)
        BY <2>2, CalmEmit DEF Calm
    <2> HIDE DEF told
    <2>4. Member(C!Deactivate(told, "ClientUser", ready, w))
        BY <2>3, CalmDeactivate DEF Calm
    <2> QED BY <2>3, <2>4 DEF C!ConnectionEstablished, done, on, told
<1>2. ASSUME Len(c.queue) > 1
      PROVE  Member(C!ActivateNext([c EXCEPT !.queue = Tail(@)], w))
    <2> DEFINE d == [c EXCEPT !.queue = Tail(@)]
    <2>1. Member(d) /\ d.queue # <<>>
        BY <1>2, NextHop
    <2> HIDE DEF d
    <2>2. Member(C!ActivateNext(d, w))
        BY <2>1, CalmActivateNext DEF Calm
    <2> QED BY <2>2 DEF d
<1> QED BY <1>1, <1>2 DEF C!OnConnected

LEMMA MemberInitialized ==
    ASSUME NEW c, Member(c), NEW connected \in BOOLEAN
    PROVE  /\ Member(C!OnInitialized(c, TRUE, connected))
           /\ ~connected => C!OnInitialized(c, TRUE, connected).state # "On"
<1> DEFINE next == C!ProcessNextStep(c)
<1>1. Member(next)
    BY CalmProcess DEF Calm
<1> HIDE DEF next
<1>2. /\ Member(C!SetState(next, "Off")) /\ C!SetState(next, "Off").state # "On"
      /\ Member(C!SetState(next, "On"))
    BY <1>1, CalmSetState
<1>3. Member([C!SetState(next, "On") EXCEPT !.connectedTime = TRUE, !.timer = TRUE])
    BY <1>2 DEF Member, Fields
<1> QED BY <1>2, <1>3 DEF C!OnInitialized, next

LEMMA CalmTimeout ==
    ASSUME NEW c, Member(c), NEW ready \in BOOLEAN, NEW w \in Worlds
    PROVE  Calm(c, C!OnHandshakeTimeout(c, ready, w))
<1> DEFINE retried == [c EXCEPT !.retry = @ + 1]
<1>1. Calm(c, retried) /\ Member(retried)
    BY DEF Calm, Member, Fields
<1> HIDE DEF retried
<1>2. Calm(c, C!ServerUnavailable(retried))
    BY <1>1, CalmEmit, CalmTransitive DEF C!ServerUnavailable
<1>3. Calm(c, C!ActivateInternal(retried, "RandomizeServerSelection", c.initiator, w))
    BY <1>1, CalmActivateInternal, CalmTransitive
<1> QED BY <1>2, <1>3, CalmDeactivate DEF C!OnHandshakeTimeout, retried

LEMMA CalmQuit ==
    ASSUME NEW c, Member(c), NEW ready \in BOOLEAN, NEW w \in Worlds
    PROVE  Calm(c, C!OnQuit(c, ready, w))
<1> DEFINE quitting == [c EXCEPT !.nextStep = "Quit"]
<1>1. Calm(c, quitting) /\ Member(quitting)
    BY DEF Calm, Member, Fields
<1> HIDE DEF quitting
<1>2. Calm(c, C!Emit(quitting, {"readyToQuit"}))
    BY <1>1, CalmEmit, CalmTransitive
<1>3. Calm(c, C!Deactivate(quitting, "ClientUser", ready, w))
    BY <1>1, CalmDeactivate, CalmTransitive
<1> QED BY <1>1, <1>2, <1>3 DEF C!OnQuit, quitting

\* What a user asks for.
Asked == {"activate", "deactivate", "switch", "silentSwitch", "getStatus", "quit"}

LEMMA CalmCommand ==
    ASSUME NEW c, Member(c), NEW command \in Asked, NEW loc \in Locations, NEW user,
           NEW ready \in BOOLEAN, NEW w \in Worlds
    PROVE  Calm(c, CommandResult(command, c, loc, user, ready, w))
<1>1. C!ServerDataOf(loc) \in ServerData
    BY DEF C!ServerDataOf, ServerData, Names
<1>2. c.server \in ServerData
    BY DEF Member
<1>3. CASE command = "activate"
    BY <1>1, <1>3, CalmActivate DEF CommandResult
<1>4. CASE command = "deactivate"
    BY <1>4, CalmDeactivate DEF CommandResult
<1>5. CASE command = "switch"
    BY <1>1, <1>5, CalmSwitchTo DEF CommandResult, Calm
<1>6. CASE command = "silentSwitch"
    BY <1>2, <1>6, CalmSwitchTo DEF CommandResult, Calm
<1>7. CASE command = "getStatus"
    BY <1>7, CalmGetStatus DEF CommandResult
<1>8. CASE command = "quit"
    BY <1>8, CalmQuit DEF CommandResult
<1> QED BY <1>3, <1>4, <1>5, <1>6, <1>7, <1>8 DEF Asked

-----------------------------------------------------------------------------
\* LocalSocketController: what the calls of the Controller write.

Orders == [type : {"activate"}, config : {InterfaceConfig(hop, exit) : hop \in Hops,
                                                                      exit \in Names}]
          \cup [type : {"deactivate", "status", "logs", "cleanlogs"}]

SocketFields == {"daemonState", "socket", "interval", "initializingTimer", "timeouts",
                 "written", "signals"}

\* A LocalSocketController that has written nothing but orders.
Writer(l) == DOMAIN l = SocketFields /\ l.written \in Seq(Orders)

\* A step that keeps the connection as it is.
SameLink(l, r) == Writer(r) /\ r.socket = l.socket /\ r.daemonState = l.daemonState

LEMMA SameWrite ==
    ASSUME NEW l, Writer(l), NEW message \in Orders, NEW expected
    PROVE  SameLink(l, L!Write(l, message, expected))
BY DEF L!Write, SameLink, Writer, SocketFields

LEMMA SameCarry ==
    ASSUME NEW l, Writer(l), NEW call \in Calls, NEW exit \in Names
    PROVE  SameLink(l, Carry(l, call, exit))
<1>1. call.op \in {"activate", "deactivate", "checkStatus"} /\ call.hop \in Hops
    BY DEF Calls
<1>2. [type |-> "activate", config |-> InterfaceConfig(call.hop, exit)] \in Orders
    BY <1>1 DEF Orders
<1>3. [type |-> "deactivate"] \in Orders /\ [type |-> "status"] \in Orders
    BY DEF Orders
<1>4. SameLink(l, L!ActivateConfig(l, InterfaceConfig(call.hop, exit)))
    BY <1>2, SameWrite DEF L!ActivateConfig
<1>5. SameLink(l, L!SendDeactivate(l)) /\ SameLink(l, L!CheckStatus(l))
    BY <1>3, SameWrite DEF L!SendDeactivate, L!CheckStatus, SameLink
<1> QED BY <1>1, <1>4, <1>5 DEF Carry

LEMMA SameCarryAll ==
    ASSUME NEW l, Writer(l), NEW c, Member(c)
    PROVE  SameLink(l, CarryAll(l, c))
<1>1. c.server.exit \in Names /\ Len(c.calls) \in Nat
    BY DEF Member, ServerData
<1>2. \A i \in 1..Len(c.calls) : c.calls[i] \in Calls
    BY DEF Member
<1> DEFINE first == IF Len(c.calls) = 0 THEN l ELSE Carry(l, c.calls[1], c.server.exit)
<1>3. SameLink(l, first)
    BY <1>1, <1>2, SameCarry DEF SameLink
<1> HIDE DEF first
<1>4. ASSUME ~(Len(c.calls) < 2)
      PROVE  SameLink(l, Carry(first, c.calls[2], c.server.exit))
    <2>1. c.calls[2] \in Calls
        BY <1>1, <1>2, <1>4
    <2> QED BY <1>1, <1>3, <2>1, SameCarry DEF SameLink
<1> QED BY <1>3, <1>4 DEF CarryAll, first

LEMMA CalmError ==
    ASSUME NEW c, Member(c), NEW l, Writer(l), NEW w \in Worlds
    PROVE  /\ Calm(c, ErrorOccurred(c, l, w).c)
           /\ SameLink(l, ErrorOccurred(c, l, w).l)
<1> DEFINE told == IF L!ErrorSignals(l) = <<>> THEN [c EXCEPT !.calls = <<>>]
                   ELSE C!OnDisconnected([c EXCEPT !.calls = <<>>], w)
<1>1. Calm(c, [c EXCEPT !.calls = <<>>]) /\ Member([c EXCEPT !.calls = <<>>])
    BY EmptySeq DEF Calm, Member, Fields
<1>2. Calm(c, told)
    BY <1>1, CalmDisconnected DEF Calm
<1> HIDE DEF told
<1>3. SameLink(l, CarryAll(l, told))
    BY <1>2, SameCarryAll DEF Calm
<1>4. SameLink(l, L!ScheduleReconnect(CarryAll(l, told)))
    BY <1>3 DEF L!ScheduleReconnect, SameLink, Writer, SocketFields
<1> QED BY <1>2, <1>4 DEF ErrorOccurred, told

-----------------------------------------------------------------------------
\* The daemon of a client that asks for single hops.

Replies == [type : {"status"}, connected : BOOLEAN, date : BOOLEAN, hop : Types]
           \cup [type : {"connected"}, pubkey : Names]
           \cup [type : {"disconnected", "logs"}]

\* The messages that make the client show a tunnel.
ShowsTunnel(message) ==
    message.type = "connected" \/ (message.type = "status" /\ message.connected)

DaemonFields == {"connections", "handshakeTimer", "session", "interface", "peers",
                 "handshakes", "routes", "resolvers", "out"}

SingleConfigs == {InterfaceConfig(hop, exit) : hop \in [key : Names, type : {"SingleHop"}],
                                               exit \in Names}

\* At most one connection, of a single hop, to the internet, with its peer.
SingleDaemon(d) ==
    /\ DOMAIN d = DaemonFields
    /\ DOMAIN d.connections \subseteq {"SingleHop"}
    /\ \A t \in DOMAIN d.connections :
          /\ DOMAIN d.connections[t] = {"config", "date"}
          /\ d.connections[t].date \in BOOLEAN
          /\ d.connections[t].config \in SingleConfigs
          /\ d.connections[t].config.key \in d.peers
    /\ d.out \in Seq(Replies)

Tunnel(d) ==
    \E t \in DOMAIN d.connections :
        /\ Internet \in d.connections[t].config.ranges
        /\ d.connections[t].config.key \in d.peers

LEMMA SingleConfigFields ==
    ASSUME NEW cfg \in SingleConfigs
    PROVE  /\ cfg.type = "SingleHop" /\ cfg.key \in Names /\ cfg.identity = Identity
           /\ cfg.ranges = {Internet}
BY DEF SingleConfigs, InterfaceConfig

LEMMA SingleTunnel ==
    ASSUME NEW d, SingleDaemon(d)
    PROVE  Tunnel(d) <=> "SingleHop" \in DOMAIN d.connections
BY SingleConfigFields DEF SingleDaemon, Tunnel

\* One step of the daemon from d to r: a tunnel is kept or reported gone, and a
\* tunnel that is reported is there.
Honest(d, r) ==
    /\ SingleDaemon(r)
    /\ Tunnel(d) => Tunnel(r) \/ \E k \in DOMAIN r.out : r.out[k].type = "disconnected"
    /\ \A k \in DOMAIN r.out : ShowsTunnel(r.out[k]) => Tunnel(r)

\* A call that says nothing and takes no connection away.
Keeps(d, r) ==
    /\ SingleDaemon(r)
    /\ r.out = d.out
    /\ DOMAIN d.connections \subseteq DOMAIN r.connections

LEMMA KeepsTransitive ==
    ASSUME NEW a, NEW b, NEW c, Keeps(a, b), Keeps(b, c)
    PROVE  Keeps(a, c)
BY DEF Keeps

\* The system calls that add to what the daemon has.
LEMMA KeepsSystem ==
    ASSUME NEW d, SingleDaemon(d), NEW peers, d.peers \subseteq peers,
           NEW interface, NEW routes, NEW resolvers
    PROVE  /\ Keeps(d, d)
           /\ Keeps(d, [d EXCEPT !.interface = interface])
           /\ Keeps(d, [d EXCEPT !.peers = peers])
           /\ Keeps(d, [d EXCEPT !.routes = routes])
           /\ Keeps(d, [d EXCEPT !.resolvers = resolvers])
           /\ Keeps(d, [d EXCEPT !.session = TRUE])
BY DEF Keeps, SingleDaemon, DaemonFields

LEMMA KeepsSetConnection ==
    ASSUME NEW d, SingleDaemon(d), NEW cfg \in SingleConfigs, cfg.key \in d.peers
    PROVE  Keeps(d, D!SetConnection(d, cfg))
<1> DEFINE cs == [t \in DOMAIN d.connections \cup {cfg.type} |->
                     IF t = cfg.type THEN D!Connection(cfg) ELSE d.connections[t]]
           r == D!SetConnection(d, cfg)
<1>1. /\ DOMAIN r = DaemonFields /\ r.connections = cs /\ r.peers = d.peers
      /\ r.out = d.out
    BY DEF D!SetConnection, SingleDaemon, DaemonFields
<1>2. cfg.type = "SingleHop"
    BY SingleConfigFields
<1>3. DOMAIN cs = {"SingleHop"} /\ cs["SingleHop"] = [config |-> cfg, date |-> FALSE]
    BY <1>2 DEF SingleDaemon, D!Connection
<1>4. /\ DOMAIN cs["SingleHop"] = {"config", "date"} /\ cs["SingleHop"].config = cfg
      /\ cs["SingleHop"].date = FALSE
    BY <1>3
<1> HIDE DEF cs, r
<1>5. SingleDaemon(r)
    BY <1>1, <1>3, <1>4 DEF SingleDaemon
<1>6. DOMAIN d.connections \subseteq DOMAIN cs
    BY <1>3 DEF SingleDaemon
<1> QED BY <1>1, <1>5, <1>6 DEF Keeps, r

LEMMA KeepsPending ==
    ASSUME NEW d, SingleDaemon(d), NEW cfg \in SingleConfigs, cfg.key \in d.peers
    PROVE  Keeps(d, D!Pending(d, cfg).d)
<1> DEFINE s == D!SetConnection(d, cfg)
<1>1. Keeps(d, s)
    BY KeepsSetConnection
<1> HIDE DEF s
<1>2. Keeps(d, [s EXCEPT !.handshakeTimer = TRUE])
    BY <1>1 DEF Keeps, SingleDaemon, DaemonFields
<1> QED BY <1>2 DEF D!Pending, D!Succeeded, s

LEMMA KeepsBringUp ==
    ASSUME NEW d, SingleDaemon(d), NEW fault
    PROVE  Keeps(d, D!BringUpInterface(d, fault).d)
BY KeepsSystem DEF D!BringUpInterface, D!Succeeded, D!Failed

LEMMA KeepsAnew ==
    ASSUME NEW d, SingleDaemon(d), NEW cfg \in SingleConfigs, NEW fault
    PROVE  Keeps(d, D!ActivateAnew(d, cfg, fault).d)
<1> DEFINE u        == D!BringUpInterface(d, fault)
           peered   == [u.d EXCEPT !.peers = @ \cup {cfg.key}]
           resolved == [peered EXCEPT !.resolvers = @ \/ D!NeedsResolvers(cfg)]
           routed   == [resolved EXCEPT !.routes = @ \cup cfg.ranges]
<1>1. Keeps(d, u.d)
    BY KeepsBringUp
<1> HIDE DEF u
<1>2. Keeps(d, peered) /\ cfg.key \in peered.peers
    BY <1>1 DEF Keeps, SingleDaemon, DaemonFields
<1> HIDE DEF peered
<1>3. Keeps(d, resolved) /\ cfg.key \in resolved.peers
    BY <1>2 DEF Keeps, SingleDaemon, DaemonFields
<1> HIDE DEF resolved
<1>4. Keeps(d, routed) /\ cfg.key \in routed.peers
    BY <1>3 DEF Keeps, SingleDaemon, DaemonFields
<1> HIDE DEF routed
<1>5. Keeps(d, D!Pending(routed, cfg).d)
    BY <1>4, KeepsPending, KeepsTransitive DEF Keeps
<1> QED
    BY <1>1, <1>2, <1>3, <1>5 DEF D!ActivateAnew, D!Failed, u, peered, resolved, routed

LEMMA KeepsSwitch ==
    ASSUME NEW d, SingleDaemon(d), NEW cfg \in SingleConfigs,
           cfg.type \in DOMAIN d.connections, NEW fault
    PROVE  /\ Keeps(d, D!SwitchServer(d, cfg, fault).d)
           /\ D!SwitchServer(d, cfg, fault).ok
                 => cfg.key \in D!SwitchServer(d, cfg, fault).d.peers
<1> DEFINE last   == d.connections[cfg.type].config
           peered == [d EXCEPT !.peers = @ \cup {cfg.key}]
           routed == [peered EXCEPT !.routes =
                         ((IF fault = "updateRoute" THEN @ ELSE @ \cup cfg.ranges)
                             \ (last.ranges \ cfg.ranges))]
           pruned == IF cfg.key = last.key THEN routed
                     ELSE [routed EXCEPT !.peers = @ \ {last.key},
                                         !.handshakes = @ \ {last.key}]
<1>1. cfg.type = "SingleHop" /\ DOMAIN d.connections = {"SingleHop"}
    BY SingleConfigFields DEF SingleDaemon
<1>2. Keeps(d, peered) /\ cfg.key \in peered.peers
      /\ peered.connections = d.connections
    BY DEF Keeps, SingleDaemon, DaemonFields
<1> HIDE DEF peered
<1>3. Keeps(d, routed) /\ cfg.key \in routed.peers
      /\ routed.connections = d.connections
    BY <1>2 DEF Keeps, SingleDaemon, DaemonFields
<1> HIDE DEF routed
<1>4. /\ DOMAIN pruned = DaemonFields /\ pruned.connections = d.connections
      /\ cfg.key \in pruned.peers /\ pruned.out = d.out
    BY <1>3 DEF Keeps, SingleDaemon, DaemonFields
<1> HIDE DEF pruned
<1> DEFINE s == D!SetConnection(pruned, cfg)
           cs == [t \in DOMAIN pruned.connections \cup {cfg.type} |->
                     IF t = cfg.type THEN D!Connection(cfg) ELSE pruned.connections[t]]
<1>5. /\ DOMAIN s = DaemonFields /\ s.connections = cs /\ s.peers = pruned.peers
      /\ s.out = d.out
    BY <1>4 DEF D!SetConnection, DaemonFields
<1>6. DOMAIN cs = {"SingleHop"} /\ cs["SingleHop"] = [config |-> cfg, date |-> FALSE]
    BY <1>1, <1>4 DEF D!Connection
<1>9. /\ DOMAIN cs["SingleHop"] = {"config", "date"} /\ cs["SingleHop"].config = cfg
      /\ cs["SingleHop"].date = FALSE
    BY <1>6
<1> HIDE DEF s, cs
<1>10. SingleDaemon(s)
    BY <1>4, <1>5, <1>6, <1>9 DEF SingleDaemon
<1>7. Keeps(d, s) /\ cfg.key \in s.peers
    BY <1>1, <1>4, <1>5, <1>6, <1>10 DEF Keeps
<1>8. Keeps(d, d)
    BY KeepsSystem
<1> QED
    BY <1>3, <1>7, <1>8
    DEF D!SwitchServer, D!Failed, D!Succeeded, last, peered, routed, pruned, s

LEMMA KeepsSwitching ==
    ASSUME NEW d, SingleDaemon(d), NEW cfg \in SingleConfigs,
           cfg.type \in DOMAIN d.connections, NEW fault
    PROVE  Keeps(d, D!ActivateBySwitching(d, cfg, fault).d)
<1> DEFINE switched == D!SwitchServer(d, cfg, fault)
           restored == [switched.d EXCEPT !.resolvers = FALSE]
           resolved == [restored EXCEPT !.resolvers = D!NeedsResolvers(cfg)]
<1>1. Keeps(d, switched.d) /\ (switched.ok => cfg.key \in switched.d.peers)
    BY KeepsSwitch
<1> HIDE DEF switched
<1>2. Keeps(d, restored) /\ restored.peers = switched.d.peers
    BY <1>1 DEF Keeps, SingleDaemon, DaemonFields
<1> HIDE DEF restored
<1>3. Keeps(d, resolved) /\ resolved.peers = switched.d.peers
    BY <1>2 DEF Keeps, SingleDaemon, DaemonFields
<1> HIDE DEF resolved
<1>4. ASSUME switched.ok PROVE Keeps(d, D!Pending(resolved, cfg).d)
    BY <1>1, <1>3, <1>4, KeepsPending, KeepsTransitive DEF Keeps
<1> QED
    BY <1>1, <1>2, <1>4
    DEF D!ActivateBySwitching, D!Failed, switched, restored, resolved

LEMMA KeepsActivate ==
    ASSUME NEW d, SingleDaemon(d), NEW cfg \in SingleConfigs, NEW fault
    PROVE  Keeps(d, D!ActivateDaemon(d, cfg, fault).d)
<1>1. CASE cfg.type \notin DOMAIN d.connections
    BY <1>1, KeepsAnew DEF D!ActivateDaemon
<1>2. CASE cfg.type \in DOMAIN d.connections
    <2>1. D!SupportServerSwitching(d, cfg)
        BY <1>2, SingleConfigFields DEF D!SupportServerSwitching, SingleDaemon
    <2> QED BY <1>2, <2>1, KeepsSwitching DEF D!ActivateDaemon
<1> QED BY <1>1, <1>2

LEMMA DeactivateReports ==
    ASSUME NEW d, SingleDaemon(d), d.out = <<>>, NEW fault
    PROVE  LET r == D!DeactivateDaemon(d, TRUE, fault).d
           IN  SingleDaemon(r) /\ r.out = <<D!Message("disconnected")>>
<1> DEFINE cleared == D!TornDown(d, TRUE, fault)
           gone == [cleared EXCEPT !.interface = "absent", !.routes = {},
                                   !.peers = {}, !.handshakes = {}]
<1>1. /\ DOMAIN cleared = DaemonFields /\ cleared.connections = <<>>
      /\ cleared.out = <<D!Message("disconnected")>>
    BY DEF D!TornDown, SingleDaemon, DaemonFields
<1> HIDE DEF cleared
<1>2. /\ DOMAIN gone = DaemonFields /\ gone.connections = <<>>
      /\ gone.out = <<D!Message("disconnected")>>
    BY <1>1 DEF DaemonFields
<1> HIDE DEF gone
<1>3. D!Message("disconnected") \in Replies
    BY DEF D!Message, Replies
<1>4. <<D!Message("disconnected")>> \in Seq(Replies) /\ DOMAIN <<>> = {}
    BY <1>3
<1>5. SingleDaemon(cleared) /\ SingleDaemon(gone)
    BY <1>1, <1>2, <1>4 DEF SingleDaemon
<1> QED
    BY <1>1, <1>2, <1>5 DEF D!DeactivateDaemon, D!Failed, D!Succeeded, cleared, gone

SingleOrders == [type : {"activate"}, config : SingleConfigs]
                \cup [type : {"deactivate", "status", "logs", "cleanlogs"}]

LEMMA HonestReply ==
    ASSUME NEW d, SingleDaemon(d), d.out = <<>>, NEW message \in Replies,
           ShowsTunnel(message) => Tunnel(d)
    PROVE  /\ Honest(d, D!Reply(d, message)) /\ D!Reply(d, message).out = <<message>>
           /\ (Tunnel(d) <=> Tunnel(D!Reply(d, message)))
<1> DEFINE r == D!Reply(d, message)
<1>1. /\ DOMAIN r = DaemonFields /\ r.connections = d.connections /\ r.peers = d.peers
      /\ r.out = <<message>>
    BY DEF D!Reply, SingleDaemon, DaemonFields
<1> HIDE DEF r
<1>2. r.out \in Seq(Replies) /\ DOMAIN r.out = {1} /\ r.out[1] = message
    BY <1>1
<1>3. SingleDaemon(r)
    BY <1>1, <1>2 DEF SingleDaemon
<1>4. Tunnel(d) <=> Tunnel(r)
    BY <1>1 DEF Tunnel
<1> QED BY <1>1, <1>2, <1>3, <1>4 DEF Honest, r

LEMMA StatusIsHonest ==
    ASSUME NEW d, SingleDaemon(d)
    PROVE  /\ D!GetStatusReply(d) \in Replies
           /\ ShowsTunnel(D!GetStatusReply(d)) => Tunnel(d)
<1> DEFINE first == d.connections[D!FirstType(d)]
           works == /\ d.interface # "absent"
                    /\ DOMAIN d.connections # {}
                    /\ first.config.key \in d.peers
<1>1. CASE works
    <2>1. DOMAIN d.connections = {"SingleHop"}
        BY <1>1 DEF SingleDaemon
    <2>2. D!FirstType(d) = "SingleHop"
        <3> DEFINE present == {i \in 1..3 : D!HopOrder[i] \in DOMAIN d.connections}
        <3>1. D!HopOrder[1] = "SingleHop" /\ D!HopOrder[2] # "SingleHop"
              /\ D!HopOrder[3] # "SingleHop"
            BY DEF D!HopOrder
        <3>2. present = {1}
            BY <2>1, <3>1
        <3> HIDE DEF present
        <3>3. (CHOOSE i \in present : \A j \in present : i <= j) = 1
            BY <3>2
        <3> QED BY <3>1, <3>3 DEF D!FirstType, present
    <2>3. first.config \in SingleConfigs /\ first.date \in BOOLEAN
        BY <2>1, <2>2 DEF SingleDaemon
    <2>4. first.config.type \in Types
        BY <2>3, SingleConfigFields DEF Types
    <2>5. Tunnel(d)
        BY <2>1, SingleTunnel
    <2>6. D!GetStatusReply(d) = [type |-> "status", connected |-> TRUE, date |-> first.date,
                                 hop |-> first.config.type]
        BY <1>1 DEF D!GetStatusReply
    <2> QED BY <2>3, <2>4, <2>5, <2>6 DEF Replies
<1>2. CASE ~works
    <2>1. D!GetStatusReply(d) = [type |-> "status", connected |-> FALSE, date |-> FALSE,
                                 hop |-> "SingleHop"]
        BY <1>2 DEF D!GetStatusReply
    <2> QED BY <2>1 DEF Replies, ShowsTunnel, Types
<1> QED BY <1>1, <1>2

LEMMA HonestKeeps ==
    ASSUME NEW d, SingleDaemon(d), d.out = <<>>, NEW r, Keeps(d, r)
    PROVE  Honest(d, r) /\ (Tunnel(d) => Tunnel(r))
<1>1. DOMAIN r.out = {}
    BY DEF Keeps
<1>2. Tunnel(d) => Tunnel(r)
    BY SingleTunnel DEF Keeps
<1> QED BY <1>1, <1>2 DEF Honest, Keeps

\* A command is honest, and only a deactivation takes a tunnel down.
LEMMA HonestCommand ==
    ASSUME NEW d, SingleDaemon(d), d.out = <<>>, NEW command \in SingleOrders, NEW fault
    PROVE  /\ Honest(d, D!OnCommand(d, command, fault))
           /\ command.type # "deactivate" /\ Tunnel(d)
                 => Tunnel(D!OnCommand(d, command, fault))
<1>1. command.type \in {"activate", "deactivate", "status", "logs", "cleanlogs"}
    BY DEF SingleOrders
<1>2. Keeps(d, d) /\ Honest(d, d)
    BY KeepsSystem, HonestKeeps
<1>3. /\ D!Message("logs") \in Replies /\ ~ShowsTunnel(D!Message("logs"))
      /\ D!Message("disconnected") \in Replies /\ ~ShowsTunnel(D!Message("disconnected"))
    BY DEF D!Message, Replies, ShowsTunnel
<1>4. /\ Honest(d, D!Reply(d, D!Message("logs")))
      /\ Tunnel(d) => Tunnel(D!Reply(d, D!Message("logs")))
    BY <1>3, HonestReply
<1>5. CASE ~D!Authorized(d, command.type)
    BY <1>1, <1>2, <1>4, <1>5 DEF D!OnCommand
<1>6. CASE D!Authorized(d, command.type) /\ command.type = "activate"
    <2> DEFINE s == [d EXCEPT !.session = TRUE]
               activated == D!ActivateDaemon(s, command.config, fault)
    <2>1. command.config \in SingleConfigs
        BY <1>6 DEF SingleOrders
    <2>2. Keeps(d, s)
        BY KeepsSystem
    <2> HIDE DEF s
    <2>3. Keeps(d, activated.d)
        BY <2>1, <2>2, KeepsActivate, KeepsTransitive DEF Keeps
    <2> HIDE DEF activated
    <2>4. Honest(d, activated.d) /\ (Tunnel(d) => Tunnel(activated.d))
        BY <2>3, HonestKeeps
    <2>5. SingleDaemon(activated.d) /\ activated.d.out = <<>>
        BY <2>3 DEF Keeps
    <2> DEFINE r == D!Reply(activated.d, D!Message("disconnected"))
    <2>6. Honest(activated.d, r) /\ (Tunnel(activated.d) => Tunnel(r))
        BY <1>3, <2>5, HonestReply
    <2> HIDE DEF r
    <2>7. Honest(d, r) /\ (Tunnel(d) => Tunnel(r))
        BY <2>4, <2>6 DEF Honest
    <2>8. D!OnCommand(d, command, fault) = IF activated.ok THEN activated.d ELSE r
        BY <1>6 DEF D!OnCommand, activated, r, s
    <2> QED BY <2>4, <2>7, <2>8
<1>7. CASE D!Authorized(d, command.type) /\ command.type = "deactivate"
    <2> DEFINE s == [d EXCEPT !.session = FALSE]
               r == D!DeactivateDaemon(s, TRUE, fault).d
    <2>1. SingleDaemon(s) /\ s.out = <<>>
        BY DEF SingleDaemon, DaemonFields
    <2> HIDE DEF s
    <2>2. SingleDaemon(r) /\ r.out = <<D!Message("disconnected")>>
        BY <2>1, DeactivateReports
    <2> HIDE DEF r
    <2>3. DOMAIN r.out = {1} /\ r.out[1].type = "disconnected"
        BY <2>2 DEF D!Message
    <2>4. Honest(d, r)
        BY <2>2, <2>3 DEF Honest, ShowsTunnel
    <2> QED BY <1>7, <2>4 DEF D!OnCommand, r, s
<1>8. CASE D!Authorized(d, command.type) /\ command.type = "status"
    <2>1. /\ Honest(d, D!Reply(d, D!GetStatusReply(d)))
          /\ Tunnel(d) => Tunnel(D!Reply(d, D!GetStatusReply(d)))
        BY StatusIsHonest, HonestReply
    <2> QED BY <1>8, <2>1 DEF D!OnCommand
<1>9. CASE D!Authorized(d, command.type) /\ command.type = "logs"
    BY <1>4, <1>9 DEF D!OnCommand
<1>10. CASE D!Authorized(d, command.type) /\ command.type = "cleanlogs"
    BY <1>2, <1>10 DEF D!OnCommand
<1> QED BY <1>1, <1>5, <1>6, <1>7, <1>8, <1>9, <1>10

LEMMA HonestHandshakes ==
    ASSUME NEW d, SingleDaemon(d), d.out = <<>>
    PROVE  Honest(d, D!CheckHandshakeOf(d))
<1> DEFINE done == {t \in DOMAIN d.connections :
                        /\ ~d.connections[t].date
                        /\ d.connections[t].config.key \in d.handshakes}
           dated == [t \in DOMAIN d.connections |->
                        IF t \in done THEN [d.connections[t] EXCEPT !.date = TRUE]
                        ELSE d.connections[t]]
           told(t) == IF t \in done
                      THEN <<D!ConnectedMessage(d.connections[t].config.key)>> ELSE <<>>
           said == <<>> \o told("SingleHop") \o told("MultiHopEntry") \o told("MultiHopExit")
           r == D!CheckHandshakeOf(d)
<1>1. /\ DOMAIN r = DaemonFields /\ r.connections = dated /\ r.peers = d.peers
      /\ r.out = said
    BY DEF D!CheckHandshakeOf, SingleDaemon, DaemonFields, D!HopOrder
<1>2. done \subseteq {"SingleHop"} /\ done \subseteq DOMAIN d.connections
    BY DEF SingleDaemon
<1>3. told("MultiHopEntry") = <<>> /\ told("MultiHopExit") = <<>>
    BY <1>2
<1>4. said = <<>> \/ (/\ said = <<D!ConnectedMessage(d.connections["SingleHop"].config.key)>>
                      /\ "SingleHop" \in DOMAIN d.connections)
    <2> DEFINE m == D!ConnectedMessage(d.connections["SingleHop"].config.key)
               a == told("SingleHop")
    <2>1. a = <<>> \/ (a = <<m>> /\ "SingleHop" \in DOMAIN d.connections)
        BY <1>2
    <2> HIDE DEF m
    <2>2. a \in Seq({m})
        <3> HIDE DEF a
        <3>1. <<m>> \in Seq({m}) /\ <<>> \in Seq({m})
            BY EmptySeq
        <3> QED BY <2>1, <3>1
    <2>3. said = <<>> \o a \o <<>> \o <<>>
        BY <1>3
    <2> HIDE DEF a, said
    <2>4. said = a
        BY <2>2, <2>3, ConcatEmptySeq
    <2> QED BY <2>1, <2>4 DEF m
<1>5. /\ DOMAIN dated = DOMAIN d.connections
      /\ \A t \in DOMAIN dated :
            /\ DOMAIN dated[t] = {"config", "date"} /\ dated[t].date \in BOOLEAN
            /\ dated[t].config = d.connections[t].config
    BY DEF SingleDaemon
<1> HIDE DEF said, dated, r
<1>6. ASSUME "SingleHop" \in DOMAIN d.connections
      PROVE  D!ConnectedMessage(d.connections["SingleHop"].config.key) \in Replies
    <2>1. d.connections["SingleHop"].config.key \in Names
        BY <1>6, SingleConfigFields DEF SingleDaemon
    <2> QED BY <2>1 DEF D!ConnectedMessage, Replies
<1>7. said \in Seq(Replies)
    <2> DEFINE m == D!ConnectedMessage(d.connections["SingleHop"].config.key)
    <2>1. said = <<>> \/ (said = <<m>> /\ m \in Replies)
        BY <1>4, <1>6
    <2> HIDE DEF m
    <2>2. m \in Replies => <<m>> \in Seq(Replies)
        OBVIOUS
    <2> QED BY <2>1, <2>2, EmptySeq
<1>8. SingleDaemon(r)
    BY <1>1, <1>5, <1>7 DEF SingleDaemon
<1>9. /\ Tunnel(d) <=> "SingleHop" \in DOMAIN d.connections
      /\ Tunnel(r) <=> "SingleHop" \in DOMAIN d.connections
    BY <1>1, <1>5, <1>8, SingleTunnel
<1>10. said # <<>> => Tunnel(r)
    BY <1>4, <1>9
<1>11. said = <<>> => DOMAIN said = {}
    OBVIOUS
<1> QED BY <1>1, <1>8, <1>9, <1>10, <1>11 DEF Honest, r

-----------------------------------------------------------------------------
\* On has a tunnel, when every route has a single hop.

SingleHopsOnly == MultihopLocations \cap Locations = {} \/ ~MultihopSupported

\* After message i of q there is still a tunnel, or the client will hear that there
\* is none.
Kept(d, q, i) == Tunnel(d) \/ \E j \in DOMAIN q : j > i /\ q[j].type = "disconnected"

\* What a message shows was so when it was sent, and is so or is taken back by a
\* later message; so is what the client shows.
SingleInv ==
    /\ Member(ctl) /\ Writer(lsc) /\ SingleDaemon(dmn)
    /\ up \in Seq(SingleOrders) /\ down \in Seq(Replies)
    /\ lsc.socket = "connecting" => lsc.daemonState = "eInitializing"
    /\ lsc.socket \in {"closed", "connecting"} => down = <<>>
    /\ lsc.socket = "open" =>
          \A i \in DOMAIN down : ShowsTunnel(down[i]) => Kept(dmn, down, i)
    /\ lsc.socket = "open" /\ lsc.daemonState = "eReady" /\ ctl.state = "On" =>
          Kept(dmn, down, 0)

LEMMA OrdersAreSingle ==
    ASSUME SingleHopsOnly
    PROVE  Orders = SingleOrders
<1>1. Hops = [key : Names, type : {"SingleHop"}]
    BY DEF SingleHopsOnly, Hops, HopKinds
<1> QED BY <1>1 DEF Orders, SingleOrders, SingleConfigs

LEMMA FreshMember ==
    ASSUME Member(ctl)
    PROVE  Calm(ctl, C!Fresh) /\ Member(C!Fresh) /\ C!Fresh.state = ctl.state
BY EmptySeq DEF C!Fresh, Calm, Member, Fields

LEMMA SilentWriter ==
    ASSUME Writer(lsc)
    PROVE  SameLink(lsc, L!Silent) /\ L!Silent.signals = <<>>
BY EmptySeq DEF L!Silent, SameLink, Writer, SocketFields

LEMMA ConstructedMember ==
    ASSUME NEW loc \in Locations, NEW b
    PROVE  Member(C!Constructed(loc, b)) /\ C!Constructed(loc, b).state # "On"
<1>1. C!ServerDataOf(loc) \in ServerData
    BY DEF C!ServerDataOf, ServerData, Names
<1> QED BY <1>1, EmptySeq DEF C!Constructed, Member, Fields

LEMMA NewSocket ==
    ASSUME NEW l, Writer(l)
    PROVE  LET r == L!InitializeInternal(l)
           IN  /\ Writer(r) /\ r.socket = "connecting" /\ r.daemonState = "eInitializing"
               /\ r.written = l.written
<1> DEFINE initializing == [l EXCEPT !.interval = L!Backoff(l),
                                     !.daemonState = "eInitializing"]
           aborted == IF l.socket \in {"open", "broken"}
                      THEN L!ScheduleReconnect(initializing) ELSE initializing
<1>1. Writer(initializing) /\ initializing.daemonState = "eInitializing"
      /\ initializing.written = l.written
    BY DEF Writer, SocketFields
<1> HIDE DEF initializing
<1>2. Writer(aborted) /\ aborted.daemonState = "eInitializing"
      /\ aborted.written = l.written
    BY <1>1 DEF Writer, SocketFields, L!ScheduleReconnect
<1> HIDE DEF aborted
<1>3. /\ Writer([aborted EXCEPT !.socket = "connecting"])
      /\ [aborted EXCEPT !.socket = "connecting"].socket = "connecting"
      /\ [aborted EXCEPT !.socket = "connecting"].daemonState = "eInitializing"
      /\ [aborted EXCEPT !.socket = "connecting"].written = l.written
    BY <1>2 DEF Writer, SocketFields
<1> QED BY <1>3 DEF L!InitializeInternal, aborted, initializing

LEMMA CreatedWriter == Writer(L!Created) /\ L!Created.written = <<>>
BY EmptySeq DEF L!Created, Writer, SocketFields

\* A step of the client that neither shows On nor touches the socket.
LEMMA CalmClientStep ==
    ASSUME SingleHopsOnly, SingleInv, NEW c, NEW l, Calm(ctl, c), SameLink(lsc, l),
           ClientStep(c, l), UNCHANGED <<dmn, down>>
    PROVE  SingleInv'
<1>1. ctl' = c /\ lsc' = l /\ up' = up \o l.written /\ dmn' = dmn /\ down' = down
    BY DEF ClientStep
<1>2. l.written \in Seq(SingleOrders)
    BY OrdersAreSingle DEF SameLink, Writer
<1>3. up' \in Seq(SingleOrders)
    BY <1>1, <1>2, ConcatProperties DEF SingleInv
<1>4. Member(ctl') /\ Writer(lsc') /\ SingleDaemon(dmn')
    BY <1>1 DEF Calm, SameLink, SingleInv
<1>5. /\ lsc'.socket = lsc.socket /\ lsc'.daemonState = lsc.daemonState
      /\ ctl'.state = "On" => ctl.state = "On"
    BY <1>1 DEF SameLink, Calm
<1>6. \A i : Kept(dmn', down', i) <=> Kept(dmn, down, i)
    BY <1>1
<1> QED BY <1>1, <1>3, <1>4, <1>5, <1>6 DEF SingleInv

LEMMA SingleInit ==
    ASSUME SingleHopsOnly, Init
    PROVE  SingleInv
<1>1. PICK loc \in Locations, b \in BOOLEAN : ctl = C!Constructed(loc, b)
    BY DEF Init
<1>2. Member(ctl) /\ ctl.state # "On"
    BY <1>1, ConstructedMember
<1>3. /\ Writer(lsc) /\ lsc.socket = "connecting" /\ lsc.daemonState = "eInitializing"
    BY CreatedWriter, NewSocket DEF Init
<1>4. SingleDaemon(dmn)
    <2>1. dmn = D!Stopped
        BY DEF Init
    <2>2. DOMAIN <<>> = {}
        OBVIOUS
    <2> QED BY <2>1, <2>2, EmptySeq DEF D!Stopped, SingleDaemon, DaemonFields
<1>5. up = <<>> /\ down = <<>>
    BY DEF Init
<1> QED BY <1>2, <1>3, <1>4, <1>5, EmptySeq DEF SingleInv

LEMMA ReadyBoolean == ReadyOf(lsc) \in BOOLEAN
BY DEF ReadyOf

\* A handler of the Controller and the calls it makes.
LEMMA CalmHandler ==
    ASSUME SingleHopsOnly, SingleInv, NEW c, Calm(ctl, c),
           ClientStep(c, CarryAll(L!Silent, c)), UNCHANGED <<dmn, down>>
    PROVE  SingleInv'
<1>1. Writer(L!Silent) /\ SameLink(lsc, L!Silent)
    BY SilentWriter DEF SingleInv, SameLink
<1>2. SameLink(lsc, CarryAll(L!Silent, c))
    BY <1>1, SameCarryAll DEF SameLink, Calm
<1> QED BY <1>2, CalmClientStep

LEMMA SingleUserCommand ==
    ASSUME SingleHopsOnly, SingleInv, NEW command \in Requests \ {"cleanlogs"},
           NEW loc \in Locations, NEW user \in Askers, NEW w \in Worlds,
           UserCommand(command, loc, user, w)
    PROVE  SingleInv'
<1> DEFINE c == CommandResult(command, C!Fresh, loc, user, ReadyOf(lsc), w)
<1>1. command \in Asked
    BY SystemAssumption DEF Asked
<1>2. Calm(ctl, c)
    BY <1>1, FreshMember, ReadyBoolean, CalmCommand, CalmTransitive DEF SingleInv
<1>3. ClientStep(c, CarryAll(L!Silent, c)) /\ UNCHANGED <<dmn, down>>
    BY DEF UserCommand
<1> QED BY <1>2, <1>3, CalmHandler

LEMMA SingleCleanupLogs ==
    ASSUME SingleHopsOnly, SingleInv, CleanupLogs
    PROVE  SingleInv'
<1>1. [type |-> "cleanlogs"] \in Orders
    BY DEF Orders
<1>2. SameLink(lsc, L!Silent)
    BY SilentWriter DEF SingleInv
<1>3. SameLink(lsc, L!CleanupBackendLogs(L!Silent))
    BY <1>1, <1>2, SameWrite DEF L!CleanupBackendLogs, SameLink
<1>4. Calm(ctl, C!Fresh)
    BY FreshMember DEF SingleInv
<1> QED BY <1>3, <1>4, CalmClientStep DEF CleanupLogs

LEMMA SingleAccountReply ==
    ASSUME SingleHopsOnly, SingleInv, NEW user, NEW w \in Worlds, AccountReply(user, w)
    PROVE  SingleInv'
<1> DEFINE f == [C!Fresh EXCEPT !.requests[user] = @ - 1]
           c == C!StartActivation(f, "RandomizeServerSelection", user, w)
<1>1. Calm(ctl, f) /\ Member(f)
    BY FreshMember DEF SingleInv, Calm, Member, Fields
<1> HIDE DEF f
<1>2. Calm(ctl, c)
    BY <1>1, CalmStart, CalmTransitive
<1>3. ClientStep(c, CarryAll(L!Silent, c)) /\ UNCHANGED <<dmn, down>>
    BY DEF AccountReply, f
<1> QED BY <1>2, <1>3, CalmHandler

LEMMA SingleHandshakeTimeout ==
    ASSUME SingleHopsOnly, SingleInv, NEW w \in Worlds, HandshakeTimeout(w)
    PROVE  SingleInv'
<1> DEFINE f == [C!Fresh EXCEPT !.handshakeTimer = FALSE]
           c == C!OnHandshakeTimeout(f, ReadyOf(lsc), w)
<1>1. Calm(ctl, f) /\ Member(f)
    BY FreshMember DEF SingleInv, Calm, Member, Fields
<1> HIDE DEF f
<1>2. Calm(ctl, c)
    BY <1>1, ReadyBoolean, CalmTimeout, CalmTransitive
<1>3. ClientStep(c, CarryAll(L!Silent, c)) /\ UNCHANGED <<dmn, down>>
    BY DEF HandshakeTimeout, f
<1> QED BY <1>2, <1>3, CalmHandler

LEMMA SingleResponseTimeout ==
    ASSUME SingleHopsOnly, SingleInv, NEW w \in Worlds, ResponseTimeout(w)
    PROVE  SingleInv'
<1> DEFINE e == ErrorOccurred(C!Fresh, L!Silent, w)
<1>1. SameLink(lsc, L!Silent) /\ Calm(ctl, C!Fresh)
    BY SilentWriter, FreshMember DEF SingleInv
<1>2. Calm(C!Fresh, e.c) /\ SameLink(L!Silent, e.l)
    BY <1>1, CalmError DEF SameLink, Calm
<1>3. Calm(ctl, e.c) /\ SameLink(lsc, e.l)
    BY <1>1, <1>2 DEF SameLink, Calm
<1>4. ClientStep(e.c, e.l) /\ UNCHANGED <<dmn, down>>
    BY DEF ResponseTimeout
<1> HIDE DEF e
<1> QED BY <1>3, <1>4, CalmClientStep

LEMMA SingleSocketClosed ==
    ASSUME SingleHopsOnly, SingleInv, NEW w \in Worlds, SocketClosed(w)
    PROVE  SingleInv'
<1> DEFINE l == [L!Silent EXCEPT !.socket = "closed"]
           first == ErrorOccurred(C!Fresh, l, w)
           again == ErrorOccurred(first.c, first.l, w)
<1>1. Writer(l) /\ l.socket = "closed" /\ Member(C!Fresh)
    BY SilentWriter, FreshMember DEF SingleInv, SameLink, Writer, SocketFields
<1> HIDE DEF l
<1>2. Member(first.c) /\ SameLink(l, first.l)
    BY <1>1, CalmError DEF Calm
<1> HIDE DEF first
<1>3. Member(again.c) /\ SameLink(first.l, again.l)
    <2>1. Writer(first.l)
        BY <1>2 DEF SameLink
    <2>2. Calm(first.c, again.c) /\ SameLink(first.l, again.l)
        BY <1>2, <2>1, CalmError
    <2> QED BY <2>2 DEF Calm
<1>4. ClientStep(again.c, again.l) /\ UNCHANGED <<dmn, down>> /\ down = <<>>
    BY DEF SocketClosed, first, l
<1> HIDE DEF again
<1>5. Writer(again.l) /\ again.l.socket = "closed"
    BY <1>1, <1>2, <1>3 DEF SameLink
<1>6. again.l.written \in Seq(SingleOrders)
    BY <1>5, OrdersAreSingle DEF Writer
<1>7. up' \in Seq(SingleOrders)
    BY <1>4, <1>6, ConcatProperties DEF ClientStep, SingleInv
<1>8. /\ Member(ctl') /\ Writer(lsc') /\ lsc'.socket = "closed" /\ down' = <<>>
      /\ SingleDaemon(dmn')
    BY <1>3, <1>4, <1>5 DEF ClientStep, SingleInv
<1> QED BY <1>7, <1>8, EmptySeq DEF SingleInv

\* A socket that is being connected has no messages.
LEMMA SingleConnecting ==
    ASSUME SingleInv, Member(ctl'), Writer(lsc'), lsc'.socket = "connecting",
           lsc'.daemonState = "eInitializing", down' = <<>>, UNCHANGED <<dmn, up>>
    PROVE  SingleInv'
BY EmptySeq DEF SingleInv

LEMMA SingleInitializingTimeout ==
    ASSUME SingleInv, InitializingTimeout
    PROVE  SingleInv'
<1> DEFINE l == [L!Silent EXCEPT !.initializingTimer = FALSE]
<1>1. Writer(l) /\ Member(C!Fresh)
    BY SilentWriter, FreshMember DEF SingleInv, SameLink, Writer, SocketFields
<1>2. ctl' = C!Fresh /\ lsc' = L!InitializeInternal(l) /\ down' = <<>>
      /\ UNCHANGED <<dmn, up>>
    BY DEF InitializingTimeout
<1> HIDE DEF l
<1> QED BY <1>1, <1>2, NewSocket, SingleConnecting

LEMMA SingleClientRestart ==
    ASSUME SingleInv, ClientRestart
    PROVE  SingleInv'
<1>1. PICK loc \in Locations, b \in BOOLEAN : ctl' = C!Constructed(loc, b)
    BY DEF ClientRestart
<1>2. lsc' = L!InitializeInternal(L!Created) /\ down' = <<>> /\ UNCHANGED <<dmn, up>>
    BY DEF ClientRestart
<1> QED BY <1>1, <1>2, ConstructedMember, CreatedWriter, NewSocket, SingleConnecting

LEMMA SingleSocketConnected ==
    ASSUME SingleHopsOnly, SingleInv, SocketConnected
    PROVE  SingleInv'
<1> DEFINE o == [L!Silent EXCEPT !.socket = "open"]
           l == L!DaemonConnected(L!Silent)
<1>1. Writer(o) /\ o.daemonState = "eInitializing" /\ Member(C!Fresh)
    BY SilentWriter, FreshMember
    DEF SingleInv, SameLink, Writer, SocketFields, SocketConnected
<1>2. l = L!CheckStatus(o)
    BY DEF L!DaemonConnected
<1> HIDE DEF o, l
<1>3. [type |-> "status"] \in Orders
    BY DEF Orders
<1>4. Writer(l) /\ l.daemonState = "eInitializing"
    BY <1>1, <1>2, <1>3, SameWrite DEF L!CheckStatus, SameLink
<1>5. ctl' = C!Fresh /\ lsc' = l /\ up' = up \o l.written /\ dmn' = dmn /\ down' = down
    BY DEF SocketConnected, ClientStep, l
<1>6. l.written \in Seq(SingleOrders)
    BY <1>4, OrdersAreSingle DEF Writer
<1>7. up' \in Seq(SingleOrders)
    BY <1>5, <1>6, ConcatProperties DEF SingleInv
<1>8. down = <<>>
    BY DEF SingleInv, SocketConnected
<1>9. DOMAIN down = {}
    BY <1>8
<1> QED BY <1>1, <1>4, <1>5, <1>7, <1>8, <1>9 DEF SingleInv

\* What a message makes of the link and the state.
LEMMA ParseLink ==
    ASSUME NEW l, Writer(l), l.signals = <<>>, NEW m \in Replies
    PROVE  LET r == L!ParseCommand(l, m)
           IN  /\ Writer(r) /\ r.socket = l.socket
               /\ r.daemonState = "eReady" =>
                     \/ l.daemonState = "eReady"
                     \/ m.type = "status" /\ r.signals = L!InitialStatusSignals(m)
               /\ r.daemonState = "eInitializing" => l.daemonState = "eInitializing"
               /\ \/ r.signals = <<>>
                  \/ r.signals = <<L!Signal("disconnected")>> /\ m.type = "disconnected"
                  \/ r.signals = <<L!Signal("statusUpdated")>>
                  \/ /\ m.type = "connected"
                     /\ r.signals = <<[name |-> "connected", key |-> m.pubkey]>>
                  \/ /\ m.type = "status"
                     /\ r.signals = <<[name |-> "initialized", connected |-> m.connected]>>
               /\ l.daemonState = "eReady" /\ m.type = "disconnected" =>
                     r.signals = <<L!Signal("disconnected")>>
<1> DEFINE answered == [l EXCEPT !.timeouts = @ \ {m.type}]
<1>1. /\ Writer(answered) /\ answered.socket = l.socket
      /\ answered.daemonState = l.daemonState /\ answered.signals = <<>>
    BY DEF Writer, SocketFields
<1> HIDE DEF answered
<1>2. CASE l.daemonState = "eInitializing" /\ m.type = "status"
    <2>1. L!ParseCommand(l, m) = [answered EXCEPT !.daemonState = "eReady",
                                        !.signals = L!InitialStatusSignals(m)]
        BY <1>2 DEF L!ParseCommand, answered
    <2> QED BY <1>1, <1>2, <2>1 DEF L!InitialStatusSignals, Writer, SocketFields
<1>3. CASE l.daemonState = "eInitializing" /\ m.type # "status"
    <2>1. L!ParseCommand(l, m) = answered
        BY <1>3 DEF L!ParseCommand, answered
    <2> QED BY <1>1, <1>3, <2>1
<1>4. CASE l.daemonState = "eReady" /\ m.type = "status"
    <2>1. L!ParseCommand(l, m) = [answered EXCEPT !.signals = L!StatusSignals(m)]
        BY <1>4 DEF L!ParseCommand, answered
    <2> QED BY <1>1, <1>4, <2>1 DEF L!StatusSignals, Writer, SocketFields
<1>5. CASE l.daemonState = "eReady" /\ m.type = "disconnected"
    <2>1. L!ParseCommand(l, m) = [answered EXCEPT !.initializingTimer = FALSE,
                                        !.signals = <<L!Signal("disconnected")>>]
        BY <1>5 DEF L!ParseCommand, answered
    <2> QED BY <1>1, <1>5, <2>1 DEF Writer, SocketFields
<1>6. CASE l.daemonState = "eReady" /\ m.type = "connected"
    <2>1. L!ParseCommand(l, m) = [answered EXCEPT !.signals =
                                    <<[name |-> "connected", key |-> m.pubkey]>>]
        BY <1>6 DEF L!ParseCommand, answered
    <2> QED BY <1>1, <1>6, <2>1 DEF Writer, SocketFields
<1>7. CASE /\ l.daemonState # "eInitializing"
           /\ ~(l.daemonState = "eReady" /\ m.type \in {"status", "disconnected", "connected"})
    <2>1. L!ParseCommand(l, m) = answered
        BY <1>7 DEF L!ParseCommand, answered
    <2> QED BY <1>1, <1>7, <2>1
<1> QED BY <1>2, <1>3, <1>4, <1>5, <1>6, <1>7

\* Reading a message: what is kept after it is kept from the start of the rest.
LEMMA KeptTail ==
    ASSUME down \in Seq(Replies), down # <<>>, NEW i \in Nat
    PROVE  /\ Kept(dmn, down, i + 1) => Kept(dmn, Tail(down), i)
           /\ Kept(dmn, down, 0) /\ Head(down).type # "disconnected"
                 => Kept(dmn, down, 1)
<1>1. /\ Len(down) \in Nat /\ DOMAIN down = 1..Len(down)
      /\ DOMAIN Tail(down) = 1..(Len(down) - 1)
      /\ \A j \in 1..(Len(down) - 1) : Tail(down)[j] = down[j + 1]
      /\ Head(down) = down[1]
    OBVIOUS
<1>2. ASSUME NEW j \in DOMAIN down, j > i + 1, down[j].type = "disconnected"
      PROVE  Kept(dmn, Tail(down), i)
    <2>1. j - 1 \in DOMAIN Tail(down) /\ j - 1 > i /\ Tail(down)[j - 1] = down[j]
        BY <1>1, <1>2
    <2> QED BY <1>2, <2>1 DEF Kept
<1>3. Kept(dmn, down, i + 1) => Kept(dmn, Tail(down), i)
    BY <1>2 DEF Kept
<1>4. ASSUME Kept(dmn, down, 0), Head(down).type # "disconnected"
      PROVE  Kept(dmn, down, 1)
    <2>1. ASSUME NEW j \in DOMAIN down, j > 0, down[j].type = "disconnected"
          PROVE  j > 1
        BY <1>1, <1>4, <2>1
    <2> QED BY <1>4, <2>1 DEF Kept
<1> QED BY <1>3, <1>4

LEMMA MemberSlot ==
    ASSUME NEW c, Member(c), NEW l, NEW w \in Worlds, NEW m \in Replies
    PROVE  /\ Member(Slot(c, L!Signal("disconnected"), l, w))
           /\ Slot(c, L!Signal("disconnected"), l, w).state # "On"
           /\ Calm(c, Slot(c, L!Signal("statusUpdated"), l, w))
           /\ m.type = "connected" =>
                 Member(Slot(c, [name |-> "connected", key |-> m.pubkey], l, w))
           /\ m.type = "status" =>
                 LET r == Slot(c, [name |-> "initialized", connected |-> m.connected], l, w)
                 IN  Member(r) /\ (~m.connected => r.state # "On")
<1>1. ReadyOf(l) \in BOOLEAN
    BY DEF ReadyOf
<1>2. /\ Member(Slot(c, L!Signal("disconnected"), l, w))
      /\ Slot(c, L!Signal("disconnected"), l, w).state # "On"
    BY CalmDisconnected DEF Slot, L!Signal
<1>3. Calm(c, Slot(c, L!Signal("statusUpdated"), l, w))
    BY DEF Slot, L!Signal, Calm, Member, Fields
<1>4. ASSUME m.type = "connected"
      PROVE  Member(Slot(c, [name |-> "connected", key |-> m.pubkey], l, w))
    BY <1>1, MemberConnected DEF Slot
<1>5. ASSUME m.type = "status"
      PROVE  LET r == Slot(c, [name |-> "initialized", connected |-> m.connected], l, w)
             IN  Member(r) /\ (~m.connected => r.state # "On")
    <2>1. m.connected \in BOOLEAN
        BY <1>5 DEF Replies
    <2> QED BY <2>1, MemberInitialized DEF Slot
<1> QED BY <1>2, <1>3, <1>4, <1>5

LEMMA SingleClientReceive ==
    ASSUME SingleHopsOnly, SingleInv, NEW w \in Worlds, ClientReceive(w)
    PROVE  SingleInv'
<1> DEFINE m == Head(down)
           l == L!ParseCommand(L!Silent, m)
           c == IF l.signals = <<>> THEN C!Fresh ELSE Slot(C!Fresh, l.signals[1], l, w)
           k == CarryAll(l, c)
<1>1. down \in Seq(Replies) /\ down # <<>> /\ m \in Replies
    BY DEF SingleInv, ClientReceive
<1>2. /\ Writer(L!Silent) /\ L!Silent.signals = <<>> /\ L!Silent.socket = lsc.socket
      /\ L!Silent.daemonState = lsc.daemonState
    BY SilentWriter DEF SingleInv, SameLink
<1>3. Member(C!Fresh) /\ C!Fresh.state = ctl.state
    BY FreshMember DEF SingleInv
<1>4. /\ ctl' = c /\ lsc' = k /\ up' = up \o k.written /\ dmn' = dmn /\ down' = Tail(down)
      /\ lsc.socket \in {"open", "broken"}
    BY DEF ClientReceive, ClientStep
<1> HIDE DEF m
<1>5. /\ Writer(l) /\ l.socket = lsc.socket
      /\ l.daemonState = "eReady" =>
            \/ lsc.daemonState = "eReady"
            \/ m.type = "status" /\ l.signals = L!InitialStatusSignals(m)
      /\ \/ l.signals = <<>>
         \/ l.signals = <<L!Signal("disconnected")>> /\ m.type = "disconnected"
         \/ l.signals = <<L!Signal("statusUpdated")>>
         \/ /\ m.type = "connected"
            /\ l.signals = <<[name |-> "connected", key |-> m.pubkey]>>
         \/ /\ m.type = "status"
            /\ l.signals = <<[name |-> "initialized", connected |-> m.connected]>>
      /\ lsc.daemonState = "eReady" /\ m.type = "disconnected" =>
            l.signals = <<L!Signal("disconnected")>>
    BY <1>1, <1>2, ParseLink
<1> HIDE DEF l
<1>17. ASSUME NEW s, l.signals = <<s>>
       PROVE  c = Slot(C!Fresh, s, l, w)
    <2>1. l.signals # <<>> /\ l.signals[1] = s
        BY <1>17
    <2> QED BY <2>1
<1>18. l.signals = <<>> => c = C!Fresh
    OBVIOUS
<1> HIDE DEF c
<1>7. ASSUME l.signals = <<L!Signal("disconnected")>>
      PROVE  Member(c) /\ c.state # "On"
    <2>1. c = Slot(C!Fresh, L!Signal("disconnected"), l, w)
        BY <1>7, <1>17
    <2> QED BY <1>1, <1>3, <2>1, MemberSlot
<1>6. Member(c) /\ (c.state = "On" => ShowsTunnel(m) \/ ctl.state = "On")
    <2>1. CASE l.signals = <<>>
        BY <1>3, <1>18, <2>1
    <2>2. CASE l.signals = <<L!Signal("statusUpdated")>>
        <3>1. c = Slot(C!Fresh, L!Signal("statusUpdated"), l, w)
            BY <1>17, <2>2
        <3> QED BY <1>1, <1>3, <3>1, MemberSlot DEF Calm
    <2>3. CASE /\ m.type = "connected"
               /\ l.signals = <<[name |-> "connected", key |-> m.pubkey]>>
        <3>1. c = Slot(C!Fresh, [name |-> "connected", key |-> m.pubkey], l, w)
            BY <1>17, <2>3
        <3> QED BY <1>1, <1>3, <2>3, <3>1, MemberSlot DEF ShowsTunnel
    <2>4. CASE /\ m.type = "status"
               /\ l.signals = <<[name |-> "initialized", connected |-> m.connected]>>
        <3>1. c = Slot(C!Fresh, [name |-> "initialized", connected |-> m.connected], l, w)
            BY <1>17, <2>4
        <3> QED BY <1>1, <1>3, <2>4, <3>1, MemberSlot DEF ShowsTunnel
    <2> QED BY <1>5, <1>7, <2>1, <2>2, <2>3, <2>4
<1>8. ASSUME m.type = "status", l.signals = L!InitialStatusSignals(m), ~ShowsTunnel(m)
      PROVE  c.state # "On"
    <2>1. m.connected = FALSE
        BY <1>1, <1>8 DEF ShowsTunnel, Replies
    <2>2. l.signals = <<[name |-> "initialized", connected |-> m.connected]>>
        BY <1>8, <2>1 DEF L!InitialStatusSignals
    <2>3. c = Slot(C!Fresh, [name |-> "initialized", connected |-> m.connected], l, w)
        BY <1>17, <2>2
    <2> QED BY <1>1, <1>3, <1>8, <2>1, <2>3, MemberSlot
<1>9. SameLink(l, k)
    BY <1>5, <1>6, SameCarryAll
<1> HIDE DEF k
<1>10. k.written \in Seq(SingleOrders)
    BY <1>9, OrdersAreSingle DEF SameLink, Writer
<1>11. up' \in Seq(SingleOrders)
    BY <1>4, <1>10, ConcatProperties DEF SingleInv
<1>12. down' \in Seq(Replies)
    BY <1>1, <1>4
<1>13. Member(ctl') /\ Writer(lsc') /\ SingleDaemon(dmn')
       /\ lsc'.socket = lsc.socket /\ lsc'.daemonState = l.daemonState
    BY <1>4, <1>5, <1>6, <1>9 DEF SameLink, SingleInv
<1>14. ASSUME lsc.socket = "open", NEW i \in DOMAIN Tail(down), ShowsTunnel(Tail(down)[i])
       PROVE  Kept(dmn, Tail(down), i)
    <2>1. i \in Nat /\ i + 1 \in DOMAIN down /\ down[i + 1] = Tail(down)[i]
        BY <1>1, <1>14
    <2>2. Kept(dmn, down, i + 1)
        BY <1>14, <2>1 DEF SingleInv
    <2> QED BY <1>1, <2>1, <2>2, KeptTail
<1>15. ASSUME lsc.socket = "open", l.daemonState = "eReady", c.state = "On"
       PROVE  Kept(dmn, Tail(down), 0)
    <2>1. CASE ShowsTunnel(m)
        <3>1. 1 \in DOMAIN down /\ down[1] = m
            BY <1>1 DEF m
        <3>2. Kept(dmn, down, 1)
            BY <1>15, <2>1, <3>1 DEF SingleInv
        <3> QED BY <1>1, <3>2, KeptTail, 0 + 1 = 1
    <2>2. CASE ~ShowsTunnel(m)
        <3>1. ctl.state = "On" /\ lsc.daemonState = "eReady"
            BY <1>5, <1>6, <1>8, <1>15, <2>2
        <3>2. m.type # "disconnected"
            BY <1>5, <1>7, <1>15, <3>1
        <3>3. Kept(dmn, down, 0)
            BY <1>15, <3>1 DEF SingleInv
        <3>4. Kept(dmn, down, 1)
            BY <1>1, <3>2, <3>3, KeptTail DEF m
        <3> QED BY <1>1, <3>4, KeptTail, 0 + 1 = 1
    <2> QED BY <2>1, <2>2
<1>16. lsc'.socket \notin {"closed", "connecting"}
    BY <1>4, <1>13
<1> QED
    BY <1>4, <1>11, <1>12, <1>13, <1>14, <1>15, <1>16 DEF SingleInv

-----------------------------------------------------------------------------
\* The steps of the daemon.

LEMMA QuietSingle ==
    ASSUME SingleDaemon(dmn)
    PROVE  /\ SingleDaemon(D!Quiet) /\ D!Quiet.out = <<>>
           /\ D!Quiet.connections = dmn.connections /\ D!Quiet.peers = dmn.peers
           /\ Tunnel(D!Quiet) <=> Tunnel(dmn)
BY EmptySeq DEF D!Quiet, SingleDaemon, DaemonFields, Tunnel

LEMMA HonestStep ==
    ASSUME SingleInv, NEW d, Honest(dmn, d), DaemonStep(d), UNCHANGED <<ctl, lsc>>,
           up' \in Seq(SingleOrders)
    PROVE  SingleInv'
<1>1. dmn' = d /\ ctl' = ctl /\ lsc' = lsc /\ SingleDaemon(dmn')
    BY DEF DaemonStep, Honest
<1>2. CASE lsc.socket # "open"
    <2>1. down' = down
        BY <1>2 DEF DaemonStep
    <2> QED BY <1>1, <1>2, <2>1 DEF SingleInv
<1>3. CASE lsc.socket = "open"
    <2>1. down' = down \o d.out
        BY <1>3 DEF DaemonStep
    <2>2. down \in Seq(Replies) /\ d.out \in Seq(Replies)
        BY DEF SingleInv, Honest, SingleDaemon
    <2>3. /\ down' \in Seq(Replies)
          /\ DOMAIN down = 1..Len(down) /\ DOMAIN d.out = 1..Len(d.out)
          /\ Len(down) \in Nat /\ Len(d.out) \in Nat
          /\ DOMAIN down' = 1..(Len(down) + Len(d.out))
          /\ \A i \in DOMAIN down : i \in DOMAIN down' /\ down'[i] = down[i]
          /\ \A i \in DOMAIN d.out : /\ Len(down) + i \in DOMAIN down'
                                     /\ down'[Len(down) + i] = d.out[i]
          /\ \A i \in DOMAIN down' : i \notin DOMAIN down =>
                i - Len(down) \in DOMAIN d.out /\ down'[i] = d.out[i - Len(down)]
        BY <2>1, <2>2, ConcatProperties
    <2>4. ASSUME NEW i \in 0..Len(down), Kept(dmn, down, i)
          PROVE  Kept(dmn', down', i)
        <3>1. CASE Tunnel(dmn') /\ Tunnel(dmn)
            BY <3>1 DEF Kept
        <3>2. CASE Tunnel(dmn) /\ ~Tunnel(dmn')
            <4>1. PICK k \in DOMAIN d.out : d.out[k].type = "disconnected"
                BY <1>1, <3>2 DEF Honest
            <4>2. /\ Len(down) + k \in DOMAIN down' /\ Len(down) + k > i
                  /\ down'[Len(down) + k].type = "disconnected"
                BY <2>3, <4>1
            <4> QED BY <4>2 DEF Kept
        <3>3. CASE ~Tunnel(dmn)
            <4>1. PICK j \in DOMAIN down : j > i /\ down[j].type = "disconnected"
                BY <2>4, <3>3 DEF Kept
            <4>2. j \in DOMAIN down' /\ down'[j].type = "disconnected"
                BY <2>3, <4>1
            <4> QED BY <4>1, <4>2 DEF Kept
        <3> QED BY <3>1, <3>2, <3>3
    <2>5. ASSUME NEW i \in DOMAIN down', ShowsTunnel(down'[i])
          PROVE  Kept(dmn', down', i)
        <3>1. CASE i \in DOMAIN down
            <4>1. Kept(dmn, down, i) /\ i \in 0..Len(down)
                BY <1>3, <2>3, <2>5, <3>1 DEF SingleInv
            <4> QED BY <2>4, <4>1
        <3>2. CASE i \notin DOMAIN down
            BY <1>1, <2>3, <2>5, <3>2 DEF Honest, Kept
        <3> QED BY <3>1, <3>2
    <2>6. lsc.daemonState = "eReady" /\ ctl.state = "On" => Kept(dmn', down', 0)
        BY <1>3, <2>3, <2>4 DEF SingleInv
    <2> QED BY <1>1, <1>3, <2>3, <2>5, <2>6 DEF SingleInv
<1> QED BY <1>2, <1>3

LEMMA SingleDaemonReceive ==
    ASSUME SingleInv, NEW fault, DaemonReceive(fault)
    PROVE  SingleInv'
<1> DEFINE d == D!OnCommand(D!Quiet, Head(up), fault)
           s == IF orphans > 0 /\ Head(up).type # "deactivate"
                THEN [d EXCEPT !.out = <<>>] ELSE d
<1>1. Head(up) \in SingleOrders /\ Tail(up) \in Seq(SingleOrders)
    BY DEF SingleInv, DaemonReceive
<1>2. /\ SingleDaemon(D!Quiet) /\ D!Quiet.out = <<>> /\ (Tunnel(D!Quiet) <=> Tunnel(dmn))
    BY QuietSingle DEF SingleInv
<1>3. Honest(D!Quiet, d) /\ (Head(up).type # "deactivate" /\ Tunnel(D!Quiet) => Tunnel(d))
    BY <1>1, <1>2, HonestCommand
<1> HIDE DEF d
<1>4. Honest(dmn, d)
    BY <1>2, <1>3 DEF Honest
<1>5. ASSUME Head(up).type # "deactivate"
      PROVE  Honest(dmn, [d EXCEPT !.out = <<>>])
    <2> DEFINE r == [d EXCEPT !.out = <<>>]
    <2>1. SingleDaemon(r) /\ r.out = <<>> /\ (Tunnel(r) <=> Tunnel(d))
        BY <1>3, EmptySeq DEF Honest, SingleDaemon, DaemonFields, Tunnel
    <2> HIDE DEF r
    <2>2. DOMAIN r.out = {}
        BY <2>1
    <2>3. Honest(dmn, r)
        BY <1>2, <1>3, <1>5, <2>1, <2>2 DEF Honest
    <2> QED BY <2>3 DEF r
<1>6. Honest(dmn, s)
    BY <1>4, <1>5
<1>7. DaemonStep(s) /\ UNCHANGED <<ctl, lsc>> /\ up' = Tail(up)
    BY DEF DaemonReceive, d
<1> HIDE DEF s
<1> QED BY <1>1, <1>6, <1>7, HonestStep

LEMMA SingleCheckHandshake ==
    ASSUME SingleInv, CheckHandshake
    PROVE  SingleInv'
<1> DEFINE d == D!CheckHandshakeOf(D!Quiet)
<1>1. SingleDaemon(D!Quiet) /\ D!Quiet.out = <<>> /\ (Tunnel(D!Quiet) <=> Tunnel(dmn))
    BY QuietSingle DEF SingleInv
<1>2. Honest(D!Quiet, d)
    BY <1>1, HonestHandshakes
<1>3. DaemonStep(d) /\ UNCHANGED <<ctl, lsc, up>>
    BY DEF CheckHandshake
<1> HIDE DEF d
<1>4. Honest(dmn, d)
    BY <1>1, <1>2 DEF Honest
<1>5. up' \in Seq(SingleOrders)
    BY <1>3 DEF SingleInv
<1> QED BY <1>3, <1>4, <1>5, HonestStep

LEMMA SinglePeerHandshake ==
    ASSUME SingleInv, NEW key, PeerHandshake(key)
    PROVE  SingleInv'
<1>1. SingleDaemon(D!Quiet) /\ (Tunnel(D!Quiet) <=> Tunnel(dmn))
    BY QuietSingle DEF SingleInv
<1>2. dmn' = [D!Quiet EXCEPT !.handshakes = @ \cup {key}]
    BY DEF PeerHandshake, D!PeerHandshake
<1>3. SingleDaemon(dmn') /\ (Tunnel(dmn') <=> Tunnel(dmn))
    BY <1>1, <1>2 DEF SingleDaemon, DaemonFields, Tunnel
<1>4. UNCHANGED <<ctl, lsc, up, down>>
    BY DEF PeerHandshake
<1>5. \A i : Kept(dmn', down', i) <=> Kept(dmn, down, i)
    BY <1>3, <1>4 DEF Kept
<1> QED BY <1>3, <1>4, <1>5 DEF SingleInv

LEMMA SingleDaemonCrash ==
    ASSUME SingleInv, DaemonCrash
    PROVE  SingleInv'
<1>1. SingleDaemon(dmn')
    <2>1. dmn' = D!Stopped /\ DOMAIN <<>> = {}
        BY DEF DaemonCrash
    <2> QED BY <2>1, EmptySeq DEF D!Stopped, SingleDaemon, DaemonFields
<1>2. up' = <<>> /\ ctl' = ctl /\ down' = down
    BY DEF DaemonCrash
<1>3. CASE lsc.socket = "open"
    <2>1. lsc' = [L!Silent EXCEPT !.socket = "broken"]
        BY <1>3 DEF DaemonCrash
    <2>2. Writer(lsc') /\ lsc'.socket = "broken"
        BY <2>1, SilentWriter DEF SingleInv, SameLink, Writer, SocketFields
    <2> QED BY <1>1, <1>2, <2>2, EmptySeq DEF SingleInv
<1>4. CASE lsc.socket # "open"
    <2>1. lsc' = lsc
        BY <1>4 DEF DaemonCrash
    <2> QED BY <1>1, <1>2, <1>4, <2>1, EmptySeq DEF SingleInv
<1> QED BY <1>3, <1>4

LEMMA SingleNext ==
    ASSUME SingleHopsOnly, SingleInv, [Next]_vars
    PROVE  SingleInv'
<1>1. ASSUME ClientNext PROVE SingleInv'
    BY <1>1, SingleUserCommand, SingleCleanupLogs, SingleAccountReply,
       SingleHandshakeTimeout, SingleClientReceive, SingleResponseTimeout,
       SingleSocketClosed, SingleInitializingTimeout, SingleSocketConnected
    DEF ClientNext
<1>2. ASSUME DaemonNext PROVE SingleInv'
    BY <1>2, SingleDaemonReceive, SingleCheckHandshake, SinglePeerHandshake,
       SingleDaemonCrash DEF DaemonNext
<1>3. ASSUME UNCHANGED vars PROVE SingleInv'
    BY <1>3 DEF vars, SingleInv, Kept
<1> QED BY <1>1, <1>2, <1>3, SingleClientRestart DEF Next

\* "On" is never an illusion, for a client whose routes all have a single hop:
\* whatever its users and the extension ask for and in whichever order, whatever
\* system calls of the daemon fail, whenever the daemon crashes or answers late and
\* the client restarts, when the messages have been delivered the daemon has a
\* connection that routes to the internet.
THEOREM OnIsTunnel == SingleHopsOnly /\ Spec => []OnHasTunnel
<1>1. ASSUME SingleHopsOnly, Init PROVE SingleInv
    BY <1>1, SingleInit
<1>2. ASSUME SingleHopsOnly, SingleInv, [Next]_vars PROVE SingleInv'
    BY <1>2, SingleNext
<1>3. ASSUME SingleInv PROVE OnHasTunnel
    <2>1. SUFFICES ASSUME Settled, ctl.state = "On" PROVE Tunnel(dmn)
        BY DEF OnHasTunnel, Tunnel
    <2>2. down = <<>> /\ Kept(dmn, down, 0)
        BY <1>3, <2>1 DEF SingleInv, Settled
    <2>3. DOMAIN down = {}
        BY <2>2
    <2> QED BY <2>2, <2>3 DEF Kept
<1>4. SUFFICES ASSUME SingleHopsOnly PROVE Spec => []OnHasTunnel
    OBVIOUS
<1> QED BY <1>1, <1>2, <1>3, <1>4, PTL DEF Spec

-----------------------------------------------------------------------------
\* Off has no tunnel, for one user who switches on and off.

\* The daemon answers in time and its system calls succeed, there is one user, who
\* has no more than one activation waiting for its account request and switches no
\* servers.
OneUser ==
    /\ MaxMishaps = 0 /\ Faults = {}
    /\ Requests \subseteq {"activate", "deactivate", "getStatus", "quit"}
    /\ Askers \subseteq {"ClientUser"}
    /\ MaxRequests \in {0, 1}

HasType(q, types) == \E i \in DOMAIN q : q[i].type \in types

\* Message i of q finds a session: the daemon has one or an activation is ahead.
Live(q, session, i) ==
    session \/ \E j \in DOMAIN q : j < i /\ q[j].type = "activate"

\* A deactivation on its way that will end a session.
LiveStop(q, session) ==
    \E i \in DOMAIN q : q[i].type = "deactivate" /\ Live(q, session, i)

\* Nothing is activated behind a deactivation that ends a session.
NoRestart(q, session) ==
    \A i, j \in DOMAIN q :
        q[i].type = "deactivate" /\ Live(q, session, i) /\ j > i => q[j].type # "activate"

\* After `disconnected' no news of the tunnel.
DisconnectedLast(q) ==
    \A i, j \in DOMAIN q :
        q[i].type = "disconnected" /\ j > i => q[j].type \notin {"connected", "disconnected"}

Idle(c) == c.queue = <<>> /\ ~c.handshakeTimer

AnyConfigs == {InterfaceConfig(hop, exit) : hop \in [key : Names, type : Types],
                                            exit \in Names}

\* A daemon whose connections belong to a session.
AnyDaemon(d) ==
    /\ DOMAIN d = DaemonFields
    /\ DOMAIN d.connections \subseteq Types
    /\ \A t \in DOMAIN d.connections :
          /\ DOMAIN d.connections[t] = {"config", "date"}
          /\ d.connections[t].date \in BOOLEAN
          /\ d.connections[t].config \in AnyConfigs
    /\ d.session \in BOOLEAN
    /\ d.out \in Seq(Replies)

\* The account requests of the one user: one at most, and only while the state is Off.
Asks(c) ==
    /\ c.requests \in [C!Users -> {0, 1}] /\ c.requests["ExtensionUser"] = 0
    /\ c.requests["ClientUser"] = 1 => c.state = "Off"

\* The Controller of the one user.
User(c) ==
    Member(c) /\ c.initiator \in {"Null", "ClientUser"} /\ c.handshakeTimer \in BOOLEAN

\* No tunnel, and none on its way.
Gone == ~dmn.session /\ DOMAIN dmn.connections = {} /\ ~HasType(up, {"activate"})

\* The client before its first connection, and before the first answer.
Unconnected ==
    /\ lsc.socket = "connecting" /\ lsc.daemonState = "eInitializing"
    /\ ctl.state = "Initializing" /\ Idle(ctl)
    /\ up = <<>> /\ down = <<>> /\ lsc.timeouts = {} /\ Gone

Asking ==
    /\ lsc.socket = "open" /\ lsc.daemonState = "eInitializing"
    /\ ctl.state = "Initializing" /\ Idle(ctl) /\ Gone
    /\ \/ up = <<[type |-> "status"]>> /\ down = <<>>
       \/ up = <<>> /\ Len(down) = 1 /\ down[1].type = "status" /\ ~down[1].connected

WorkingStates == {"Off", "Connecting", "Confirming", "On", "Disconnecting"}

Working ==
    /\ lsc.socket = "open" /\ lsc.daemonState = "eReady"
    /\ ctl.state \in WorkingStates
    /\ lsc.timeouts # {} => HasType(up, {"status"}) \/ HasType(down, {"status"})
    /\ NoRestart(up, dmn.session)
    /\ LiveStop(up, dmn.session) => Idle(ctl) /\ ctl.state # "Off"
    /\ DisconnectedLast(down)
    /\ HasType(down, {"disconnected"}) => Gone /\ Idle(ctl) /\ ctl.state # "Off"
    /\ ctl.state = "Off" =>
          Gone /\ Idle(ctl) /\ ~HasType(down, {"connected", "disconnected"})

OffInv ==
    /\ User(ctl) /\ Asks(ctl) /\ Writer(lsc) /\ AnyDaemon(dmn)
    /\ up \in Seq(Orders) /\ down \in Seq(Replies)
    /\ lsc.timeouts \subseteq {"status"} /\ lsc.initializingTimer = FALSE
    /\ orphans = 0 /\ mishaps = 0
    /\ DOMAIN dmn.connections # {} => dmn.session
    /\ Unconnected \/ Asking \/ Working

-----------------------------------------------------------------------------
\* What the handlers of the one user's Controller come to.

CheckCall == C!ImplCall("checkStatus", C!NoHop)
DeactivateCall == C!ImplCall("deactivate", C!NoHop)

\* The activation of a hop is sent.
Starts(r) ==
    /\ r.state = "Confirming"
    /\ \E hop \in Hops : r.calls = <<C!ImplCall("activate", hop)>>

\* A deactivation is sent.
Stops(r) ==
    /\ r.state = "Disconnecting" /\ Idle(r)
    /\ r.calls \in {<<DeactivateCall>>, <<CheckCall, DeactivateCall>>}

\* Nothing is sent.
Rests(c, r) == r.calls = <<>> /\ r.state = c.state

LEMMA UserActivateNext ==
    ASSUME NEW c, User(c), c.calls = <<>>, c.queue # <<>>, c.state # "SilentSwitching",
           NEW w \in Worlds
    PROVE  LET r == C!ActivateNext(c, w)
           IN  /\ User(r) /\ r.requests = c.requests
               /\ Rests(c, r) \/ Starts(r)
               /\ w.device => Starts(r)
<1> DEFINE timed   == [c EXCEPT !.handshakeTimer = TRUE]
           call    == C!ImplCall("activate", Head(c.queue))
           started == C!Call(timed, call)
           r       == C!SetState(started, "Confirming")
<1>1. Head(c.queue) \in Hops /\ Member(c) /\ c.initiator # "ExtensionUser"
    BY DEF User, Member
<1>2. Member(C!ActivateNext(c, w))
    BY <1>1, CalmActivateNext DEF Calm
<1>3. /\ DOMAIN started = Fields /\ started.calls = <<call>>
      /\ started.requests = c.requests /\ started.initiator = c.initiator
      /\ started.handshakeTimer = TRUE
    <2> HIDE DEF call
    <2>1. Append(<<>>, call) = <<call>>
        OBVIOUS
    <2>2. DOMAIN timed = Fields /\ timed.calls = <<>> /\ timed.requests = c.requests
          /\ timed.initiator = c.initiator /\ timed.handshakeTimer = TRUE
        BY <1>1 DEF Member, Fields
    <2> HIDE DEF timed
    <2> QED BY <2>1, <2>2 DEF C!Call, Fields
<1> HIDE DEF started
<1>4. /\ r.state = "Confirming" /\ r.calls = <<call>> /\ r.requests = c.requests
      /\ r.initiator = c.initiator /\ r.handshakeTimer = TRUE
    BY <1>3 DEF C!SetState, Fields
<1> HIDE DEF r
<1>5. CASE ~w.device
    <2>1. C!ActivateNext(c, w) = C!Emit(c, {"reset"})
        BY <1>5 DEF C!ActivateNext
    <2>2. /\ C!Emit(c, {"reset"}).requests = c.requests
          /\ C!Emit(c, {"reset"}).initiator = c.initiator
          /\ C!Emit(c, {"reset"}).handshakeTimer = c.handshakeTimer
          /\ Rests(c, C!Emit(c, {"reset"}))
        BY <1>1 DEF C!Emit, Member, Fields, Rests
    <2> QED BY <1>2, <1>5, <2>1, <2>2 DEF User
<1>6. CASE w.device
    <2>1. C!ActivateNext(c, w) = r
        BY <1>1, <1>6 DEF C!ActivateNext, r, started
    <2>2. Starts(r)
        BY <1>1, <1>4 DEF Starts
    <2> QED BY <1>2, <1>4, <2>1, <2>2 DEF User
<1>7. w.device \in BOOLEAN
    BY SystemAssumption
<1> QED BY <1>5, <1>6, <1>7

LEMMA UserActivateInternal ==
    ASSUME NEW c, User(c), c.calls = <<>>, c.state # "SilentSwitching", NEW policy,
           NEW initiator \in {"Null", "ClientUser"}, NEW w \in Worlds
    PROVE  LET r == C!ActivateInternal(c, policy, initiator, w)
           IN  /\ User(r) /\ r.requests = c.requests
               /\ (Rests(c, r) /\ Idle(r)) \/ Starts(r)
<1> DEFINE loc   == c.server.loc
           exit  == C!ChooseServer(policy, c.server.exit, ExitServers[loc], w.exitPick, w)
           entry == C!ChooseServer(policy, c.server.entry, EntryServers[loc], w.entryPick, w)
           hops  == C!Hops(loc, entry, exit)
           cleared == [C!ClearConnectedTime(c) EXCEPT !.initiator = initiator,
                                                      !.handshakeTimer = FALSE,
                                                      !.queue = <<>>]
           queued  == [cleared EXCEPT !.queue = hops,
                                      !.server = [loc   |-> loc,
                                                  entry |-> Head(hops).key,
                                                  exit  |-> exit]]
<1>1. loc \in Locations /\ c.server.exit \in Names /\ c.server.entry \in Names
    BY DEF User, Member, ServerData
<1>2. ExitServers[loc] \in SUBSET Servers /\ EntryServers[loc] \in SUBSET Servers
    BY <1>1, SystemAssumption
<1>3. exit \in Names /\ entry \in Names
    BY <1>1, <1>2, ChosenServer
<1> HIDE DEF exit, entry
<1>4. hops \in Seq(Hops) /\ hops # <<>> /\ Head(hops).key \in Names
    BY <1>1, <1>3, HopsOfRoute
<1> HIDE DEF hops
<1>5. /\ User(cleared) /\ cleared.requests = c.requests
      /\ Rests(c, cleared) /\ Idle(cleared)
    <2>1. /\ Member(C!ClearConnectedTime(c)) /\ C!ClearConnectedTime(c).state = c.state
          /\ C!ClearConnectedTime(c).requests = c.requests
          /\ C!ClearConnectedTime(c).calls = <<>>
        BY CalmClear DEF Calm, User, C!ClearConnectedTime, Member, Fields
    <2> QED BY <2>1, EmptySeq DEF User, Member, Fields, Rests, Idle
<1> HIDE DEF cleared
<1>6. /\ User(queued) /\ queued.queue # <<>> /\ queued.requests = c.requests
      /\ queued.calls = <<>> /\ queued.state = c.state
    BY <1>1, <1>3, <1>4, <1>5 DEF User, Member, Fields, ServerData, Rests
<1>7. LET r == [cleared EXCEPT !.nextStep = "Disconnect"]
      IN  User(r) /\ r.requests = c.requests /\ Rests(c, r) /\ Idle(r)
    BY <1>5 DEF User, Member, Fields, Rests, Idle
<1>8. LET r == C!ServerUnavailable(cleared)
      IN  User(r) /\ r.requests = c.requests /\ Rests(c, r) /\ Idle(r)
    BY <1>5 DEF User, Member, Fields, Rests, Idle, C!ServerUnavailable, C!Emit
<1> HIDE DEF queued
<1>9. ASSUME w.device
      PROVE  LET r == C!ActivateNext(queued, w)
             IN  User(r) /\ r.requests = c.requests /\ Starts(r)
    BY <1>6, <1>9, UserActivateNext
<1> QED
    BY <1>7, <1>8, <1>9 DEF C!ActivateInternal, exit, entry, hops, cleared, queued

LEMMA UserStart ==
    ASSUME NEW c, User(c), c.calls = <<>>, NEW policy, NEW w \in Worlds
    PROVE  LET r == C!StartActivation(c, policy, "ClientUser", w)
           IN  /\ User(r) /\ r.requests = c.requests
               /\ (r.calls = <<>> /\ r.state = "Connecting" /\ Idle(r)) \/ Starts(r)
<1> DEFINE d == C!ClearRetryCounter(C!SetState(c, "Connecting"))
<1>1. User(d) /\ d.requests = c.requests /\ d.calls = <<>> /\ d.state = "Connecting"
    BY DEF C!ClearRetryCounter, C!SetState, User, Member, Fields
<1> HIDE DEF d
<1>2. LET r == C!ActivateInternal(d, policy, "ClientUser", w)
      IN  /\ User(r) /\ r.requests = d.requests
          /\ (Rests(d, r) /\ Idle(r)) \/ Starts(r)
    BY <1>1, UserActivateInternal
<1> QED BY <1>1, <1>2 DEF C!StartActivation, Rests, d

\* A handler that leaves the attempt in progress alone.
Still(c, r) ==
    /\ User(r) /\ r.requests = c.requests /\ r.state = c.state
    /\ r.queue = c.queue /\ r.handshakeTimer = c.handshakeTimer

UserStates == WorkingStates \cup {"Initializing"}

\* One more account request.
OneMore(requests) == [requests EXCEPT !["ClientUser"] = @ + 1]

LEMMA UserActivates ==
    ASSUME NEW c, User(c), c.state \in UserStates, NEW data \in ServerData, NEW policy,
           NEW w \in Worlds
    PROVE  LET r == C!Activate(c, data, "ClientUser", policy, TRUE, w)
           IN  /\ User(r) /\ r.calls = c.calls /\ r.state = c.state
               /\ r.queue = c.queue /\ r.handshakeTimer = c.handshakeTimer
               /\ \/ r.requests = c.requests
                  \/ /\ c.state = "Off"
                     /\ r.requests = OneMore(c.requests)
<1> DEFINE accepted == [c EXCEPT !.isSwitchingServer =
                                     c.state \in {"Switching", "SilentSwitching"},
                                 !.server = data]
<1>1. CASE c.state # "Off"
    <2>1. c.state \notin C!ActivatableStates
        BY <1>1 DEF C!ActivatableStates, UserStates, WorkingStates
    <2> QED BY <2>1 DEF C!Activate
<1>2. CASE c.state = "Off"
    <2>1. Still(c, accepted) /\ accepted.calls = c.calls
        BY DEF User, Member, Fields, Still
    <2> HIDE DEF accepted
    <2>2. LET r == C!Emit([accepted EXCEPT !.portalDetected = FALSE],
                          {"activationBlockedForCaptivePortal"})
          IN  Still(c, r) /\ r.calls = c.calls
        BY <2>1 DEF User, Member, Fields, Still, C!Emit
    <2>3. LET r == [accepted EXCEPT !.requests["ClientUser"] = @ + 1]
          IN  /\ User(r) /\ r.calls = c.calls /\ r.state = c.state
              /\ r.queue = c.queue /\ r.handshakeTimer = c.handshakeTimer
              /\ r.requests = OneMore(c.requests)
        BY <2>1 DEF User, Member, Fields, Still, OneMore
    <2>4. C!Activate(c, data, "ClientUser", policy, TRUE, w) =
             IF c.portalDetected
             THEN C!Emit([accepted EXCEPT !.portalDetected = FALSE],
                         {"activationBlockedForCaptivePortal"})
             ELSE [accepted EXCEPT !.requests["ClientUser"] = @ + 1]
        BY <1>2 DEF C!Activate, C!ActivatableStates, accepted
    <2> QED BY <1>2, <2>2, <2>3, <2>4 DEF Still
<1> QED BY <1>1, <1>2

LEMMA UserGetStatus ==
    ASSUME NEW c, User(c), c.calls = <<>>
    PROVE  LET r == C!GetStatusOf(c)
           IN  Still(c, r) /\ r.calls \in {<<>>, <<CheckCall>>}
<1>1. CheckCall \in Calls
    BY NoHopIsHop DEF CheckCall
<1>2. Append(<<>>, CheckCall) = <<CheckCall>> /\ <<CheckCall>> \in Seq(Calls)
    BY <1>1
<1>3. C!GetStatusOf(c) = IF c.statusCallbacks THEN c
                         ELSE C!Call([c EXCEPT !.statusCallbacks = TRUE], CheckCall)
    BY DEF C!GetStatusOf, CheckCall
<1> DEFINE d == C!Call([c EXCEPT !.statusCallbacks = TRUE], CheckCall)
<1>4. /\ DOMAIN d = Fields /\ d.calls = Append(<<>>, CheckCall)
      /\ d.requests = c.requests /\ d.state = c.state /\ d.queue = c.queue
      /\ d.handshakeTimer = c.handshakeTimer /\ d.initiator = c.initiator
      /\ d.server = c.server /\ d.next = c.next
    BY DEF C!Call, User, Member, Fields
<1> HIDE DEF d
<1>5. Still(c, d) /\ d.calls = <<CheckCall>>
    BY <1>2, <1>4 DEF User, Member, Still
<1>6. Still(c, c)
    BY DEF Still
<1> QED BY <1>3, <1>5, <1>6 DEF d

LEMMA UserDeactivates ==
    ASSUME NEW c, User(c), c.calls = <<>>, c.state \in UserStates, NEW ready \in BOOLEAN,
           c.state # "Initializing" => ready, NEW w \in Worlds
    PROVE  LET r == C!Deactivate(c, "ClientUser", ready, w)
           IN  \/ r = c
               \/ User(r) /\ r.requests = c.requests /\ Stops(r) /\ c.state # "Off"
<1> DEFINE portal == IF ~c.portalDetected THEN c
                     ELSE C!Emit([c EXCEPT !.portalDetected = FALSE],
                                 {"activationBlockedForCaptivePortal"})
           leaving == IF c.state \in {"Switching", "SilentSwitching"} THEN portal
                      ELSE C!SetState(portal, "Disconnecting")
           asked   == C!GetStatusOf(leaving)
           idle    == C!AbandonAttempt(asked)
           sent    == C!Call(idle, DeactivateCall)
<1>1. CASE ~C!MayDeactivate(c, "ClientUser")
    BY <1>1 DEF C!Deactivate
<1>2. CASE C!MayDeactivate(c, "ClientUser")
    <2>1. c.state \in {"On", "Confirming", "Connecting"} /\ ready
        BY <1>2 DEF C!MayDeactivate, C!DeactivatableStates, UserStates, WorkingStates
    <2>2. Still(c, portal) /\ portal.calls = <<>>
        BY DEF C!Emit, Still, User, Member, Fields
    <2> HIDE DEF portal
    <2>3. User(leaving) /\ leaving.requests = c.requests /\ leaving.calls = <<>>
          /\ leaving.state = "Disconnecting"
        BY <2>1, <2>2 DEF C!SetState, Still, User, Member, Fields
    <2> HIDE DEF leaving
    <2>4. Still(leaving, asked) /\ asked.calls \in {<<>>, <<CheckCall>>}
        BY <2>3, UserGetStatus
    <2> HIDE DEF asked
    <2>5. /\ User(idle) /\ idle.requests = c.requests /\ idle.calls = asked.calls
          /\ idle.state = "Disconnecting" /\ Idle(idle)
        BY <2>3, <2>4, EmptySeq
        DEF C!AbandonAttempt, C!ClearConnectedTime, C!ClearRetryCounter, Still, User,
            Member, Fields, Idle
    <2> HIDE DEF idle
    <2>6. DeactivateCall \in Calls
        BY NoHopIsHop DEF DeactivateCall
    <2>7. Append(idle.calls, DeactivateCall) \in {<<DeactivateCall>>, <<CheckCall, DeactivateCall>>}
        <3>1. Append(<<>>, DeactivateCall) = <<DeactivateCall>>
            OBVIOUS
        <3>2. Append(<<CheckCall>>, DeactivateCall) = <<CheckCall, DeactivateCall>>
            <4> DEFINE S == {CheckCall, DeactivateCall}
                       a == Append(<<CheckCall>>, DeactivateCall)
                       b == <<CheckCall, DeactivateCall>>
            <4>1. <<CheckCall>> \in Seq(S) /\ b \in Seq(S)
                OBVIOUS
            <4>2. a \in Seq(S) /\ Len(a) = 2 /\ a[1] = CheckCall /\ a[2] = DeactivateCall
                BY <4>1, AppendProperties
            <4>3. Len(b) = 2 /\ b[1] = CheckCall /\ b[2] = DeactivateCall
                OBVIOUS
            <4> HIDE DEF a, b
            <4>4. \A i \in 1..Len(a) : a[i] = b[i]
                BY <4>2, <4>3
            <4>5. a = b
                BY <4>1, <4>2, <4>3, <4>4, SeqEqual
            <4> QED BY <4>5 DEF a, b
        <3> QED BY <2>4, <2>5, <3>1, <3>2
    <2>10. Append(idle.calls, DeactivateCall) \in Seq(Calls)
        BY <2>5, <2>6 DEF User, Member
    <2>11. /\ DOMAIN sent = Fields /\ sent.calls = Append(idle.calls, DeactivateCall)
           /\ sent.requests = idle.requests /\ sent.state = idle.state
           /\ sent.queue = idle.queue /\ sent.handshakeTimer = idle.handshakeTimer
           /\ sent.initiator = idle.initiator /\ sent.server = idle.server
           /\ sent.next = idle.next
        BY <2>5 DEF C!Call, User, Member, Fields
    <2> HIDE DEF sent
    <2>8. User(sent) /\ sent.requests = c.requests /\ Stops(sent)
        BY <2>5, <2>7, <2>10, <2>11 DEF User, Member, Idle, Stops
    <2>9. C!Deactivate(c, "ClientUser", ready, w) = sent
        BY <1>2, <2>1, <2>5
        DEF C!Deactivate, C!StateToReason, portal, leaving, asked, idle, sent, DeactivateCall
    <2> QED BY <2>1, <2>8, <2>9
<1> QED BY <1>1, <1>2

LEMMA UserDisconnected ==
    ASSUME NEW c, User(c), c.calls = <<>>, c.state \in UserStates, NEW w \in Worlds
    PROVE  LET r == C!OnDisconnected(c, w)
           IN  /\ User(r) /\ r.requests = c.requests /\ r.calls = <<>>
               /\ r.state = "Off" /\ Idle(r)
<1> DEFINE abandoned == C!AbandonAttempt(c)
           idle == C!ProcessNextStep(abandoned)
<1>1. User(abandoned) /\ abandoned.requests = c.requests /\ abandoned.calls = <<>>
      /\ Idle(abandoned)
    BY EmptySeq DEF C!AbandonAttempt, C!ClearConnectedTime, C!ClearRetryCounter, User,
       Member, Fields, Idle
<1> HIDE DEF abandoned
<1>2. User(idle) /\ idle.requests = c.requests /\ idle.calls = <<>> /\ Idle(idle)
    BY <1>1 DEF C!ProcessNextStep, C!Emit, User, Member, Fields, Idle
<1> HIDE DEF idle
<1>3. LET r == C!SetState(idle, "Off")
      IN  /\ User(r) /\ r.requests = c.requests /\ r.calls = <<>>
          /\ r.state = "Off" /\ Idle(r)
    BY <1>2 DEF C!SetState, User, Member, Fields, Idle
<1>4. ASSUME NEW signals
      PROVE  LET r == C!SetState(C!Emit([idle EXCEPT !.initiator = "Null"], signals), "Off")
             IN  /\ User(r) /\ r.requests = c.requests /\ r.calls = <<>>
                 /\ r.state = "Off" /\ Idle(r)
    BY <1>2 DEF C!SetState, C!Emit, User, Member, Fields, Idle
<1>5. c.state \notin {"SilentSwitching", "Switching"}
    BY DEF UserStates, WorkingStates
<1> QED BY <1>3, <1>4, <1>5 DEF C!OnDisconnected, abandoned, idle

LEMMA UserEstablished ==
    ASSUME NEW c, User(c), c.calls = <<>>, c.state \in WorkingStates, NEW w \in Worlds
    PROVE  LET r == C!ConnectionEstablished(c, TRUE, w)
           IN  /\ User(r) /\ r.requests = c.requests
               /\ (r.calls = <<>> /\ r.state = "On" /\ Idle(r)) \/ Stops(r)
<1> DEFINE done == [c EXCEPT !.queue = <<>>, !.handshakeTimer = FALSE, !.retry = 0,
                      !.isSwitchingServer = @ \/ c.state \in {"On", "OnPartial"}]
           on   == C!ResetConnectedTime(C!SetState(done,
                      IF c.initiator = "ExtensionUser" THEN "OnPartial" ELSE "On"))
           told == IF done.isSwitchingServer THEN on
                   ELSE C!Emit(on, {"recordConnectionStart"})
<1>1. User(done) /\ done.requests = c.requests /\ done.calls = <<>> /\ Idle(done)
    BY EmptySeq DEF User, Member, Fields, Idle
<1>2. c.initiator # "ExtensionUser"
    BY DEF User
<1> HIDE DEF done
<1>3. /\ User(on) /\ on.requests = c.requests /\ on.calls = <<>> /\ Idle(on)
      /\ on.state = "On"
    BY <1>1, <1>2 DEF C!SetState, C!ResetConnectedTime, User, Member, Fields, Idle
<1> HIDE DEF on
<1>4. /\ User(told) /\ told.requests = c.requests /\ told.calls = <<>> /\ Idle(told)
      /\ told.state = "On"
    BY <1>3 DEF C!Emit, User, Member, Fields, Idle
<1> HIDE DEF told
<1>5. LET r == C!Deactivate(told, "ClientUser", TRUE, w)
      IN  r = told \/ (User(r) /\ r.requests = told.requests /\ Stops(r))
    BY <1>4, UserDeactivates DEF UserStates, WorkingStates
<1> QED BY <1>4, <1>5 DEF C!ConnectionEstablished, done, on, told

LEMMA UserConnected ==
    ASSUME NEW c, User(c), c.calls = <<>>, c.state \in WorkingStates, NEW key, NEW w \in Worlds
    PROVE  LET r == C!OnConnected(c, key, TRUE, w)
           IN  /\ User(r) /\ r.requests = c.requests
               /\ \/ r = c
                  \/ c.queue # <<>> /\ (Rests(c, r) \/ Starts(r))
                  \/ (r.calls = <<>> /\ r.state = "On" /\ Idle(r)) \/ Stops(r)
<1> DEFINE d == [c EXCEPT !.queue = Tail(@)]
<1>1. ASSUME Len(c.queue) > 1
      PROVE  LET r == C!ActivateNext(d, w)
             IN  /\ User(r) /\ r.requests = c.requests
                 /\ c.queue # <<>> /\ (Rests(c, r) \/ Starts(r))
    <2>1. /\ User(d) /\ d.queue # <<>> /\ d.calls = <<>> /\ d.requests = c.requests
          /\ d.state = c.state /\ c.queue # <<>>
        <3>4. Member(c)
            BY DEF User
        <3>1. Member(d) /\ d.queue # <<>>
            BY <1>1, <3>4, NextHop
        <3>2. /\ d.calls = <<>> /\ d.requests = c.requests /\ d.state = c.state
              /\ d.handshakeTimer = c.handshakeTimer /\ d.initiator = c.initiator
            BY DEF User, Member, Fields
        <3>3. c.queue # <<>>
            BY <1>1
        <3> HIDE DEF d
        <3> QED BY <3>1, <3>2, <3>3 DEF User
    <2> HIDE DEF d
    <2>2. d.state # "SilentSwitching"
        BY <2>1 DEF WorkingStates
    <2> QED BY <2>1, <2>2, UserActivateNext DEF Rests
<1> HIDE DEF d
<1>2. LET r == C!ConnectionEstablished(c, TRUE, w)
      IN  /\ User(r) /\ r.requests = c.requests
          /\ (r.calls = <<>> /\ r.state = "On" /\ Idle(r)) \/ Stops(r)
    BY UserEstablished
<1> QED BY <1>1, <1>2 DEF C!OnConnected, d

LEMMA UserInitialized ==
    ASSUME NEW c, User(c), c.calls = <<>>
    PROVE  LET r == C!OnInitialized(c, TRUE, FALSE)
           IN  /\ User(r) /\ r.requests = c.requests /\ r.calls = <<>> /\ r.state = "Off"
               /\ r.queue = c.queue /\ r.handshakeTimer = c.handshakeTimer
<1> DEFINE next == C!ProcessNextStep(c)
<1>1. Still(c, next) /\ next.calls = <<>>
    BY DEF C!ProcessNextStep, C!Emit, Still, User, Member, Fields
<1> HIDE DEF next
<1>2. LET r == C!SetState(next, "Off")
      IN  /\ User(r) /\ r.requests = c.requests /\ r.calls = <<>> /\ r.state = "Off"
          /\ r.queue = c.queue /\ r.handshakeTimer = c.handshakeTimer
    BY <1>1 DEF C!SetState, Still, User, Member, Fields
<1> QED BY <1>2 DEF C!OnInitialized, next

LEMMA UserTimeout ==
    ASSUME NEW c, User(c), c.calls = <<>>, c.state \in WorkingStates, NEW w \in Worlds
    PROVE  LET r == C!OnHandshakeTimeout(c, TRUE, w)
           IN  /\ User(r) /\ r.requests = c.requests
               /\ Rests(c, r) \/ Starts(r) \/ Stops(r)
<1> DEFINE retried == [c EXCEPT !.retry = @ + 1]
<1>1. Still(c, retried) /\ retried.calls = <<>>
    BY DEF Still, User, Member, Fields
<1> HIDE DEF retried
<1>2. LET r == C!ServerUnavailable(retried) IN Still(c, r) /\ r.calls = <<>>
    BY <1>1 DEF C!ServerUnavailable, C!Emit, Still, User, Member, Fields
<1>3. c.initiator \in {"Null", "ClientUser"} /\ retried.state # "SilentSwitching"
    BY <1>1 DEF User, Still, WorkingStates
<1>4. LET r == C!ActivateInternal(retried, "RandomizeServerSelection", c.initiator, w)
      IN  /\ User(r) /\ r.requests = retried.requests /\ (Rests(retried, r) \/ Starts(r))
    BY <1>1, <1>3, UserActivateInternal DEF Still
<1>5. LET r == C!Deactivate(c, "ClientUser", TRUE, w)
      IN  r = c \/ (User(r) /\ r.requests = c.requests /\ Stops(r))
    BY UserDeactivates DEF UserStates, WorkingStates
<1> QED
    BY <1>1, <1>2, <1>4, <1>5 DEF C!OnHandshakeTimeout, Rests, Still, retried

LEMMA UserQuits ==
    ASSUME NEW c, User(c), c.calls = <<>>, c.state \in UserStates, NEW ready \in BOOLEAN,
           c.state # "Initializing" => ready, NEW w \in Worlds
    PROVE  LET r == C!OnQuit(c, ready, w)
           IN  \/ Still(c, r) /\ r.calls = <<>>
               \/ User(r) /\ r.requests = c.requests /\ Stops(r) /\ c.state # "Off"
<1> DEFINE quitting == [c EXCEPT !.nextStep = "Quit"]
<1>1. Still(c, quitting) /\ quitting.calls = <<>>
    BY DEF Still, User, Member, Fields
<1> HIDE DEF quitting
<1>2. LET r == C!Emit(quitting, {"readyToQuit"}) IN Still(c, r) /\ r.calls = <<>>
    BY <1>1 DEF C!Emit, Still, User, Member, Fields
<1>3. LET r == C!Deactivate(quitting, "ClientUser", ready, w)
      IN  \/ r = quitting
          \/ User(r) /\ r.requests = c.requests /\ Stops(r) /\ c.state # "Off"
    BY <1>1, UserDeactivates DEF Still
<1> QED BY <1>1, <1>2, <1>3 DEF C!OnQuit, quitting

-----------------------------------------------------------------------------
\* What the one user's client writes on an open socket.

Only(q, types) == \A i \in DOMAIN q : q[i].type \in types

\* From l, which has written nothing, to k: the link stays, an answer is waited for
\* only if it was or has been asked for.
Writes(l, k) ==
    /\ SameLink(l, k) /\ k.initializingTimer = l.initializingTimer
    /\ k.timeouts \subseteq l.timeouts \cup {"status"}
    /\ k.timeouts # {} => l.timeouts # {} \/ HasType(k.written, {"status"})

LEMMA OneMessage ==
    ASSUME NEW l, Writer(l), l.written = <<>>, l.socket = "open", l.daemonState # "eUnknown",
           NEW exit \in Names, NEW hop \in Hops
    PROVE  /\ LET k == Carry(l, CheckCall, exit)
              IN  Writes(l, k) /\ k.written = <<[type |-> "status"]>>
           /\ LET k == Carry(l, DeactivateCall, exit)
              IN  Writes(l, k) /\ k.written = <<[type |-> "deactivate"]>>
           /\ LET k == Carry(l, C!ImplCall("activate", hop), exit)
              IN  /\ Writes(l, k)
                  /\ k.written = <<[type |-> "activate",
                                    config |-> InterfaceConfig(hop, exit)]>>
<1>1. ASSUME NEW m \in Orders, NEW expected \in SUBSET {"status"},
             expected # {} => m.type = "status"
      PROVE  LET k == L!Write(l, m, expected) IN Writes(l, k) /\ k.written = <<m>>
    <2> DEFINE k == L!Write(l, m, expected)
    <2>1. Append(<<>>, m) = <<m>>
        OBVIOUS
    <2>2. k.written = <<m>> /\ k.timeouts = l.timeouts \cup expected
          /\ k.initializingTimer = l.initializingTimer
        BY <2>1 DEF L!Write, Writer, SocketFields
    <2>3. SameLink(l, k)
        BY SameWrite
    <2> HIDE DEF k
    <2>4. expected # {} => HasType(k.written, {"status"})
        BY <1>1, <2>2 DEF HasType
    <2>5. Writes(l, k)
        BY <2>2, <2>3, <2>4 DEF Writes
    <2> QED BY <2>2, <2>5 DEF k
<1>2. /\ [type |-> "status"] \in Orders /\ [type |-> "deactivate"] \in Orders
      /\ [type |-> "activate", config |-> InterfaceConfig(hop, exit)] \in Orders
    BY DEF Orders
<1>3. Carry(l, CheckCall, exit) = L!Write(l, [type |-> "status"], {"status"})
    BY DEF Carry, CheckCall, C!ImplCall, L!CheckStatus
<1>4. Carry(l, DeactivateCall, exit) = L!Write(l, [type |-> "deactivate"], {})
    BY DEF Carry, DeactivateCall, C!ImplCall, L!SendDeactivate
<1>5. Carry(l, C!ImplCall("activate", hop), exit)
          = L!Write(l, [type |-> "activate", config |-> InterfaceConfig(hop, exit)], {})
    BY DEF Carry, C!ImplCall, L!ActivateConfig
<1>6. LET k == Carry(l, CheckCall, exit)
      IN  Writes(l, k) /\ k.written = <<[type |-> "status"]>>
    BY <1>1, <1>2, <1>3
<1>7. LET k == Carry(l, DeactivateCall, exit)
      IN  Writes(l, k) /\ k.written = <<[type |-> "deactivate"]>>
    BY <1>1, <1>2, <1>4
<1>8. LET k == Carry(l, C!ImplCall("activate", hop), exit)
      IN  /\ Writes(l, k)
          /\ k.written = <<[type |-> "activate", config |-> InterfaceConfig(hop, exit)]>>
    BY <1>1, <1>2, <1>5
<1> QED BY <1>6, <1>7, <1>8

\* The second call of a deactivation.
LEMMA SecondMessage ==
    ASSUME NEW l, Writer(l), l.written = <<[type |-> "status"]>>, l.socket = "open",
           NEW exit
    PROVE  LET k == Carry(l, DeactivateCall, exit)
           IN  /\ SameLink(l, k) /\ k.initializingTimer = l.initializingTimer
               /\ k.timeouts = l.timeouts
               /\ Only(k.written, {"status", "deactivate"}) /\ HasType(k.written, {"status"})
<1> DEFINE s == [type |-> "status"]
           m == [type |-> "deactivate"]
           k == L!Write(l, m, {})
<1>1. Carry(l, DeactivateCall, exit) = k
    BY DEF Carry, DeactivateCall, C!ImplCall, L!SendDeactivate
<1>2. m \in Orders /\ s \in Orders /\ m.type = "deactivate" /\ s.type = "status"
    BY DEF Orders
<1>3. l.written = <<s>>
    OBVIOUS
<1> HIDE DEF m, s
<1>4. /\ k.written = Append(<<s>>, m) /\ k.timeouts = l.timeouts
      /\ k.initializingTimer = l.initializingTimer
    BY <1>3 DEF L!Write, Writer, SocketFields
<1>5. SameLink(l, k)
    BY <1>2, SameWrite
<1> HIDE DEF k
<1>6. <<s>> \in Seq(Orders) /\ Len(<<s>>) = 1 /\ <<s>>[1] = s
    BY <1>2
<1>7. /\ k.written \in Seq(Orders) /\ Len(k.written) = 2
      /\ k.written[1] = s /\ k.written[2] = m
    BY <1>2, <1>4, <1>6, AppendProperties
<1>8. DOMAIN k.written = 1..2
    BY <1>7
<1>9. Only(k.written, {"status", "deactivate"}) /\ HasType(k.written, {"status"})
    BY <1>2, <1>7, <1>8 DEF Only, HasType
<1> QED BY <1>1, <1>4, <1>5, <1>9

LEMMA WritesOfCalls ==
    ASSUME NEW l, Writer(l), l.written = <<>>, l.socket = "open", l.daemonState # "eUnknown",
           NEW c, Member(c)
    PROVE  LET k == CarryAll(l, c)
           IN  /\ c.calls = <<>> => k = l /\ Writes(l, k) /\ Only(k.written, {"status"})
               /\ c.calls = <<CheckCall>> => Writes(l, k) /\ Only(k.written, {"status"})
               /\ Stops(c) => Writes(l, k) /\ Only(k.written, {"status", "deactivate"})
               /\ Starts(c) =>
                     /\ Writes(l, k)
                     /\ \E m \in Orders : m.type = "activate" /\ k.written = <<m>>
<1> DEFINE k == CarryAll(l, c)
           exit == c.server.exit
<1>1. exit \in Names
    BY DEF Member, ServerData
<1> HIDE DEF exit
<1>2. ASSUME c.calls = <<>>
      PROVE  k = l /\ Writes(l, k) /\ Only(k.written, {"status"})
    <2>1. Len(c.calls) = 0 /\ DOMAIN l.written = {}
        BY <1>2
    <2>2. k = l
        BY <2>1 DEF CarryAll
    <2> QED BY <2>1, <2>2 DEF Writes, SameLink, Only
<1>3. ASSUME NEW call, c.calls = <<call>>
      PROVE  k = Carry(l, call, exit)
    <2>1. Len(c.calls) = 1 /\ c.calls[1] = call
        BY <1>3
    <2> QED BY <2>1 DEF CarryAll, exit
<1>4. ASSUME c.calls = <<CheckCall>>
      PROVE  Writes(l, k) /\ Only(k.written, {"status"})
    <2>1. C!NoHop \in Hops
        BY DEF C!NoHop, Hops, HopKinds, Names, Types
    <2>2. k = Carry(l, CheckCall, exit)
        BY <1>3, <1>4
    <2> HIDE DEF k
    <2>3. Writes(l, k) /\ k.written = <<[type |-> "status"]>>
        BY <1>1, <2>1, <2>2, OneMessage
    <2> QED BY <2>3 DEF Only
<1>5. ASSUME c.calls = <<DeactivateCall>>
      PROVE  Writes(l, k) /\ Only(k.written, {"status", "deactivate"})
    <2>1. C!NoHop \in Hops
        BY DEF C!NoHop, Hops, HopKinds, Names, Types
    <2>2. k = Carry(l, DeactivateCall, exit)
        BY <1>3, <1>5
    <2> HIDE DEF k
    <2>3. Writes(l, k) /\ k.written = <<[type |-> "deactivate"]>>
        BY <1>1, <2>1, <2>2, OneMessage
    <2> QED BY <2>3 DEF Only
<1>6. ASSUME c.calls = <<CheckCall, DeactivateCall>>
      PROVE  Writes(l, k) /\ Only(k.written, {"status", "deactivate"})
    <2>1. C!NoHop \in Hops
        BY DEF C!NoHop, Hops, HopKinds, Names, Types
    <2> DEFINE f == Carry(l, CheckCall, exit)
    <2>2. Len(c.calls) = 2 /\ c.calls[1] = CheckCall /\ c.calls[2] = DeactivateCall
        BY <1>6
    <2>3. k = Carry(f, DeactivateCall, exit)
        BY <2>2 DEF CarryAll, exit
    <2>4. Writes(l, f) /\ f.written = <<[type |-> "status"]>>
        BY <1>1, <2>1, OneMessage
    <2> HIDE DEF k, f
    <2>5. Writer(f) /\ f.socket = "open"
        BY <2>4 DEF Writes, SameLink
    <2>6. /\ SameLink(f, k) /\ k.initializingTimer = f.initializingTimer
          /\ k.timeouts = f.timeouts
          /\ Only(k.written, {"status", "deactivate"}) /\ HasType(k.written, {"status"})
        BY <2>3, <2>4, <2>5, SecondMessage
    <2> QED BY <2>4, <2>6 DEF Writes, SameLink
<1>7. ASSUME NEW hop \in Hops, c.calls = <<C!ImplCall("activate", hop)>>
      PROVE  /\ Writes(l, k)
             /\ \E m \in Orders : m.type = "activate" /\ k.written = <<m>>
    <2>1. k = Carry(l, C!ImplCall("activate", hop), exit)
        BY <1>3, <1>7
    <2> HIDE DEF k
    <2> DEFINE m == [type |-> "activate", config |-> InterfaceConfig(hop, exit)]
    <2>2. Writes(l, k) /\ k.written = <<m>>
        BY <1>1, <2>1, OneMessage
    <2>3. m \in Orders /\ m.type = "activate"
        BY <1>1 DEF Orders
    <2> HIDE DEF m
    <2> QED BY <2>2, <2>3
<1> HIDE DEF k
<1>8. Stops(c) => Writes(l, k) /\ Only(k.written, {"status", "deactivate"})
    BY <1>5, <1>6 DEF Stops
<1>9. Starts(c) => /\ Writes(l, k)
                   /\ \E m \in Orders : m.type = "activate" /\ k.written = <<m>>
    BY <1>7 DEF Starts
<1> QED BY <1>2, <1>4, <1>8, <1>9 DEF k

-----------------------------------------------------------------------------
\* The two directions of the socket.

LEMMA ConcatIndices ==
    ASSUME NEW S, NEW q \in Seq(S), NEW r \in Seq(S)
    PROVE  /\ q \o r \in Seq(S)
           /\ Len(q) \in Nat /\ DOMAIN q = 1..Len(q)
           /\ Len(r) \in Nat /\ DOMAIN r = 1..Len(r)
           /\ DOMAIN (q \o r) = 1..(Len(q) + Len(r))
           /\ \A i \in DOMAIN q : (q \o r)[i] = q[i]
           /\ \A i \in DOMAIN (q \o r) : i > Len(q) =>
                 i - Len(q) \in DOMAIN r /\ (q \o r)[i] = r[i - Len(q)]
           /\ \A i \in DOMAIN r : /\ Len(q) + i \in DOMAIN (q \o r)
                                  /\ (q \o r)[Len(q) + i] = r[i]
<1>1. /\ q \o r \in Seq(S) /\ Len(q) \in Nat /\ DOMAIN q = 1..Len(q)
      /\ Len(r) \in Nat /\ DOMAIN r = 1..Len(r)
    BY ConcatProperties, LenProperties
<1>2. /\ Len(q \o r) = Len(q) + Len(r)
      /\ \A i \in 1..(Len(q) + Len(r)) :
            (q \o r)[i] = IF i <= Len(q) THEN q[i] ELSE r[i - Len(q)]
    BY ConcatProperties
<1>3. DOMAIN (q \o r) = 1..(Len(q) + Len(r))
    BY <1>1, <1>2, LenProperties
<1> DEFINE n == Len(q)
           k == Len(r)
           t == q \o r
<1> HIDE DEF n, k, t
<1>4. \A i \in 1..n : t[i] = q[i]
    BY <1>1, <1>2 DEF n, k, t
<1>5. \A i \in 1..(n + k) : i > n => i - n \in 1..k /\ t[i] = r[i - n]
    BY <1>1, <1>2 DEF n, k, t
<1>6. \A i \in 1..k : n + i \in 1..(n + k) /\ t[n + i] = r[i]
    <2> TAKE i \in 1..k
    <2>1. n \in Nat /\ k \in Nat
        BY <1>1 DEF n, k
    <2>2. n + i \in 1..(n + k) /\ n + i > n /\ (n + i) - n = i
        BY <2>1
    <2> QED BY <1>5, <2>2
<1> QED BY <1>1, <1>3, <1>4, <1>5, <1>6 DEF n, k, t

LEMMA HasTypeConcat ==
    ASSUME NEW S, NEW q \in Seq(S), NEW r \in Seq(S), NEW types
    PROVE  HasType(q \o r, types) <=> HasType(q, types) \/ HasType(r, types)
<1> DEFINE t == q \o r
<1>1. /\ Len(q) \in Nat /\ DOMAIN q = 1..Len(q)
      /\ Len(r) \in Nat /\ DOMAIN r = 1..Len(r)
      /\ DOMAIN t = 1..(Len(q) + Len(r))
      /\ \A i \in DOMAIN q : t[i] = q[i]
      /\ \A i \in DOMAIN t : i > Len(q) =>
            i - Len(q) \in DOMAIN r /\ t[i] = r[i - Len(q)]
      /\ \A i \in DOMAIN r : Len(q) + i \in DOMAIN t /\ t[Len(q) + i] = r[i]
    BY ConcatIndices
<1> HIDE DEF t
<1>2. ASSUME NEW i \in DOMAIN t, t[i].type \in types
      PROVE  HasType(q, types) \/ HasType(r, types)
    <2>1. CASE i > Len(q)
        BY <1>1, <1>2, <2>1 DEF HasType
    <2>2. CASE ~(i > Len(q))
        <3>1. i \in DOMAIN q
            BY <1>1, <2>2
        <3> QED BY <1>1, <1>2, <3>1 DEF HasType
    <2> QED BY <2>1, <2>2
<1>3. ASSUME NEW i \in DOMAIN q, q[i].type \in types PROVE HasType(t, types)
    <2>1. i \in DOMAIN t
        BY <1>1
    <2> QED BY <1>1, <1>3, <2>1 DEF HasType
<1>4. ASSUME NEW i \in DOMAIN r, r[i].type \in types PROVE HasType(t, types)
    BY <1>1, <1>4 DEF HasType
<1> QED BY <1>2, <1>3, <1>4 DEF HasType, t

\* Live at an index of q is the same in q and in a longer queue.
LEMMA LiveConcat ==
    ASSUME NEW S, NEW q \in Seq(S), NEW r \in Seq(S), NEW session, NEW i \in DOMAIN q
    PROVE  Live(q \o r, session, i) <=> Live(q, session, i)
<1> DEFINE t == q \o r
<1>1. /\ Len(q) \in Nat /\ DOMAIN q = 1..Len(q) /\ Len(r) \in Nat
      /\ DOMAIN t = 1..(Len(q) + Len(r))
      /\ \A j \in DOMAIN q : t[j] = q[j]
    BY ConcatIndices
<1> HIDE DEF t
<1>2. \A j \in DOMAIN t : j < i => j \in DOMAIN q /\ t[j] = q[j]
    BY <1>1
<1>3. \A j \in DOMAIN q : j \in DOMAIN t /\ t[j] = q[j]
    BY <1>1
<1> QED BY <1>2, <1>3 DEF Live, t

LEMMA AppendQuiet ==
    ASSUME NEW q \in Seq(Orders), NEW r \in Seq(Orders), NEW session,
           Only(r, {"status", "deactivate"}), NoRestart(q, session)
    PROVE  /\ NoRestart(q \o r, session)
           /\ Only(r, {"status"}) /\ LiveStop(q \o r, session) => LiveStop(q, session)
<1> DEFINE t == q \o r
<1>1. /\ Len(q) \in Nat /\ DOMAIN q = 1..Len(q) /\ Len(r) \in Nat
      /\ DOMAIN t = 1..(Len(q) + Len(r))
      /\ \A i \in DOMAIN q : t[i] = q[i]
      /\ \A i \in DOMAIN t : i > Len(q) =>
            i - Len(q) \in DOMAIN r /\ t[i] = r[i - Len(q)]
    BY ConcatIndices
<1>2. \A i \in DOMAIN q : Live(t, session, i) <=> Live(q, session, i)
    BY LiveConcat
<1> HIDE DEF t
<1>3. \A i \in DOMAIN t : i \in DOMAIN q \/ t[i].type \in {"status", "deactivate"}
    BY <1>1 DEF Only
<1>4. ASSUME NEW i \in DOMAIN t, NEW j \in DOMAIN t, t[i].type = "deactivate",
             Live(t, session, i), j > i, t[j].type = "activate"
      PROVE  FALSE
    <2>1. j \in DOMAIN q
        BY <1>3, <1>4
    <2>2. i \in DOMAIN q
        BY <1>1, <1>4, <2>1
    <2> QED BY <1>1, <1>2, <1>4, <2>1, <2>2 DEF NoRestart
<1>5. ASSUME Only(r, {"status"}), NEW i \in DOMAIN t, t[i].type = "deactivate",
             Live(t, session, i)
      PROVE  LiveStop(q, session)
    <2>1. i \in DOMAIN q
        BY <1>1, <1>5 DEF Only
    <2> QED BY <1>1, <1>2, <1>5, <2>1 DEF LiveStop
<1> QED BY <1>4, <1>5 DEF NoRestart, LiveStop, t

LEMMA AppendActivate ==
    ASSUME NEW q \in Seq(Orders), NEW m \in Orders, m.type = "activate", NEW session,
           ~LiveStop(q, session)
    PROVE  ~LiveStop(q \o <<m>>, session) /\ NoRestart(q \o <<m>>, session)
<1> DEFINE t == q \o <<m>>
<1>1. <<m>> \in Seq(Orders) /\ DOMAIN <<m>> = {1} /\ Len(<<m>>) = 1 /\ <<m>>[1] = m
    OBVIOUS
<1>2. /\ Len(q) \in Nat /\ DOMAIN q = 1..Len(q)
      /\ DOMAIN t = 1..(Len(q) + 1)
      /\ \A i \in DOMAIN q : t[i] = q[i]
      /\ t[Len(q) + 1] = m
    BY <1>1, ConcatIndices
<1>3. \A i \in DOMAIN q : Live(t, session, i) <=> Live(q, session, i)
    BY <1>1, LiveConcat
<1> HIDE DEF t
<1>4. ASSUME NEW i \in DOMAIN t, t[i].type = "deactivate", Live(t, session, i)
      PROVE  FALSE
    <2>1. i \in DOMAIN q
        BY <1>2, <1>4
    <2> QED BY <1>2, <1>3, <1>4, <2>1 DEF LiveStop
<1> QED BY <1>4 DEF LiveStop, NoRestart, t

\* Reading the first message.
LEMMA TailIndices ==
    ASSUME NEW S, NEW q \in Seq(S), q # <<>>
    PROVE  /\ Tail(q) \in Seq(S) /\ Len(q) \in Nat /\ DOMAIN q = 1..Len(q)
           /\ DOMAIN Tail(q) = 1..(Len(q) - 1)
           /\ \A i \in DOMAIN Tail(q) : i + 1 \in DOMAIN q /\ Tail(q)[i] = q[i + 1]
           /\ 1 \in DOMAIN q /\ Head(q) = q[1] /\ Head(q) \in S
OBVIOUS

LEMMA HasTypeTail ==
    ASSUME NEW S, NEW q \in Seq(S), q # <<>>, NEW types
    PROVE  /\ HasType(Tail(q), types) => HasType(q, types)
           /\ HasType(q, types) /\ Head(q).type \notin types => HasType(Tail(q), types)
<1> DEFINE t == Tail(q)
<1>1. /\ Len(q) \in Nat /\ DOMAIN q = 1..Len(q) /\ DOMAIN t = 1..(Len(q) - 1)
      /\ \A i \in DOMAIN t : i + 1 \in DOMAIN q /\ t[i] = q[i + 1]
      /\ Head(q) = q[1]
    BY TailIndices
<1> HIDE DEF t
<1>2. HasType(t, types) => HasType(q, types)
    BY <1>1 DEF HasType
<1>3. ASSUME NEW i \in DOMAIN q, q[i].type \in types, Head(q).type \notin types
      PROVE  HasType(t, types)
    <2>1. i - 1 \in DOMAIN t /\ t[i - 1] = q[i]
        BY <1>1, <1>3
    <2> QED BY <1>3, <2>1 DEF HasType
<1> QED BY <1>2, <1>3 DEF HasType, t

LEMMA DisconnectedLastTail ==
    ASSUME NEW S, NEW q \in Seq(S), q # <<>>, DisconnectedLast(q)
    PROVE  /\ DisconnectedLast(Tail(q))
           /\ Head(q).type = "disconnected" =>
                 ~HasType(Tail(q), {"connected", "disconnected"})
<1> DEFINE t == Tail(q)
<1>1. /\ Len(q) \in Nat /\ DOMAIN q = 1..Len(q) /\ DOMAIN t = 1..(Len(q) - 1)
      /\ \A i \in DOMAIN t : i + 1 \in DOMAIN q /\ t[i] = q[i + 1]
      /\ 1 \in DOMAIN q /\ Head(q) = q[1]
    BY TailIndices
<1> HIDE DEF t
<1>2. \A i, j \in DOMAIN t : j > i => j + 1 > i + 1
    BY <1>1
<1>3. \A i \in DOMAIN t : i + 1 > 1
    BY <1>1
<1>4. DisconnectedLast(t)
    BY <1>1, <1>2 DEF DisconnectedLast
<1>5. Head(q).type = "disconnected" => ~HasType(t, {"connected", "disconnected"})
    BY <1>1, <1>3 DEF DisconnectedLast, HasType
<1> QED BY <1>4, <1>5 DEF t

\* Sessions seen from the rest of the queue.
LEMMA LiveTail ==
    ASSUME NEW q \in Seq(Orders), q # <<>>, NEW session \in BOOLEAN, NEW after \in BOOLEAN,
           after = (session \/ Head(q).type = "activate")
    PROVE  /\ NoRestart(q, session) => NoRestart(Tail(q), after)
           /\ LiveStop(Tail(q), after) => LiveStop(q, session)
<1> DEFINE t == Tail(q)
<1>1. /\ Len(q) \in Nat /\ DOMAIN q = 1..Len(q) /\ DOMAIN t = 1..(Len(q) - 1)
      /\ \A i \in DOMAIN t : i + 1 \in DOMAIN q /\ t[i] = q[i + 1]
      /\ 1 \in DOMAIN q /\ Head(q) = q[1]
    BY TailIndices
<1> HIDE DEF t
<1>2. \A i, j \in DOMAIN t : (j > i <=> j + 1 > i + 1) /\ i + 1 > 1
    BY <1>1
<1>3. ASSUME NEW i \in DOMAIN t, Live(t, after, i)
      PROVE  Live(q, session, i + 1)
    <2>1. CASE session
        BY <2>1 DEF Live
    <2>2. CASE Head(q).type = "activate"
        <3>1. 1 < i + 1
            BY <1>1
        <3> QED BY <1>1, <2>2, <3>1 DEF Live
    <2>3. CASE ~after
        <3>1. PICK j \in DOMAIN t : j < i /\ t[j].type = "activate"
            BY <1>3, <2>3 DEF Live
        <3>2. j + 1 < i + 1
            BY <1>1, <3>1
        <3> QED BY <1>1, <3>1, <3>2 DEF Live
    <2> QED BY <2>1, <2>2, <2>3
<1>4. NoRestart(q, session) => NoRestart(t, after)
    BY <1>1, <1>2, <1>3 DEF NoRestart
<1>5. LiveStop(t, after) => LiveStop(q, session)
    BY <1>1, <1>3 DEF LiveStop
<1> QED BY <1>4, <1>5 DEF t

-----------------------------------------------------------------------------
\* The steps of a working client.

\* LocalSocketController is l and q is left to be read when a handler runs.
Reads(l, q) ==
    /\ Writer(l) /\ l.written = <<>> /\ l.socket = "open" /\ l.daemonState = "eReady"
    /\ l.initializingTimer = FALSE /\ l.timeouts \subseteq {"status"}
    /\ l.timeouts # {} => HasType(up, {"status"}) \/ HasType(q, {"status"})
    /\ q \in Seq(Replies) /\ DisconnectedLast(q)
    /\ HasType(q, {"disconnected"}) => HasType(down, {"disconnected"})
    /\ HasType(q, {"connected", "disconnected"})
          => HasType(down, {"connected", "disconnected"})

\* The handler leaves c, and its calls are carried out.
Handled(c, l, q) ==
    /\ ClientStep(c, CarryAll(l, c))
    /\ down' = q
    /\ UNCHANGED <<dmn, mishaps>>

\* The ways a handler ends.
EndsStill(c) ==
    /\ c.calls = <<>> \/ c.calls = <<CheckCall>>
    /\ c.state = ctl.state /\ (Idle(ctl) => Idle(c))
EndsStarting(c) == Starts(c) /\ (~Idle(ctl) \/ ctl.state = "Off")
EndsIdle(c) ==
    Stops(c) \/ (c.calls = <<>> /\ c.state \in {"On", "Connecting"} /\ Idle(c))
EndsOff(c, q) ==
    /\ c.calls = <<>> /\ c.state = "Off" /\ Idle(c)
    /\ Gone /\ ~HasType(q, {"connected", "disconnected"})

LEMMA GoneIsDead ==
    ASSUME Gone, dmn.session \in BOOLEAN
    PROVE  ~LiveStop(up, dmn.session) /\ NoRestart(up, dmn.session)
BY DEF Gone, LiveStop, NoRestart, Live, HasType

LEMMA WorkingHandler ==
    ASSUME OffInv, Working, NEW c, NEW l, NEW q, Reads(l, q), Handled(c, l, q),
           User(c), Asks(c), c.state \in WorkingStates,
           EndsStill(c) \/ EndsStarting(c) \/ EndsIdle(c) \/ EndsOff(c, q)
    PROVE  OffInv'
<1> DEFINE k == CarryAll(l, c)
<1>1. /\ ctl' = c /\ lsc' = k /\ up' = up \o k.written /\ down' = q
      /\ dmn' = dmn /\ orphans' = orphans /\ mishaps' = mishaps
    BY DEF Handled, ClientStep
<1>2. /\ c.calls = <<>> => k = l /\ Writes(l, k) /\ Only(k.written, {"status"})
      /\ c.calls = <<CheckCall>> => Writes(l, k) /\ Only(k.written, {"status"})
      /\ Stops(c) => Writes(l, k) /\ Only(k.written, {"status", "deactivate"})
      /\ Starts(c) =>
            /\ Writes(l, k)
            /\ \E m \in Orders : m.type = "activate" /\ k.written = <<m>>
    BY WritesOfCalls DEF Reads, User
<1> HIDE DEF k
<1>3. Writes(l, k)
    BY <1>2 DEF EndsStill, EndsStarting, EndsIdle, EndsOff
<1>4. Writer(k) /\ k.socket = "open" /\ k.daemonState = "eReady"
      /\ k.initializingTimer = FALSE /\ k.timeouts \subseteq {"status"}
      /\ k.written \in Seq(Orders)
    BY <1>3 DEF Writes, SameLink, Reads, Writer
<1>5. up \in Seq(Orders) /\ up' \in Seq(Orders)
    BY <1>1, <1>4, ConcatProperties DEF OffInv
<1>6. k.timeouts # {} => HasType(up', {"status"}) \/ HasType(q, {"status"})
    BY <1>1, <1>3, <1>4, <1>5, HasTypeConcat DEF Writes, Reads
<1>7. dmn.session \in BOOLEAN /\ AnyDaemon(dmn)
    BY DEF OffInv, AnyDaemon
<1>8. ASSUME Only(k.written, {"status", "deactivate"})
      PROVE  /\ NoRestart(up', dmn.session)
             /\ HasType(up', {"activate"}) => HasType(up, {"activate"})
             /\ Only(k.written, {"status"}) /\ LiveStop(up', dmn.session)
                   => LiveStop(up, dmn.session)
    <2>1. ~HasType(k.written, {"activate"})
        BY <1>8 DEF Only, HasType
    <2> QED BY <1>1, <1>4, <1>5, <1>8, <2>1, AppendQuiet, HasTypeConcat DEF Working
<1>9. ASSUME Only(k.written, {"status"}) PROVE Only(k.written, {"status", "deactivate"})
    BY <1>9 DEF Only
<1>10. CASE EndsStill(c)
    <2>1. Only(k.written, {"status"}) /\ Only(k.written, {"status", "deactivate"})
        BY <1>2, <1>9, <1>10 DEF EndsStill
    <2>2. Gone => Gone'
        BY <1>1, <1>8, <2>1 DEF Gone
    <2>3. Working'
        BY <1>1, <1>4, <1>6, <1>8, <1>10, <2>1, <2>2 DEF Working, Reads, EndsStill
    <2> QED BY <1>1, <1>4, <1>5, <2>3 DEF OffInv, Reads
<1>11. CASE EndsStarting(c)
    <2>1. PICK m \in Orders : m.type = "activate" /\ k.written = <<m>>
        BY <1>2, <1>11 DEF EndsStarting
    <2>2. ~LiveStop(up, dmn.session) /\ ~HasType(down, {"disconnected"})
        BY <1>11 DEF EndsStarting, Working
    <2>3. ~LiveStop(up', dmn.session) /\ NoRestart(up', dmn.session)
        BY <1>1, <1>5, <2>1, <2>2, AppendActivate
    <2>4. Working'
        BY <1>1, <1>4, <1>6, <1>11, <2>2, <2>3 DEF Working, Reads, EndsStarting, Starts
    <2> QED BY <1>1, <1>4, <1>5, <2>4 DEF OffInv, Reads
<1>12. CASE EndsIdle(c)
    <2>1. Only(k.written, {"status", "deactivate"})
        BY <1>2, <1>9, <1>12 DEF EndsIdle
    <2>2. Gone => Gone'
        BY <1>1, <1>8, <2>1 DEF Gone
    <2>3. Idle(c) /\ c.state # "Off"
        BY <1>12 DEF EndsIdle, Stops
    <2>4. Working'
        BY <1>1, <1>4, <1>6, <1>8, <2>1, <2>2, <2>3 DEF Working, Reads
    <2> QED BY <1>1, <1>4, <1>5, <2>4 DEF OffInv, Reads
<1>13. CASE EndsOff(c, q)
    <2>1. Only(k.written, {"status"}) /\ Only(k.written, {"status", "deactivate"})
        BY <1>2, <1>9, <1>13 DEF EndsOff
    <2>2. Gone'
        BY <1>1, <1>8, <1>13, <2>1 DEF Gone, EndsOff
    <2>3. ~LiveStop(up', dmn.session)
        BY <1>7, <1>8, <1>13, <2>1, GoneIsDead DEF EndsOff
    <2>4. ~HasType(q, {"disconnected"})
        BY <1>13 DEF EndsOff, HasType
    <2>5. Working'
        BY <1>1, <1>4, <1>6, <1>8, <1>13, <2>1, <2>2, <2>3, <2>4
        DEF Working, Reads, EndsOff
    <2> QED BY <1>1, <1>4, <1>5, <2>5 DEF OffInv, Reads
<1> QED BY <1>10, <1>11, <1>12, <1>13

LEMMA FreshUser ==
    ASSUME User(ctl), Asks(ctl)
    PROVE  /\ User(C!Fresh) /\ C!Fresh.calls = <<>> /\ Still(ctl, C!Fresh)
           /\ Asks(C!Fresh)
<1>1. Still(ctl, C!Fresh) /\ C!Fresh.calls = <<>>
    BY EmptySeq DEF C!Fresh, Still, User, Member, Fields
<1> QED BY <1>1 DEF Still, Asks

LEMMA SilentLink ==
    ASSUME Writer(lsc)
    PROVE  /\ SameLink(lsc, L!Silent) /\ L!Silent.written = <<>> /\ L!Silent.signals = <<>>
           /\ L!Silent.timeouts = lsc.timeouts
           /\ L!Silent.initializingTimer = lsc.initializingTimer
BY EmptySeq DEF L!Silent, SameLink, Writer, SocketFields

LEMMA SilentReads ==
    ASSUME OffInv, Working
    PROVE  Reads(L!Silent, down)
BY SilentLink DEF OffInv, Working, Reads, SameLink

\* A handler that does nothing, before the daemon has answered.
LEMMA WaitingHandler ==
    ASSUME OffInv, Unconnected \/ Asking, NEW c, Still(ctl, c), c.calls = <<>>,
           ClientStep(c, CarryAll(L!Silent, c)), UNCHANGED <<dmn, down, mishaps>>
    PROVE  OffInv'
<1>1. CarryAll(L!Silent, c) = L!Silent
    <2>1. Len(c.calls) = 0
        OBVIOUS
    <2> QED BY <2>1 DEF CarryAll
<1>2. up \in Seq(Orders) /\ up \o <<>> = up
    BY ConcatEmptySeq DEF OffInv
<1>3. /\ ctl' = c /\ lsc' = L!Silent /\ up' = up /\ dmn' = dmn /\ down' = down
      /\ orphans' = orphans /\ mishaps' = mishaps
    BY <1>1, <1>2, SilentLink DEF ClientStep, OffInv
<1>4. /\ Writer(lsc') /\ lsc'.socket = lsc.socket /\ lsc'.daemonState = lsc.daemonState
      /\ lsc'.timeouts = lsc.timeouts /\ lsc'.initializingTimer = lsc.initializingTimer
    BY <1>3, SilentLink DEF OffInv, SameLink
<1>5. /\ User(ctl') /\ ctl'.requests = ctl.requests /\ ctl'.state = ctl.state
      /\ Idle(ctl') = Idle(ctl)
    BY <1>3 DEF Still, Idle
<1>6. Asks(ctl')
    BY <1>5 DEF OffInv, Asks
<1>7. Gone' = Gone
    BY <1>3 DEF Gone
<1>8. Unconnected => Unconnected'
    BY <1>3, <1>4, <1>5, <1>7 DEF Unconnected
<1>9. Asking => Asking'
    BY <1>3, <1>4, <1>5, <1>7 DEF Asking
<1> QED BY <1>3, <1>4, <1>5, <1>6, <1>8, <1>9 DEF OffInv

LEMMA StateOfPhase ==
    ASSUME OffInv
    PROVE  /\ ctl.state \in UserStates
           /\ ctl.state # "Initializing" => Working
           /\ Working => ctl.state # "Initializing" /\ ReadyOf(lsc)
           /\ ctl.state = "Initializing" => Unconnected \/ Asking
BY DEF OffInv, Unconnected, Asking, Working, UserStates, WorkingStates, ReadyOf

\* The ways a user command ends.
LEMMA CommandEnds ==
    ASSUME OffInv, NEW c, Still(ctl, c), c.calls = <<>>,
           NEW command \in {"activate", "deactivate", "getStatus", "quit"},
           NEW loc \in Locations, NEW w \in Worlds
    PROVE  LET r == CommandResult(command, c, loc, "ClientUser", ReadyOf(lsc), w)
           IN  /\ User(r)
               /\ \/ Still(ctl, r) /\ (r.calls = <<>> \/ (r.calls = <<CheckCall>>
                                                           /\ command = "getStatus"))
                  \/ r.requests = ctl.requests /\ Stops(r) /\ ctl.state # "Off"
                  \/ /\ command = "activate" /\ ctl.state = "Off"
                     /\ r.calls = <<>> /\ r.state = "Off"
                     /\ r.queue = ctl.queue /\ r.handshakeTimer = ctl.handshakeTimer
                     /\ r.requests = OneMore(ctl.requests)
<1> DEFINE r == CommandResult(command, c, loc, "ClientUser", ReadyOf(lsc), w)
<1>1. ReadyOf(lsc) \in BOOLEAN /\ (c.state # "Initializing" => ReadyOf(lsc))
      /\ c.state \in UserStates
    BY ReadyBoolean, StateOfPhase DEF Still
<1>2. User(c) /\ c.requests = ctl.requests /\ c.state = ctl.state
      /\ c.queue = ctl.queue /\ c.handshakeTimer = ctl.handshakeTimer
    BY DEF Still
<1>3. CASE command = "activate"
    <2>1. C!ServerDataOf(loc) \in ServerData
        BY DEF C!ServerDataOf, ServerData, Names
    <2>2. r = C!Activate(c, C!ServerDataOf(loc), "ClientUser", "RandomizeServerSelection",
                         TRUE, w)
        BY <1>3 DEF CommandResult
    <2> HIDE DEF r
    <2> DEFINE data == C!ServerDataOf(loc)
               a == C!Activate(c, data, "ClientUser", "RandomizeServerSelection", TRUE, w)
    <2>5. data \in ServerData /\ r = a
        BY <2>1, <2>2
    <2> HIDE DEF data
    <2>7. User(c) /\ c.state \in UserStates
        BY <1>1, <1>2
    <2>6. /\ User(a) /\ a.calls = c.calls /\ a.state = c.state
          /\ a.queue = c.queue /\ a.handshakeTimer = c.handshakeTimer
          /\ \/ a.requests = c.requests
             \/ /\ c.state = "Off"
                /\ a.requests = OneMore(c.requests)
        BY <2>5, <2>7, UserActivates
    <2> HIDE DEF a
    <2>3. /\ User(r) /\ r.calls = c.calls /\ r.state = c.state
          /\ r.queue = c.queue /\ r.handshakeTimer = c.handshakeTimer
          /\ \/ r.requests = c.requests
             \/ /\ c.state = "Off"
                /\ r.requests = OneMore(c.requests)
        BY <2>5, <2>6
    <2>4. /\ User(r)
          /\ \/ Still(ctl, r) /\ r.calls = <<>>
             \/ /\ ctl.state = "Off" /\ r.calls = <<>> /\ r.state = "Off"
                /\ r.queue = ctl.queue /\ r.handshakeTimer = ctl.handshakeTimer
                /\ r.requests = OneMore(ctl.requests)
        BY <1>2, <2>3 DEF Still
    <2> QED BY <1>3, <2>4 DEF r
<1>4. CASE command = "deactivate"
    <2>1. r = C!Deactivate(c, "ClientUser", ReadyOf(lsc), w)
        BY <1>4 DEF CommandResult
    <2> HIDE DEF r
    <2>2. \/ r = c
          \/ User(r) /\ r.requests = c.requests /\ Stops(r) /\ c.state # "Off"
        BY <1>1, <1>2, <2>1, UserDeactivates
    <2> QED BY <1>2, <2>2 DEF r
<1>5. CASE command = "getStatus"
    <2>1. r = C!GetStatusOf(c)
        BY <1>5 DEF CommandResult
    <2> HIDE DEF r
    <2>2. Still(c, r) /\ r.calls \in {<<>>, <<CheckCall>>}
        BY <1>2, <2>1, UserGetStatus
    <2>3. Still(ctl, r)
        BY <1>2, <2>2 DEF Still
    <2> QED BY <1>5, <2>2, <2>3 DEF r, Still
<1>6. CASE command = "quit"
    <2>1. r = C!OnQuit(c, ReadyOf(lsc), w)
        BY <1>6 DEF CommandResult
    <2> HIDE DEF r
    <2>2. \/ Still(c, r) /\ r.calls = <<>>
          \/ User(r) /\ r.requests = c.requests /\ Stops(r) /\ c.state # "Off"
        BY <1>1, <1>2, <2>1, UserQuits
    <2> QED BY <1>2, <2>2 DEF r, Still
<1> QED BY <1>3, <1>4, <1>5, <1>6

LEMMA OffUserCommand ==
    ASSUME OneUser, OffInv, NEW command \in Requests \ {"cleanlogs"}, NEW loc \in Locations,
           NEW user \in Askers, NEW w \in Worlds, UserCommand(command, loc, user, w)
    PROVE  OffInv'
<1> DEFINE c == CommandResult(command, C!Fresh, loc, user, ReadyOf(lsc), w)
<1>1. command \in {"activate", "deactivate", "getStatus", "quit"} /\ user = "ClientUser"
    BY DEF OneUser
<1>2. /\ User(C!Fresh) /\ C!Fresh.calls = <<>> /\ Still(ctl, C!Fresh) /\ Asks(ctl)
    BY FreshUser DEF OffInv
<1>3. /\ User(c)
      /\ \/ Still(ctl, c) /\ (c.calls = <<>> \/ (c.calls = <<CheckCall>>
                                                  /\ command = "getStatus"))
         \/ c.requests = ctl.requests /\ Stops(c) /\ ctl.state # "Off"
         \/ /\ command = "activate" /\ ctl.state = "Off"
            /\ c.calls = <<>> /\ c.state = "Off"
            /\ c.queue = ctl.queue /\ c.handshakeTimer = ctl.handshakeTimer
            /\ c.requests = OneMore(ctl.requests)
    BY <1>1, <1>2, CommandEnds
<1>4. /\ ClientStep(c, CarryAll(L!Silent, c)) /\ UNCHANGED <<dmn, down, mishaps>>
      /\ command = "activate" => ctl.requests["ClientUser"] < MaxRequests
      /\ command = "getStatus" => ctl.state \in {"On", "OnPartial"}
    BY <1>1 DEF UserCommand
<1> HIDE DEF c
<1>5. CASE ctl.state = "Initializing"
    <2>1. Unconnected \/ Asking
        BY <1>5, StateOfPhase
    <2>2. CASE Still(ctl, c) /\ c.calls = <<>>
        BY <1>4, <2>1, <2>2, WaitingHandler
    <2>3. CASE Stops(c) /\ ~Still(ctl, c)
        <3>1. c = C!Fresh \/ Still(ctl, c)
            <4>1. ~C!MayDeactivate(C!Fresh, "ClientUser")
                BY <1>2, <1>5 DEF C!MayDeactivate, C!DeactivatableStates, Still
            <4>2. CASE command = "deactivate"
                BY <1>1, <4>1, <4>2 DEF c, CommandResult, C!Deactivate
            <4>3. CASE command = "quit"
                <5>1. c = C!Emit([C!Fresh EXCEPT !.nextStep = "Quit"], {"readyToQuit"})
                    BY <1>1, <1>2, <1>5, <4>3 DEF c, CommandResult, C!OnQuit, Still
                <5> QED BY <1>2, <5>1 DEF C!Emit, Still, User, Member, Fields
            <4>4. CASE command = "activate"
                <5>1. c = C!Fresh
                    BY <1>1, <1>2, <1>5, <4>4
                    DEF c, CommandResult, C!Activate, C!ActivatableStates, Still
                <5> QED BY <5>1
            <4> QED BY <1>1, <1>4, <1>5, <4>2, <4>3, <4>4
        <3> QED BY <1>2, <2>3, <3>1
    <2>4. CASE Still(ctl, c) /\ c.calls = <<CheckCall>> /\ command = "getStatus"
        BY <1>4, <1>5, <2>4
    <2>5. CASE ctl.state = "Off"
        BY <1>5, <2>5
    <2>6. ~(Stops(c) /\ Still(ctl, c))
        BY <1>5 DEF Stops, Still
    <2> QED BY <1>3, <2>2, <2>3, <2>4, <2>5, <2>6
<1>6. CASE ctl.state # "Initializing"
    <2>1. Working /\ Reads(L!Silent, down)
        BY <1>6, StateOfPhase, SilentReads
    <2>2. Handled(c, L!Silent, down)
        BY <1>4 DEF Handled
    <2>3. CASE Still(ctl, c) /\ (c.calls = <<>> \/ c.calls = <<CheckCall>>)
        <3>1. EndsStill(c) /\ Asks(c) /\ c.state \in WorkingStates
            BY <1>2, <2>1, <2>3 DEF EndsStill, Still, Asks, Idle, Working
        <3> QED BY <1>3, <2>1, <2>2, <3>1, WorkingHandler
    <2>4. CASE c.requests = ctl.requests /\ Stops(c) /\ ctl.state # "Off"
        <3>1. EndsIdle(c) /\ Asks(c) /\ c.state \in WorkingStates
            BY <1>2, <2>4 DEF EndsIdle, Stops, Asks, WorkingStates
        <3> QED BY <1>3, <2>1, <2>2, <3>1, WorkingHandler
    <2>5. CASE /\ command = "activate" /\ ctl.state = "Off"
               /\ c.calls = <<>> /\ c.state = "Off"
               /\ c.queue = ctl.queue /\ c.handshakeTimer = ctl.handshakeTimer
               /\ c.requests = OneMore(ctl.requests)
        <3>1. ctl.requests["ClientUser"] = 0
            <4>1. ctl.requests["ClientUser"] \in {0, 1} /\ MaxRequests \in {0, 1}
                BY <1>2 DEF Asks, OneUser, C!Users
            <4> QED BY <1>4, <2>5, <4>1
        <3>2. Asks(c)
            BY <1>2, <2>5, <3>1 DEF Asks, C!Users, OneMore
        <3>3. EndsStill(c) /\ c.state \in WorkingStates
            BY <2>5 DEF EndsStill, Idle, WorkingStates
        <3> QED BY <1>3, <2>1, <2>2, <3>2, <3>3, WorkingHandler
    <2> QED BY <1>3, <2>3, <2>4, <2>5
<1> QED BY <1>5, <1>6

LEMMA OffAccountReply ==
    ASSUME OffInv, NEW user \in C!Users, NEW w \in Worlds, AccountReply(user, w)
    PROVE  OffInv'
<1> DEFINE f == [C!Fresh EXCEPT !.requests[user] = @ - 1]
           c == C!StartActivation(f, "RandomizeServerSelection", user, w)
<1>1. /\ User(C!Fresh) /\ C!Fresh.calls = <<>> /\ Still(ctl, C!Fresh) /\ Asks(ctl)
    BY FreshUser DEF OffInv
<1>2. ctl.requests[user] > 0
    BY DEF AccountReply
<1>3. user = "ClientUser" /\ ctl.requests["ClientUser"] = 1 /\ ctl.state = "Off"
    BY <1>1, <1>2 DEF Asks, C!Users
<1>4. User(f) /\ f.calls = <<>> /\ f.requests = [ctl.requests EXCEPT ![user] = @ - 1]
    BY <1>1 DEF Still, User, Member, Fields
<1>5. ClientStep(c, CarryAll(L!Silent, c)) /\ UNCHANGED <<dmn, down, mishaps>>
    BY DEF AccountReply
<1> HIDE DEF f
<1>6. /\ User(c) /\ c.requests = f.requests
      /\ (c.calls = <<>> /\ c.state = "Connecting" /\ Idle(c)) \/ Starts(c)
    BY <1>3, <1>4, UserStart
<1> HIDE DEF c
<1>7. Asks(c)
    BY <1>1, <1>3, <1>4, <1>6 DEF Asks, C!Users
<1>8. Working /\ Reads(L!Silent, down) /\ Handled(c, L!Silent, down)
    BY <1>3, <1>5, StateOfPhase, SilentReads DEF Handled
<1>9. (EndsIdle(c) \/ EndsStarting(c)) /\ c.state \in WorkingStates
    BY <1>3, <1>6 DEF EndsIdle, EndsStarting, Starts, WorkingStates
<1> QED BY <1>6, <1>7, <1>8, <1>9, WorkingHandler

LEMMA OffHandshakeTimeout ==
    ASSUME OffInv, NEW w \in Worlds, HandshakeTimeout(w)
    PROVE  OffInv'
<1> DEFINE f == [C!Fresh EXCEPT !.handshakeTimer = FALSE]
           c == C!OnHandshakeTimeout(f, ReadyOf(lsc), w)
<1>1. /\ User(C!Fresh) /\ C!Fresh.calls = <<>> /\ Still(ctl, C!Fresh) /\ Asks(ctl)
    BY FreshUser DEF OffInv
<1>2. ~Idle(ctl)
    BY DEF HandshakeTimeout, Idle
<1>3. Working /\ ctl.state # "Off" /\ ReadyOf(lsc) = TRUE
    BY <1>2, ReadyBoolean, StateOfPhase DEF OffInv, Unconnected, Asking, Working
<1>4. /\ User(f) /\ f.calls = <<>> /\ f.requests = ctl.requests /\ f.state = ctl.state
    BY <1>1 DEF Still, User, Member, Fields
<1>5. ClientStep(c, CarryAll(L!Silent, c)) /\ UNCHANGED <<dmn, down, mishaps>>
    BY DEF HandshakeTimeout
<1> HIDE DEF f
<1>6. f.state \in WorkingStates
    BY <1>3, <1>4 DEF Working
<1>7. /\ User(c) /\ c.requests = f.requests
      /\ Rests(f, c) \/ Starts(c) \/ Stops(c)
    BY <1>3, <1>4, <1>6, UserTimeout
<1> HIDE DEF c
<1>8. Asks(c)
    BY <1>1, <1>3, <1>4, <1>7 DEF Asks
<1>9. Reads(L!Silent, down) /\ Handled(c, L!Silent, down)
    BY <1>3, <1>5, SilentReads DEF Handled
<1>10. EndsStill(c) \/ EndsStarting(c) \/ EndsIdle(c)
    BY <1>2, <1>4, <1>7 DEF EndsStill, EndsStarting, EndsIdle, Rests
<1>11. c.state \in WorkingStates
    BY <1>4, <1>6, <1>7 DEF Rests, Starts, Stops, WorkingStates
<1> QED BY <1>3, <1>7, <1>8, <1>9, <1>10, <1>11, WorkingHandler

\* What a message makes of the response timers and of a link that is up.
LEMMA ParseAnswered ==
    ASSUME NEW l, Writer(l), l.signals = <<>>, NEW m \in Replies
    PROVE  LET r == L!ParseCommand(l, m)
           IN  /\ r.timeouts = l.timeouts \ {m.type} /\ r.written = l.written
               /\ l.initializingTimer = FALSE => r.initializingTimer = FALSE
               /\ l.daemonState = "eInitializing" /\ m.type = "status" =>
                     r.daemonState = "eReady" /\ r.signals = L!InitialStatusSignals(m)
               /\ l.daemonState = "eReady" =>
                     /\ r.daemonState = "eReady"
                     /\ m.type = "connected" =>
                           r.signals = <<[name |-> "connected", key |-> m.pubkey]>>
                     /\ m.type \notin {"connected", "disconnected"} =>
                           r.signals \in {<<>>, <<L!Signal("statusUpdated")>>}
<1> DEFINE answered == [l EXCEPT !.timeouts = @ \ {m.type}]
           r == L!ParseCommand(l, m)
<1>1. /\ DOMAIN answered = SocketFields /\ answered.timeouts = l.timeouts \ {m.type}
      /\ answered.written = l.written /\ answered.daemonState = l.daemonState
      /\ answered.initializingTimer = l.initializingTimer /\ answered.signals = <<>>
    BY DEF Writer, SocketFields
<1>2. \/ r = answered /\ ~(l.daemonState = "eInitializing" /\ m.type = "status")
                      /\ ~(l.daemonState = "eReady" /\ m.type = "connected")
      \/ /\ l.daemonState = "eInitializing" /\ m.type = "status"
         /\ r = [answered EXCEPT !.daemonState = "eReady",
                                 !.signals = L!InitialStatusSignals(m)]
      \/ /\ l.daemonState = "eReady" /\ m.type = "status"
         /\ r = [answered EXCEPT !.signals = L!StatusSignals(m)]
      \/ /\ l.daemonState = "eReady" /\ m.type = "disconnected"
         /\ r = [answered EXCEPT !.initializingTimer = FALSE,
                                 !.signals = <<L!Signal("disconnected")>>]
      \/ /\ l.daemonState = "eReady" /\ m.type = "connected"
         /\ r = [answered EXCEPT !.signals = <<[name |-> "connected", key |-> m.pubkey]>>]
    <2>1. CASE l.daemonState = "eInitializing"
        BY <2>1 DEF L!ParseCommand
    <2>2. CASE l.daemonState = "eReady"
        <3>1. CASE m.type = "status"
            BY <2>2, <3>1 DEF L!ParseCommand
        <3>2. CASE m.type = "disconnected"
            BY <2>2, <3>2 DEF L!ParseCommand
        <3>3. CASE m.type = "connected"
            BY <2>2, <3>3 DEF L!ParseCommand
        <3>4. CASE m.type \notin {"status", "disconnected", "connected"}
            BY <2>2, <3>4 DEF L!ParseCommand
        <3> QED BY <3>1, <3>2, <3>3, <3>4
    <2>3. CASE l.daemonState \notin {"eInitializing", "eReady"}
        BY <2>3 DEF L!ParseCommand
    <2> QED BY <2>1, <2>2, <2>3
<1> HIDE DEF answered, r
<1>3. L!StatusSignals(m) \in {<<>>, <<L!Signal("statusUpdated")>>}
    BY DEF L!StatusSignals
<1>4. /\ r.timeouts = l.timeouts \ {m.type} /\ r.written = l.written
      /\ l.initializingTimer = FALSE => r.initializingTimer = FALSE
      /\ l.daemonState = "eReady" => r.daemonState = "eReady"
    BY <1>1, <1>2 DEF SocketFields
<1>5. ASSUME l.daemonState = "eInitializing", m.type = "status"
      PROVE  r.daemonState = "eReady" /\ r.signals = L!InitialStatusSignals(m)
    BY <1>1, <1>2, <1>5 DEF SocketFields
<1>6. ASSUME l.daemonState = "eReady", m.type = "connected"
      PROVE  r.signals = <<[name |-> "connected", key |-> m.pubkey]>>
    BY <1>1, <1>2, <1>6 DEF SocketFields
<1>7. ASSUME l.daemonState = "eReady", m.type \notin {"connected", "disconnected"}
      PROVE  r.signals \in {<<>>, <<L!Signal("statusUpdated")>>}
    BY <1>1, <1>2, <1>3, <1>7 DEF SocketFields
<1> QED BY <1>4, <1>5, <1>6, <1>7 DEF r

\* The slots of the one user's Controller.
LEMMA UserSlot ==
    ASSUME NEW c, User(c), c.calls = <<>>, c.state \in UserStates, NEW l, NEW w \in Worlds
    PROVE  /\ LET r == Slot(c, L!Signal("disconnected"), l, w)
              IN  /\ User(r) /\ r.requests = c.requests /\ r.calls = <<>>
                  /\ r.state = "Off" /\ Idle(r)
           /\ LET r == Slot(c, L!Signal("statusUpdated"), l, w)
              IN  Still(c, r) /\ r.calls = <<>>
           /\ LET r == Slot(c, [name |-> "initialized", connected |-> FALSE], l, w)
              IN  /\ User(r) /\ r.requests = c.requests /\ r.calls = <<>> /\ r.state = "Off"
                  /\ r.queue = c.queue /\ r.handshakeTimer = c.handshakeTimer
<1>1. LET r == Slot(c, L!Signal("disconnected"), l, w)
      IN  /\ User(r) /\ r.requests = c.requests /\ r.calls = <<>>
          /\ r.state = "Off" /\ Idle(r)
    <2>1. Slot(c, L!Signal("disconnected"), l, w) = C!OnDisconnected(c, w)
        BY DEF Slot, L!Signal
    <2> QED BY <2>1, UserDisconnected
<1>2. LET r == Slot(c, L!Signal("statusUpdated"), l, w)
      IN  Still(c, r) /\ r.calls = <<>>
    <2>1. Slot(c, L!Signal("statusUpdated"), l, w) = [c EXCEPT !.statusCallbacks = FALSE]
        BY DEF Slot, L!Signal
    <2> QED BY <2>1 DEF Still, User, Member, Fields
<1>3. LET r == Slot(c, [name |-> "initialized", connected |-> FALSE], l, w)
      IN  /\ User(r) /\ r.requests = c.requests /\ r.calls = <<>> /\ r.state = "Off"
          /\ r.queue = c.queue /\ r.handshakeTimer = c.handshakeTimer
    <2>1. Slot(c, [name |-> "initialized", connected |-> FALSE], l, w) =
             C!OnInitialized(c, TRUE, FALSE)
        BY DEF Slot
    <2> QED BY <2>1, UserInitialized
<1> QED BY <1>1, <1>2, <1>3

LEMMA UserConnectedSlot ==
    ASSUME NEW c, User(c), c.calls = <<>>, c.state \in WorkingStates, NEW l, ReadyOf(l),
           NEW key, NEW w \in Worlds
    PROVE  LET r == Slot(c, [name |-> "connected", key |-> key], l, w)
           IN  /\ User(r) /\ r.requests = c.requests
               /\ \/ r = c
                  \/ c.queue # <<>> /\ (Rests(c, r) \/ Starts(r))
                  \/ (r.calls = <<>> /\ r.state = "On" /\ Idle(r)) \/ Stops(r)
<1>1. ReadyOf(l) = TRUE
    BY DEF ReadyOf
<1>2. Slot(c, [name |-> "connected", key |-> key], l, w) = C!OnConnected(c, key, TRUE, w)
    BY <1>1 DEF Slot
<1> QED BY <1>2, UserConnected

LEMMA OffClientReceive ==
    ASSUME OffInv, NEW w \in Worlds, ClientReceive(w)
    PROVE  OffInv'
<1> DEFINE m == Head(down)
           q == Tail(down)
           l == L!ParseCommand(L!Silent, m)
           c == IF l.signals = <<>> THEN C!Fresh ELSE Slot(C!Fresh, l.signals[1], l, w)
<1>1. down \in Seq(Replies) /\ down # <<>> /\ m \in Replies /\ q \in Seq(Replies)
    BY TailIndices DEF OffInv, ClientReceive
<1>2. /\ User(C!Fresh) /\ C!Fresh.calls = <<>> /\ Still(ctl, C!Fresh) /\ Asks(ctl)
      /\ C!Fresh.state \in UserStates
    BY FreshUser, StateOfPhase DEF OffInv, Still
<1>3. /\ Writer(L!Silent) /\ L!Silent.written = <<>> /\ L!Silent.signals = <<>>
      /\ L!Silent.socket = lsc.socket /\ L!Silent.daemonState = lsc.daemonState
      /\ L!Silent.timeouts = lsc.timeouts /\ L!Silent.initializingTimer = FALSE
    BY SilentLink DEF OffInv, SameLink
<1>4. ClientStep(c, CarryAll(l, c)) /\ down' = q /\ UNCHANGED <<dmn, mishaps>>
    BY DEF ClientReceive
<1>5. /\ l.timeouts = lsc.timeouts \ {m.type} /\ l.written = <<>>
      /\ l.initializingTimer = FALSE /\ Writer(l) /\ l.socket = lsc.socket
      /\ lsc.daemonState = "eInitializing" /\ m.type = "status" =>
            l.daemonState = "eReady" /\ l.signals = L!InitialStatusSignals(m)
      /\ lsc.daemonState = "eReady" =>
            /\ l.daemonState = "eReady"
            /\ m.type = "connected" =>
                  l.signals = <<[name |-> "connected", key |-> m.pubkey]>>
            /\ m.type \notin {"connected", "disconnected"} =>
                  l.signals \in {<<>>, <<L!Signal("statusUpdated")>>}
            /\ m.type = "disconnected" => l.signals = <<L!Signal("disconnected")>>
    <2> DEFINE s == L!Silent
               r == L!ParseCommand(s, m)
    <2>1. /\ m \in Replies /\ l = r /\ Writer(s) /\ s.written = <<>> /\ s.signals = <<>>
          /\ s.socket = lsc.socket /\ s.daemonState = lsc.daemonState
          /\ s.timeouts = lsc.timeouts /\ s.initializingTimer = FALSE
        BY <1>1, <1>3
    <2> HIDE DEF m, s, l
    <2>2. /\ Writer(r) /\ r.socket = s.socket
          /\ s.daemonState = "eReady" /\ m.type = "disconnected" =>
                r.signals = <<L!Signal("disconnected")>>
        BY <2>1, ParseLink
    <2>3. /\ r.timeouts = s.timeouts \ {m.type} /\ r.written = s.written
          /\ r.initializingTimer = FALSE
          /\ s.daemonState = "eInitializing" /\ m.type = "status" =>
                r.daemonState = "eReady" /\ r.signals = L!InitialStatusSignals(m)
          /\ s.daemonState = "eReady" =>
                /\ r.daemonState = "eReady"
                /\ m.type = "connected" =>
                      r.signals = <<[name |-> "connected", key |-> m.pubkey]>>
                /\ m.type \notin {"connected", "disconnected"} =>
                      r.signals \in {<<>>, <<L!Signal("statusUpdated")>>}
        BY <2>1, ParseAnswered
    <2> HIDE DEF r
    <2> QED BY <2>1, <2>2, <2>3
<1>6. m.type \in {"connected", "disconnected"} => HasType(down, {"connected", "disconnected"})
    BY <1>1, TailIndices DEF HasType
<1>7. m.type = "disconnected" => HasType(down, {"disconnected"})
    BY <1>1, TailIndices DEF HasType
<1> HIDE DEF m, l
<1>8. ASSUME NEW s, l.signals = <<s>>
      PROVE  c = Slot(C!Fresh, s, l, w)
    <2>1. <<s>> # <<>> /\ <<s>>[1] = s
        OBVIOUS
    <2> QED BY <1>8, <2>1
<1> HIDE DEF c, q
<1>9. CASE Working
    <2>1. /\ HasType(q, {"disconnected"}) => HasType(down, {"disconnected"})
          /\ HasType(q, {"connected", "disconnected"})
                => HasType(down, {"connected", "disconnected"})
          /\ HasType(down, {"status"}) /\ m.type # "status" => HasType(q, {"status"})
        <3>1. \A types : HasType(q, types) => HasType(down, types)
            BY <1>1, HasTypeTail DEF q
        <3>2. \A types : HasType(down, types) /\ m.type \notin types => HasType(q, types)
            BY <1>1, HasTypeTail DEF q, m
        <3>3. m.type # "status" => m.type \notin {"status"}
            OBVIOUS
        <3> QED BY <3>1, <3>2, <3>3
    <2>2. DisconnectedLast(q)
          /\ (m.type = "disconnected" => ~HasType(q, {"connected", "disconnected"}))
        BY <1>1, <1>9, DisconnectedLastTail DEF Working, q, m
    <2>3. l.timeouts # {} => HasType(up, {"status"}) \/ HasType(q, {"status"})
        <3>1. l.timeouts # {} => m.type # "status" /\ lsc.timeouts # {}
            BY <1>5 DEF OffInv
        <3> QED BY <1>9, <2>1, <3>1 DEF Working
    <2>4. Reads(l, q)
        BY <1>1, <1>5, <1>9, <2>1, <2>2, <2>3 DEF Reads, OffInv, Working
    <2>5. Handled(c, l, q)
        BY <1>4 DEF Handled
    <2>6. ReadyOf(l) /\ C!Fresh.state = ctl.state /\ ctl.state \in WorkingStates
          /\ C!Fresh.queue = ctl.queue /\ C!Fresh.handshakeTimer = ctl.handshakeTimer
          /\ C!Fresh.requests = ctl.requests
        BY <1>2, <1>5, <1>9 DEF ReadyOf, Still, Working
    <2>7. CASE m.type = "connected"
        <3>1. ctl.state # "Off"
            BY <1>6, <1>9, <2>7 DEF Working
        <3>2. c = Slot(C!Fresh, [name |-> "connected", key |-> m.pubkey], l, w)
            BY <1>5, <1>8, <1>9, <2>7 DEF Working
        <3>3. /\ User(c) /\ c.requests = ctl.requests
              /\ \/ c = C!Fresh
                 \/ ctl.queue # <<>> /\ (Rests(C!Fresh, c) \/ Starts(c))
                 \/ (c.calls = <<>> /\ c.state = "On" /\ Idle(c)) \/ Stops(c)
            BY <1>2, <2>6, <3>2, UserConnectedSlot
        <3>4. Asks(c)
            BY <1>2, <3>1, <3>3 DEF Asks
        <3>5. c = C!Fresh => EndsStill(c)
            BY <1>2, <2>6 DEF EndsStill, Idle
        <3>6. ctl.queue # <<>> => ~Idle(ctl)
            BY DEF Idle
        <3>7. EndsStill(c) \/ EndsStarting(c) \/ EndsIdle(c)
            BY <2>6, <3>3, <3>5, <3>6 DEF EndsStill, EndsStarting, EndsIdle, Rests
        <3>8. c.state \in WorkingStates
            BY <2>6, <3>3 DEF Rests, Starts, Stops, WorkingStates
        <3> QED BY <1>9, <2>4, <2>5, <3>3, <3>4, <3>7, <3>8, WorkingHandler
    <2>8. CASE m.type = "disconnected"
        <3>1. c = Slot(C!Fresh, L!Signal("disconnected"), l, w)
            BY <1>5, <1>8, <1>9, <2>8 DEF Working
        <3>2. /\ User(c) /\ c.requests = ctl.requests /\ c.calls = <<>>
              /\ c.state = "Off" /\ Idle(c)
            BY <1>2, <2>6, <3>1, UserSlot
        <3>3. Gone
            BY <1>7, <1>9, <2>8 DEF Working
        <3>4. EndsOff(c, q) /\ Asks(c) /\ c.state \in WorkingStates
            BY <1>2, <2>2, <2>8, <3>2, <3>3 DEF EndsOff, Asks, WorkingStates
        <3> QED BY <1>9, <2>4, <2>5, <3>2, <3>4, WorkingHandler
    <2>9. CASE m.type \notin {"connected", "disconnected"}
        <3>1. c = C!Fresh \/ c = Slot(C!Fresh, L!Signal("statusUpdated"), l, w)
            <4>1. CASE l.signals = <<>>
                BY <4>1 DEF c
            <4>2. CASE l.signals = <<L!Signal("statusUpdated")>>
                BY <1>8, <4>2
            <4> QED BY <1>5, <1>9, <2>9, <4>1, <4>2 DEF Working
        <3>2. Still(C!Fresh, c) /\ c.calls = <<>>
            <4>1. Still(C!Fresh, C!Fresh)
                BY <1>2 DEF Still
            <4> QED BY <1>2, <3>1, <4>1, UserSlot
        <3>3. User(c) /\ EndsStill(c) /\ Asks(c) /\ c.state \in WorkingStates
            BY <1>2, <2>6, <3>2 DEF EndsStill, Still, Asks, Idle
        <3> QED BY <1>9, <2>4, <2>5, <3>3, WorkingHandler
    <2> QED BY <2>7, <2>8, <2>9
<1>10. CASE Asking
    <2>1. Len(down) = 1 /\ m.type = "status" /\ ~m.connected /\ up = <<>>
        <3>1. up = <<>> /\ Len(down) = 1 /\ down[1].type = "status" /\ ~down[1].connected
            BY <1>1, <1>10 DEF Asking
        <3> QED BY <1>1, <3>1, TailIndices DEF m
    <2>2. q = <<>>
        <3>1. Len(q) = 0
            BY <1>1, <2>1 DEF q
        <3> QED BY <1>1, <3>1, EmptySeq
    <2>3. l.daemonState = "eReady" /\ l.timeouts = {} /\ l.socket = "open"
        BY <1>5, <1>10, <2>1 DEF OffInv, Asking
    <2>4. l.signals = <<[name |-> "initialized", connected |-> FALSE]>>
        <3>1. m.connected = FALSE
            BY <1>1, <2>1 DEF Replies
        <3> QED BY <1>5, <1>10, <2>1, <3>1 DEF Asking, L!InitialStatusSignals
    <2>5. c = Slot(C!Fresh, [name |-> "initialized", connected |-> FALSE], l, w)
        BY <1>8, <2>4
    <2>6. /\ User(c) /\ c.requests = ctl.requests /\ c.calls = <<>> /\ c.state = "Off"
          /\ Idle(c)
        <3>1. /\ User(c) /\ c.requests = C!Fresh.requests /\ c.calls = <<>>
              /\ c.state = "Off" /\ c.queue = C!Fresh.queue
              /\ c.handshakeTimer = C!Fresh.handshakeTimer
            BY <1>2, <2>5, UserSlot
        <3> QED BY <1>2, <1>10, <3>1 DEF Still, Asking, Idle
    <2>7. CarryAll(l, c) = l
        <3>1. Len(c.calls) = 0
            BY <2>6
        <3> QED BY <3>1 DEF CarryAll
    <2>8. /\ ctl' = c /\ lsc' = l /\ up' = <<>> /\ down' = <<>> /\ dmn' = dmn
          /\ mishaps' = mishaps /\ orphans' = orphans
        <3>1. up \o <<>> = <<>>
            BY <2>1
        <3> QED BY <1>4, <1>5, <2>2, <2>7, <3>1 DEF ClientStep
    <2>9. DOMAIN <<>> = {}
        OBVIOUS
    <2>10. Working'
        <3>1. Gone'
            BY <1>10, <2>8, <2>9 DEF Asking, Gone, HasType
        <3>2. ~HasType(down', {"connected", "disconnected"}) /\ ~HasType(down', {"disconnected"})
              /\ DisconnectedLast(down') /\ NoRestart(up', dmn'.session)
              /\ ~LiveStop(up', dmn'.session)
            BY <2>8, <2>9 DEF HasType, DisconnectedLast, NoRestart, LiveStop
        <3>3. "Off" \in WorkingStates
            BY DEF WorkingStates
        <3> QED BY <2>3, <2>6, <2>8, <3>1, <3>2, <3>3 DEF Working
    <2>11. Asks(ctl')
        BY <1>2, <2>6, <2>8 DEF Asks
    <2>12. <<>> \in Seq(Orders) /\ <<>> \in Seq(Replies)
        BY EmptySeq
    <2> QED BY <1>5, <2>3, <2>6, <2>8, <2>10, <2>11, <2>12 DEF OffInv
<1>11. CASE Unconnected
    BY <1>1, <1>11 DEF Unconnected
<1> QED BY <1>9, <1>10, <1>11 DEF OffInv

LEMMA OffSocketConnected ==
    ASSUME OffInv, SocketConnected
    PROVE  OffInv'
<1> DEFINE s == [type |-> "status"]
           o == [L!Silent EXCEPT !.socket = "open"]
           l == L!DaemonConnected(L!Silent)
<1>1. Unconnected
    BY DEF OffInv, SocketConnected, Asking, Working
<1>2. /\ DOMAIN o = SocketFields /\ o.socket = "open" /\ o.daemonState = "eInitializing"
      /\ o.written = <<>> /\ o.timeouts = {} /\ o.initializingTimer = FALSE
    BY <1>1, SilentLink DEF OffInv, Unconnected, SameLink, Writer, SocketFields
<1>3. l = L!Write(o, s, {"status"})
    BY <1>2 DEF L!DaemonConnected, L!CheckStatus
<1>4. s \in Orders
    BY DEF Orders
<1> HIDE DEF o, s, l
<1>5. Append(<<>>, s) = <<s>> /\ <<s>> \in Seq(Orders) /\ <<>> \o <<s>> = <<s>>
    BY <1>4
<1>6. /\ DOMAIN l = SocketFields /\ l.socket = "open" /\ l.daemonState = "eInitializing"
      /\ l.written = Append(<<>>, s) /\ l.timeouts = {} \cup {"status"}
      /\ l.initializingTimer = FALSE
    BY <1>2, <1>3 DEF L!Write, SocketFields
<1>7. /\ ctl' = C!Fresh /\ lsc' = l /\ up' = <<s>> /\ down' = <<>> /\ dmn' = dmn
      /\ orphans' = orphans /\ mishaps' = mishaps
    BY <1>1, <1>5, <1>6 DEF SocketConnected, ClientStep, Unconnected, l
<1>8. /\ User(ctl') /\ Asks(ctl') /\ ctl'.state = "Initializing" /\ Idle(ctl')
    BY <1>1, <1>7, FreshUser DEF OffInv, Still, Idle, Unconnected
<1>9. Writer(l)
    BY <1>5, <1>6 DEF Writer
<1>10. Gone'
    <2>1. DOMAIN <<s>> = {1} /\ <<s>>[1] = s
        OBVIOUS
    <2>2. s.type # "activate"
        BY DEF s
    <2> QED BY <1>1, <1>7, <2>1, <2>2 DEF Unconnected, Gone, HasType
<1>11. Asking'
    BY <1>6, <1>7, <1>8, <1>10 DEF Asking, s
<1> QED BY <1>5, <1>6, <1>7, <1>8, <1>9, <1>11, EmptySeq DEF OffInv

\* Nothing goes wrong, and no answer is late.
LEMMA NoMishap ==
    ASSUME OneUser, OffInv
    PROVE  /\ ~CleanupLogs /\ ~InitializingTimeout /\ ~ClientRestart /\ ~DaemonCrash
           /\ \A w \in Worlds : ~ResponseTimeout(w) /\ ~SocketClosed(w)
<1>1. ~(mishaps < MaxMishaps)
    BY DEF OneUser, OffInv
<1>2. ~CleanupLogs
    BY DEF OneUser, CleanupLogs
<1>3. ~InitializingTimeout
    BY DEF OffInv, InitializingTimeout
<1>4. ~ClientRestart /\ ~DaemonCrash
    BY <1>1 DEF ClientRestart, DaemonCrash
<1>5. ASSUME NEW w \in Worlds, ResponseTimeout(w)
      PROVE  FALSE
    <2>1. lsc.timeouts # {} /\ (lsc.socket # "open" \/ (up = <<>> /\ down = <<>>))
        BY <1>1, <1>5 DEF ResponseTimeout
    <2>2. DOMAIN <<>> = {} /\ Len(<<>>) # 1
        OBVIOUS
    <2>3. ~Unconnected
        BY <2>1 DEF Unconnected
    <2>6. \A m : <<m>> # <<>>
        OBVIOUS
    <2>4. ~Asking
        BY <2>1, <2>2, <2>6 DEF Asking
    <2>5. ~Working
        BY <2>1, <2>2 DEF Working, HasType
    <2> QED BY <2>3, <2>4, <2>5 DEF OffInv
<1>6. ASSUME NEW w \in Worlds, SocketClosed(w)
      PROVE  FALSE
    BY <1>6 DEF SocketClosed, OffInv, Unconnected, Asking, Working
<1> QED BY <1>2, <1>3, <1>4, <1>5, <1>6

-----------------------------------------------------------------------------
\* The daemon of the one user, whose system calls succeed.

\* A call that says nothing and keeps the session.
Serves(d, r) == AnyDaemon(r) /\ r.out = d.out /\ r.session = d.session

LEMMA ServesTransitive ==
    ASSUME NEW a, NEW b, NEW c, Serves(a, b), Serves(b, c)
    PROVE  Serves(a, c)
BY DEF Serves

LEMMA AnyConfigFields ==
    ASSUME NEW cfg \in AnyConfigs
    PROVE  cfg.type \in Types /\ cfg.key \in Names
BY DEF AnyConfigs, InterfaceConfig

LEMMA ServesSystem ==
    ASSUME NEW d, AnyDaemon(d), NEW peers, NEW handshakes, NEW interface, NEW routes,
           NEW resolvers, NEW timer
    PROVE  /\ Serves(d, d)
           /\ Serves(d, [d EXCEPT !.interface = interface])
           /\ Serves(d, [d EXCEPT !.peers = peers])
           /\ Serves(d, [d EXCEPT !.routes = routes])
           /\ Serves(d, [d EXCEPT !.resolvers = resolvers])
           /\ Serves(d, [d EXCEPT !.handshakes = handshakes])
           /\ Serves(d, [d EXCEPT !.handshakeTimer = timer])
BY DEF Serves, AnyDaemon, DaemonFields

LEMMA ServesPending ==
    ASSUME NEW d, AnyDaemon(d), NEW cfg \in AnyConfigs
    PROVE  /\ Serves(d, D!SetConnection(d, cfg))
           /\ Serves(d, D!Pending(d, cfg).d) /\ D!Pending(d, cfg).ok
<1> DEFINE s  == D!SetConnection(d, cfg)
           cs == [t \in DOMAIN d.connections \cup {cfg.type} |->
                     IF t = cfg.type THEN D!Connection(cfg) ELSE d.connections[t]]
           n  == D!Connection(cfg)
<1>1. cfg.type \in Types
    BY AnyConfigFields
<1>2. DOMAIN n = {"config", "date"} /\ n.date \in BOOLEAN /\ n.config = cfg
    BY DEF D!Connection
<1>3. DOMAIN s = DaemonFields /\ s.connections = cs /\ s.session = d.session /\ s.out = d.out
    BY DEF D!SetConnection, AnyDaemon, DaemonFields
<1> HIDE DEF n, s
<1>4. /\ DOMAIN cs = DOMAIN d.connections \cup {cfg.type}
      /\ \A t \in DOMAIN cs : cs[t] = n \/ (t \in DOMAIN d.connections /\ cs[t] = d.connections[t])
    BY DEF n
<1> HIDE DEF cs
<1>5. AnyDaemon(s)
    BY <1>1, <1>2, <1>3, <1>4 DEF AnyDaemon
<1>6. Serves(d, s)
    BY <1>3, <1>5 DEF Serves
<1>7. Serves(d, [s EXCEPT !.handshakeTimer = TRUE])
    BY <1>5, <1>6, ServesSystem, ServesTransitive
<1> QED BY <1>6, <1>7 DEF D!Pending, D!Succeeded, s

LEMMA ServesAnew ==
    ASSUME NEW d, AnyDaemon(d), NEW cfg \in AnyConfigs
    PROVE  LET r == D!ActivateAnew(d, cfg, D!NoFault)
           IN  Serves(d, r.d) /\ r.ok
<1> DEFINE u        == D!BringUpInterface(d, D!NoFault)
           peered   == [u.d EXCEPT !.peers = @ \cup {cfg.key}]
           resolved == [peered EXCEPT !.resolvers = @ \/ D!NeedsResolvers(cfg)]
           routed   == [resolved EXCEPT !.routes = @ \cup cfg.ranges]
<1>1. Serves(d, u.d) /\ u.ok
    BY ServesSystem DEF D!BringUpInterface, D!Succeeded, D!NoFault
<1> HIDE DEF u
<1>2. Serves(d, peered)
    BY <1>1 DEF Serves, AnyDaemon, DaemonFields
<1> HIDE DEF peered
<1>3. Serves(d, resolved)
    BY <1>2 DEF Serves, AnyDaemon, DaemonFields
<1> HIDE DEF resolved
<1>4. Serves(d, routed)
    BY <1>3 DEF Serves, AnyDaemon, DaemonFields
<1> HIDE DEF routed
<1>5. Serves(d, D!Pending(routed, cfg).d) /\ D!Pending(routed, cfg).ok
    BY <1>4, ServesPending, ServesTransitive DEF Serves
<1>6. D!ActivateAnew(d, cfg, D!NoFault) = D!Pending(routed, cfg)
    BY <1>1 DEF D!ActivateAnew, D!NoFault, u, peered, resolved, routed
<1> QED BY <1>5, <1>6

LEMMA ServesSwitching ==
    ASSUME NEW d, AnyDaemon(d), NEW cfg \in AnyConfigs
    PROVE  LET r == D!ActivateBySwitching(d, cfg, D!NoFault)
           IN  Serves(d, r.d) /\ r.ok
<1> DEFINE last   == d.connections[cfg.type].config
           peered == [d EXCEPT !.peers = @ \cup {cfg.key}]
           routed == [peered EXCEPT !.routes = (@ \cup cfg.ranges) \ (last.ranges \ cfg.ranges)]
           pruned == IF cfg.key = last.key THEN routed
                     ELSE [routed EXCEPT !.peers = @ \ {last.key},
                                         !.handshakes = @ \ {last.key}]
           switched == D!SwitchServer(d, cfg, D!NoFault)
           restored == [switched.d EXCEPT !.resolvers = FALSE]
           resolved == [restored EXCEPT !.resolvers = D!NeedsResolvers(cfg)]
<1>1. Serves(d, peered)
    BY DEF Serves, AnyDaemon, DaemonFields
<1> HIDE DEF peered, last
<1>2. Serves(d, routed)
    BY <1>1 DEF Serves, AnyDaemon, DaemonFields
<1> HIDE DEF routed
<1>3. Serves(d, pruned)
    BY <1>2 DEF Serves, AnyDaemon, DaemonFields
<1> HIDE DEF pruned
<1>4. Serves(d, D!SetConnection(pruned, cfg))
    BY <1>3, ServesPending, ServesTransitive DEF Serves
<1>5. switched = [d |-> D!SetConnection(pruned, cfg), ok |-> TRUE]
    BY DEF D!SwitchServer, D!Succeeded, D!NoFault, last, peered, routed, pruned
<1>6. Serves(d, switched.d) /\ switched.ok
    BY <1>4, <1>5
<1> HIDE DEF switched
<1>7. Serves(d, restored)
    BY <1>6 DEF Serves, AnyDaemon, DaemonFields
<1> HIDE DEF restored
<1>8. Serves(d, resolved)
    BY <1>7 DEF Serves, AnyDaemon, DaemonFields
<1> HIDE DEF resolved
<1>9. Serves(d, D!Pending(resolved, cfg).d) /\ D!Pending(resolved, cfg).ok
    BY <1>8, ServesPending, ServesTransitive DEF Serves
<1>10. D!ActivateBySwitching(d, cfg, D!NoFault) = D!Pending(resolved, cfg)
    BY <1>6 DEF D!ActivateBySwitching, D!NoFault, switched, restored, resolved
<1> QED BY <1>9, <1>10

\* deactivate() takes every connection away.
LEMMA TakesDown ==
    ASSUME NEW d, AnyDaemon(d), NEW emitSignals \in BOOLEAN, d.out = <<>>
    PROVE  LET r == D!DeactivateDaemon(d, emitSignals, D!NoFault)
           IN  /\ r.ok /\ AnyDaemon(r.d) /\ r.d.session = d.session
               /\ DOMAIN r.d.connections = {}
               /\ r.d.out = IF emitSignals THEN <<D!Message("disconnected")>> ELSE <<>>
<1> DEFINE m == D!Message("disconnected")
           cleared == D!TornDown(d, emitSignals, D!NoFault)
           gone == [cleared EXCEPT !.interface = "absent", !.routes = {},
                                   !.peers = {}, !.handshakes = {}]
<1>1. m \in Replies
    BY DEF D!Message, Replies
<1>2. /\ DOMAIN cleared = DaemonFields /\ cleared.connections = <<>>
      /\ cleared.session = d.session
      /\ cleared.out = IF emitSignals THEN Append(<<>>, m) ELSE <<>>
    BY DEF D!TornDown, AnyDaemon, DaemonFields
<1> HIDE DEF cleared, m
<1>3. /\ Append(<<>>, m) = <<m>> /\ <<m>> \in Seq(Replies) /\ <<>> \in Seq(Replies)
      /\ DOMAIN <<>> = {}
    BY <1>1, EmptySeq
<1>4. /\ DOMAIN gone = DaemonFields /\ gone.connections = <<>> /\ gone.session = d.session
      /\ gone.out = IF emitSignals THEN <<m>> ELSE <<>>
    BY <1>2, <1>3 DEF DaemonFields
<1> HIDE DEF gone
<1>5. AnyDaemon(gone) /\ DOMAIN gone.connections = {}
    BY <1>3, <1>4 DEF AnyDaemon
<1>6. D!DeactivateDaemon(d, emitSignals, D!NoFault) = [d |-> gone, ok |-> TRUE]
    BY DEF D!DeactivateDaemon, D!Succeeded, D!NoFault, gone, cleared
<1> QED BY <1>4, <1>5, <1>6 DEF m

LEMMA ServesActivate ==
    ASSUME NEW d, AnyDaemon(d), d.out = <<>>, NEW cfg \in AnyConfigs
    PROVE  LET r == D!ActivateDaemon(d, cfg, D!NoFault)
           IN  Serves(d, r.d) /\ r.ok
<1> DEFINE b == D!DeactivateDaemon(d, FALSE, D!NoFault)
<1>1. b.ok /\ Serves(d, b.d)
    BY TakesDown DEF Serves
<1> HIDE DEF b
<1>2. LET r == D!ActivateAnew(b.d, cfg, D!NoFault) IN Serves(d, r.d) /\ r.ok
    BY <1>1, ServesAnew, ServesTransitive DEF Serves
<1>3. LET r == D!ActivateAnew(d, cfg, D!NoFault) IN Serves(d, r.d) /\ r.ok
    BY ServesAnew
<1>4. LET r == D!ActivateBySwitching(d, cfg, D!NoFault) IN Serves(d, r.d) /\ r.ok
    BY ServesSwitching
<1> QED BY <1>1, <1>2, <1>3, <1>4 DEF D!ActivateDaemon, b

\* The status of a daemon without connections tells of none.
LEMMA StatusReply ==
    ASSUME NEW d, AnyDaemon(d)
    PROVE  LET m == D!GetStatusReply(d)
           IN  /\ m \in Replies /\ m.type = "status"
               /\ DOMAIN d.connections = {} => ~m.connected
<1> DEFINE first == d.connections[D!FirstType(d)]
           present == {i \in 1..3 : D!HopOrder[i] \in DOMAIN d.connections}
           least == CHOOSE i \in present : \A j \in present : i <= j
           works == /\ d.interface # "absent"
                    /\ DOMAIN d.connections # {}
                    /\ first.config.key \in d.peers
<1>1. CASE works
    <2>1. PICK t \in DOMAIN d.connections : TRUE
        BY <1>1
    <2>2. \E i \in 1..3 : D!HopOrder[i] = t
        <3>1. t \in Types
            BY <2>1 DEF AnyDaemon
        <3>2. D!HopOrder[1] = "SingleHop" /\ D!HopOrder[2] = "MultiHopEntry"
              /\ D!HopOrder[3] = "MultiHopExit"
            BY DEF D!HopOrder
        <3>3. 1 \in 1..3 /\ 2 \in 1..3 /\ 3 \in 1..3
            OBVIOUS
        <3> QED BY <3>1, <3>2, <3>3 DEF Types
    <2>3. present # {} /\ present \subseteq 1..3
        BY <2>2
    <2>7. \A i \in present : D!HopOrder[i] \in DOMAIN d.connections
        OBVIOUS
    <2> HIDE DEF present
    <2>4. \E i \in present : \A j \in present : i <= j
        <3>1. CASE 1 \in present
            <4>1. \A j \in present : 1 <= j
                BY <2>3
            <4> QED BY <3>1, <4>1
        <3>2. CASE 1 \notin present /\ 2 \in present
            <4>1. \A j \in present : j = 2 \/ j = 3
                BY <2>3, <3>2
            <4> QED BY <3>2, <4>1
        <3>3. CASE 1 \notin present /\ 2 \notin present
            <4>1. PICK i \in present : TRUE
                BY <2>3
            <4>2. i <= i /\ \A j \in present : j = i
                BY <2>3, <3>3, <4>1
            <4> QED BY <4>2
        <3> QED BY <3>1, <3>2, <3>3
    <2>5. least \in present
        BY <2>4
    <2> HIDE DEF least
    <2>8. D!FirstType(d) = D!HopOrder[least]
        BY DEF D!FirstType, present, least
    <2>9. D!FirstType(d) \in DOMAIN d.connections
        BY <2>5, <2>7, <2>8
    <2>10. first.date \in BOOLEAN /\ first.config \in AnyConfigs
        BY <2>9 DEF AnyDaemon
    <2>11. first.config.type \in Types
        BY <2>10, AnyConfigFields
    <2>12. D!GetStatusReply(d) = [type |-> "status", connected |-> TRUE, date |-> first.date,
                                  hop |-> first.config.type]
        BY <1>1 DEF D!GetStatusReply
    <2> QED BY <1>1, <2>10, <2>11, <2>12 DEF Replies
<1>2. CASE ~works
    <2>1. D!GetStatusReply(d) = [type |-> "status", connected |-> FALSE, date |-> FALSE,
                                 hop |-> "SingleHop"]
        BY <1>2 DEF D!GetStatusReply
    <2> QED BY <2>1 DEF Replies, Types
<1> QED BY <1>1, <1>2

\* A reply leaves the tunnel alone.
Says(d, r, m) ==
    /\ AnyDaemon(r) /\ r.out = <<m>> /\ r.session = d.session
    /\ r.connections = d.connections

LEMMA ReplySays ==
    ASSUME NEW d, AnyDaemon(d), d.out = <<>>, NEW m \in Replies
    PROVE  Says(d, D!Reply(d, m), m)
<1> DEFINE r == D!Reply(d, m)
<1>1. Append(<<>>, m) = <<m>> /\ <<m>> \in Seq(Replies)
    OBVIOUS
<1>2. /\ DOMAIN r = DaemonFields /\ r.connections = d.connections
      /\ r.session = d.session /\ r.out = Append(<<>>, m)
    BY DEF D!Reply, AnyDaemon, DaemonFields
<1> HIDE DEF r
<1>3. AnyDaemon(r)
    BY <1>1, <1>2 DEF AnyDaemon
<1> QED BY <1>1, <1>2, <1>3 DEF Says, r

\* The commands, when no system call fails.
LEMMA CommandSucceeds ==
    ASSUME NEW d, AnyDaemon(d), d.out = <<>>, NEW command \in Orders
    PROVE  LET r == D!OnCommand(d, command, D!NoFault)
           IN  /\ command.type = "activate" =>
                     AnyDaemon(r) /\ r.out = <<>> /\ r.session = TRUE
               /\ command.type = "deactivate" /\ d.session =>
                     /\ AnyDaemon(r) /\ r.out = <<D!Message("disconnected")>>
                     /\ r.session = FALSE /\ DOMAIN r.connections = {}
               /\ command.type = "deactivate" /\ ~d.session => r = d
               /\ command.type = "status" =>
                     \E m \in Replies : /\ Says(d, r, m) /\ m.type = "status"
                                        /\ DOMAIN d.connections = {} => ~m.connected
               /\ command.type \in {"logs", "cleanlogs"} =>
                     r = d \/ Says(d, r, D!Message("logs"))
<1> DEFINE r == D!OnCommand(d, command, D!NoFault)
<1>1. ASSUME command.type = "activate"
      PROVE  AnyDaemon(r) /\ r.out = <<>> /\ r.session = TRUE
    <2> DEFINE s == [d EXCEPT !.session = TRUE]
               activated == D!ActivateDaemon(s, command.config, D!NoFault)
    <2>1. command.config \in AnyConfigs
        <3>1. Hops \subseteq [key : Names, type : Types]
            BY DEF Hops, HopKinds, Types
        <3> QED BY <1>1, <3>1 DEF Orders, AnyConfigs
    <2>2. AnyDaemon(s) /\ s.out = <<>> /\ s.session = TRUE
        BY DEF AnyDaemon, DaemonFields
    <2>3. r = IF activated.ok THEN activated.d
              ELSE D!Reply(activated.d, D!Message("disconnected"))
        BY <1>1 DEF D!OnCommand, D!Authorized
    <2> HIDE DEF s, r
    <2>4. Serves(s, activated.d) /\ activated.ok
        BY <2>1, <2>2, ServesActivate
    <2> HIDE DEF activated
    <2> QED BY <2>2, <2>3, <2>4 DEF Serves
<1>2. ASSUME command.type = "deactivate", d.session
      PROVE  /\ AnyDaemon(r) /\ r.out = <<D!Message("disconnected")>>
             /\ r.session = FALSE /\ DOMAIN r.connections = {}
    <2> DEFINE s == [d EXCEPT !.session = FALSE]
               ended == D!DeactivateDaemon(s, TRUE, D!NoFault)
    <2>1. AnyDaemon(s) /\ s.out = <<>> /\ s.session = FALSE
        BY DEF AnyDaemon, DaemonFields
    <2>2. r = ended.d
        BY <1>2 DEF D!OnCommand, D!Authorized
    <2> HIDE DEF s, r
    <2>3. /\ AnyDaemon(ended.d) /\ ended.d.session = s.session
          /\ DOMAIN ended.d.connections = {} /\ ended.d.out = <<D!Message("disconnected")>>
        BY <2>1, TakesDown
    <2> QED BY <2>1, <2>2, <2>3
<1>3. ASSUME command.type = "deactivate", ~d.session
      PROVE  r = d
    BY <1>3 DEF D!OnCommand, D!Authorized
<1>4. ASSUME command.type = "status"
      PROVE  \E m \in Replies : /\ Says(d, r, m) /\ m.type = "status"
                                /\ DOMAIN d.connections = {} => ~m.connected
    <2> DEFINE m == D!GetStatusReply(d)
    <2>1. m \in Replies /\ m.type = "status" /\ (DOMAIN d.connections = {} => ~m.connected)
        BY StatusReply
    <2>2. r = D!Reply(d, m)
        BY <1>4 DEF D!OnCommand, D!Authorized
    <2> HIDE DEF m, r
    <2>3. Says(d, r, m)
        BY <2>1, <2>2, ReplySays
    <2> QED BY <2>1, <2>3
<1>5. ASSUME command.type \in {"logs", "cleanlogs"}
      PROVE  r = d \/ Says(d, r, D!Message("logs"))
    <2>1. D!Message("logs") \in Replies
        BY DEF D!Message, Replies
    <2>2. r = d \/ r = D!Reply(d, D!Message("logs"))
        <3>1. CASE command.type = "logs"
            BY <3>1 DEF D!OnCommand, D!Authorized
        <3>2. CASE command.type = "cleanlogs"
            BY <3>2 DEF D!OnCommand, D!Authorized
        <3> QED BY <1>5, <3>1, <3>2
    <2> HIDE DEF r
    <2> QED BY <2>1, <2>2, ReplySays
<1> HIDE DEF r
<1> QED BY <1>1, <1>2, <1>3, <1>4, <1>5 DEF r

\* The polling announces connections, and none without one.
LEMMA PollAnnounces ==
    ASSUME NEW d, AnyDaemon(d), d.out = <<>>
    PROVE  LET r == D!CheckHandshakeOf(d)
           IN  /\ AnyDaemon(r) /\ r.session = d.session
               /\ DOMAIN r.connections = DOMAIN d.connections
               /\ Only(r.out, {"connected"})
               /\ DOMAIN d.connections = {} => r.out = <<>>
<1> DEFINE done == {t \in DOMAIN d.connections :
                        /\ ~d.connections[t].date
                        /\ d.connections[t].config.key \in d.handshakes}
           dated == [t \in DOMAIN d.connections |->
                        IF t \in done THEN [d.connections[t] EXCEPT !.date = TRUE]
                        ELSE d.connections[t]]
           told(t) == IF t \in done
                      THEN <<D!ConnectedMessage(d.connections[t].config.key)>> ELSE <<>>
           News == {m \in Replies : m.type = "connected"}
           r == D!CheckHandshakeOf(d)
<1>1. /\ DOMAIN r = DaemonFields /\ r.connections = dated /\ r.session = d.session
      /\ r.out = <<>> \o told("SingleHop") \o told("MultiHopEntry") \o told("MultiHopExit")
    BY DEF D!CheckHandshakeOf, AnyDaemon, DaemonFields, D!HopOrder
<1>2. /\ DOMAIN dated = DOMAIN d.connections
      /\ \A t \in DOMAIN dated :
            /\ DOMAIN dated[t] = {"config", "date"} /\ dated[t].date \in BOOLEAN
            /\ dated[t].config = d.connections[t].config
    BY DEF AnyDaemon
<1>3. done \subseteq DOMAIN d.connections
    OBVIOUS
<1> HIDE DEF dated, done, r
<1>4. ASSUME NEW t
      PROVE  /\ told(t) \in Seq(News)
             /\ DOMAIN d.connections = {} => told(t) = <<>>
    <2> DEFINE m == D!ConnectedMessage(d.connections[t].config.key)
    <2>1. ASSUME t \in done PROVE m \in News
        <3>1. d.connections[t].config.key \in Names
            BY <1>3, <2>1, AnyConfigFields DEF AnyDaemon
        <3> QED BY <3>1 DEF D!ConnectedMessage, Replies
    <2>2. told(t) = IF t \in done THEN <<m>> ELSE <<>>
        OBVIOUS
    <2> HIDE DEF m, News
    <2>3. t \in done => <<m>> \in Seq(News)
        BY <2>1
    <2>4. <<>> \in Seq(News)
        BY EmptySeq
    <2> QED BY <1>3, <2>2, <2>3, <2>4
<1> DEFINE a == told("SingleHop")
           b == told("MultiHopEntry")
           c == told("MultiHopExit")
<1>5. a \in Seq(News) /\ b \in Seq(News) /\ c \in Seq(News)
      /\ (DOMAIN d.connections = {} => a = <<>> /\ b = <<>> /\ c = <<>>)
    BY <1>4
<1>6. r.out = <<>> \o a \o b \o c
    BY <1>1
<1>13. News \subseteq Replies /\ \A m \in News : m.type = "connected"
    OBVIOUS
<1> HIDE DEF a, b, c, News
<1>7. <<>> \o a \in Seq(News)
    BY <1>5, EmptySeq, ConcatProperties
<1>8. <<>> \o a \o b \in Seq(News)
    BY <1>5, <1>7, ConcatProperties
<1>9. r.out \in Seq(News)
    BY <1>5, <1>6, <1>8, ConcatProperties
<1>10. r.out \in Seq(Replies) /\ Only(r.out, {"connected"})
    <2>1. \A i \in DOMAIN r.out : r.out[i] \in News
        BY <1>9
    <2>2. r.out \in Seq(Replies)
        BY <1>9, <1>13
    <2> QED BY <1>13, <2>1, <2>2 DEF Only
<1>11. DOMAIN d.connections = {} => r.out = <<>>
    BY <1>5, <1>6
<1>12. AnyDaemon(r)
    BY <1>1, <1>2, <1>10 DEF AnyDaemon
<1> QED BY <1>1, <1>2, <1>10, <1>11, <1>12 DEF r

-----------------------------------------------------------------------------
\* The steps of the daemon.

LEMMA AppendNews ==
    ASSUME NEW q \in Seq(Replies), NEW r \in Seq(Replies), DisconnectedLast(q),
           \/ Only(r, {"status", "logs"})
           \/ ~HasType(q, {"disconnected"}) /\ (Only(r, {"connected"}) \/ Len(r) = 1)
    PROVE  DisconnectedLast(q \o r)
<1> DEFINE t == q \o r
<1>1. /\ Len(q) \in Nat /\ DOMAIN q = 1..Len(q) /\ Len(r) \in Nat /\ DOMAIN r = 1..Len(r)
      /\ DOMAIN t = 1..(Len(q) + Len(r))
      /\ \A i \in DOMAIN q : t[i] = q[i]
      /\ \A i \in DOMAIN t : i > Len(q) =>
            i - Len(q) \in DOMAIN r /\ t[i] = r[i - Len(q)]
    BY ConcatIndices
<1> HIDE DEF t
<1>2. SUFFICES ASSUME NEW i \in DOMAIN t, NEW j \in DOMAIN t, t[i].type = "disconnected",
                      j > i, t[j].type \in {"connected", "disconnected"}
               PROVE  FALSE
    BY DEF DisconnectedLast, t
<1>3. CASE Only(r, {"status", "logs"})
    <2>1. j \in DOMAIN q
        BY <1>1, <1>2, <1>3 DEF Only
    <2>2. i \in DOMAIN q
        BY <1>1, <1>2, <2>1
    <2> QED BY <1>1, <1>2, <2>1, <2>2 DEF DisconnectedLast
<1>4. CASE ~HasType(q, {"disconnected"}) /\ (Only(r, {"connected"}) \/ Len(r) = 1)
    <2>1. i \notin DOMAIN q
        BY <1>1, <1>2, <1>4 DEF HasType
    <2>2. i > Len(q) /\ j > Len(q)
        BY <1>1, <1>2, <2>1
    <2>3. Len(r) # 1
        BY <1>1, <1>2, <2>2
    <2> QED BY <1>1, <1>2, <1>4, <2>2, <2>3 DEF Only
<1> QED BY <1>3, <1>4

LEMMA NoSession ==
    ASSUME NEW q, NEW session, ~session, ~HasType(q, {"activate"})
    PROVE  ~LiveStop(q, session) /\ NoRestart(q, session)
BY DEF LiveStop, NoRestart, Live, HasType

\* A step of the daemon alone that leaves the tunnel and the sockets as they are.
LEMMA OffSameTunnel ==
    ASSUME OffInv, AnyDaemon(dmn'), dmn'.session = dmn.session,
           DOMAIN dmn'.connections = DOMAIN dmn.connections,
           UNCHANGED <<ctl, lsc, up, down, orphans, mishaps>>
    PROVE  OffInv'
<1>1. /\ ctl' = ctl /\ lsc' = lsc /\ up' = up /\ down' = down /\ orphans' = orphans
      /\ mishaps' = mishaps
    OBVIOUS
<1>2. Gone' = Gone
    BY <1>1 DEF Gone
<1>3. Unconnected => Unconnected'
    BY <1>1, <1>2 DEF Unconnected
<1>4. Asking => Asking'
    BY <1>1, <1>2 DEF Asking
<1>5. Working => Working'
    BY <1>1, <1>2 DEF Working
<1> QED BY <1>1, <1>3, <1>4, <1>5 DEF OffInv

\* A command that leaves the tunnel as it is, and its answer.
LEMMA OffAnswered ==
    ASSUME OffInv, Working, AnyDaemon(dmn'), dmn'.session = dmn.session,
           DOMAIN dmn'.connections = DOMAIN dmn.connections,
           up # <<>>, up' = Tail(up), Head(up).type # "activate",
           Head(up).type = "deactivate" => ~dmn.session,
           NEW news \in Seq(Replies), Only(news, {"status", "logs"}),
           Head(up).type = "status" => HasType(news, {"status"}),
           down' = down \o news, UNCHANGED <<ctl, lsc, orphans, mishaps>>
    PROVE  OffInv'
<1>1. /\ ctl' = ctl /\ lsc' = lsc /\ orphans' = orphans /\ mishaps' = mishaps
      /\ up \in Seq(Orders) /\ down \in Seq(Replies) /\ dmn.session \in BOOLEAN
    BY DEF OffInv, AnyDaemon
<1>2. up' \in Seq(Orders) /\ down' \in Seq(Replies)
    BY <1>1, TailIndices, ConcatProperties
<1>3. /\ NoRestart(up', dmn.session)
      /\ LiveStop(up', dmn.session) => LiveStop(up, dmn.session)
    <2>1. dmn.session = (dmn.session \/ Head(up).type = "activate")
        BY <1>1
    <2> QED BY <1>1, <2>1, LiveTail DEF Working
<1>4. /\ HasType(up', {"activate"}) => HasType(up, {"activate"})
      /\ HasType(up, {"status"}) /\ Head(up).type # "status" => HasType(up', {"status"})
    <2>1. \A types : HasType(up', types) => HasType(up, types)
        BY <1>1, HasTypeTail
    <2>2. \A types : HasType(up, types) /\ Head(up).type \notin types => HasType(up', types)
        BY <1>1, HasTypeTail
    <2>3. Head(up).type # "status" => Head(up).type \notin {"status"}
        OBVIOUS
    <2> QED BY <2>1, <2>2, <2>3
<1>5. \A types : HasType(down', types) <=> HasType(down, types) \/ HasType(news, types)
    BY <1>1, HasTypeConcat
<1>6. ~HasType(news, {"connected", "disconnected"}) /\ ~HasType(news, {"disconnected"})
    BY DEF HasType, Only
<1>7. DisconnectedLast(down')
    BY <1>1, AppendNews DEF Working
<1>8. Gone => Gone'
    BY <1>4 DEF Gone
<1>9. /\ HasType(down', {"disconnected"}) => HasType(down, {"disconnected"})
      /\ HasType(down', {"connected", "disconnected"})
            => HasType(down, {"connected", "disconnected"})
      /\ HasType(down, {"status"}) \/ HasType(news, {"status"}) => HasType(down', {"status"})
    BY <1>5, <1>6
<1>10. Working'
    <2>1. lsc.timeouts # {} => HasType(up', {"status"}) \/ HasType(down', {"status"})
        BY <1>4, <1>9 DEF Working
    <2> QED BY <1>1, <1>3, <1>7, <1>8, <1>9, <2>1 DEF Working
<1> QED BY <1>1, <1>2, <1>10 DEF OffInv

\* `activate': there is a session, and nothing is said yet.
LEMMA OffActivated ==
    ASSUME OffInv, Working, AnyDaemon(dmn'), dmn'.session = TRUE,
           up # <<>>, up' = Tail(up), Head(up).type = "activate",
           UNCHANGED <<ctl, lsc, down, orphans, mishaps>>
    PROVE  OffInv'
<1>1. /\ ctl' = ctl /\ lsc' = lsc /\ orphans' = orphans /\ mishaps' = mishaps
      /\ down' = down /\ up \in Seq(Orders) /\ dmn.session \in BOOLEAN
    BY DEF OffInv, AnyDaemon
<1>2. up' \in Seq(Orders)
    BY <1>1, TailIndices
<1>3. /\ NoRestart(up', TRUE)
      /\ LiveStop(up', TRUE) => LiveStop(up, dmn.session)
    <2>1. TRUE = (dmn.session \/ Head(up).type = "activate")
        OBVIOUS
    <2> QED BY <1>1, <2>1, LiveTail DEF Working
<1>4. HasType(up, {"activate"})
    BY <1>1, TailIndices DEF HasType
<1>5. HasType(up, {"status"}) => HasType(up', {"status"})
    BY <1>1, HasTypeTail
<1>6. ~Gone
    BY <1>4 DEF Gone
<1>7. ctl.state # "Off" /\ ~HasType(down, {"disconnected"})
    BY <1>6 DEF Working
<1>8. Working'
    BY <1>1, <1>3, <1>5, <1>7 DEF Working
<1> QED BY <1>1, <1>2, <1>8 DEF OffInv

\* `deactivate' in a session: the tunnel is gone, and reported so.
LEMMA OffDeactivated ==
    ASSUME OffInv, Working, AnyDaemon(dmn'), dmn.session, dmn'.session = FALSE,
           DOMAIN dmn'.connections = {},
           up # <<>>, up' = Tail(up), Head(up).type = "deactivate",
           NEW m \in Replies, m.type = "disconnected",
           down' = down \o <<m>>, UNCHANGED <<ctl, lsc, orphans, mishaps>>
    PROVE  OffInv'
<1>1. /\ ctl' = ctl /\ lsc' = lsc /\ orphans' = orphans /\ mishaps' = mishaps
      /\ up \in Seq(Orders) /\ down \in Seq(Replies)
      /\ <<m>> \in Seq(Replies) /\ Len(<<m>>) = 1
    BY DEF OffInv
<1>2. up' \in Seq(Orders) /\ down' \in Seq(Replies)
    BY <1>1, TailIndices, ConcatProperties
<1>3. /\ Len(up) \in Nat /\ DOMAIN up = 1..Len(up) /\ DOMAIN up' = 1..(Len(up) - 1)
      /\ \A i \in DOMAIN up' : i + 1 \in DOMAIN up /\ up'[i] = up[i + 1]
      /\ 1 \in DOMAIN up /\ Head(up) = up[1]
    BY <1>1, TailIndices
<1>4. Live(up, dmn.session, 1) /\ up[1].type = "deactivate"
    BY <1>3 DEF Live
<1>5. Idle(ctl) /\ ctl.state # "Off"
    BY <1>3, <1>4 DEF Working, LiveStop
<1>6. ~HasType(up', {"activate"})
    <2>1. \A i \in DOMAIN up' : i + 1 > 1
        BY <1>3
    <2>2. \A j \in DOMAIN up : j > 1 => up[j].type # "activate"
        BY <1>3, <1>4 DEF Working, NoRestart
    <2> QED BY <1>3, <2>1, <2>2 DEF HasType
<1>7. Gone'
    BY <1>6 DEF Gone
<1>8. ~HasType(down, {"disconnected"})
    BY DEF Working, Gone
<1>9. DisconnectedLast(down')
    BY <1>1, <1>8, AppendNews DEF Working
<1>10. ~LiveStop(up', dmn'.session) /\ NoRestart(up', dmn'.session)
    BY <1>6, NoSession
<1>11. HasType(up, {"status"}) => HasType(up', {"status"})
    BY <1>1, HasTypeTail
<1>12. HasType(down, {"status"}) => HasType(down', {"status"})
    BY <1>1, HasTypeConcat
<1>13. Working'
    BY <1>1, <1>5, <1>7, <1>9, <1>10, <1>11, <1>12 DEF Working
<1> QED BY <1>1, <1>2, <1>13 DEF OffInv

LEMMA QuietAny ==
    ASSUME AnyDaemon(dmn)
    PROVE  /\ AnyDaemon(D!Quiet) /\ D!Quiet.out = <<>>
           /\ D!Quiet.session = dmn.session /\ D!Quiet.connections = dmn.connections
BY EmptySeq DEF D!Quiet, AnyDaemon, DaemonFields

LEMMA OffDaemonReceive ==
    ASSUME OneUser, OffInv, NEW fault \in Faults \cup {D!NoFault}, DaemonReceive(fault)
    PROVE  OffInv'
<1> DEFINE d == D!Quiet
           m == Head(up)
           r == D!OnCommand(d, m, D!NoFault)
<1>1. /\ AnyDaemon(d) /\ d.out = <<>> /\ d.session = dmn.session
      /\ d.connections = dmn.connections
    BY QuietAny DEF OffInv
<1>2. /\ up # <<>> /\ up \in Seq(Orders) /\ down \in Seq(Replies) /\ m \in Orders
      /\ orphans = 0 /\ lsc.socket = "open" /\ fault = D!NoFault
    BY TailIndices DEF OffInv, OneUser, DaemonReceive
<1>3. /\ dmn' = r /\ down' = down \o r.out /\ up' = Tail(up) /\ orphans' = 0
      /\ ctl' = ctl /\ lsc' = lsc /\ mishaps' = mishaps
    BY <1>2 DEF DaemonReceive, DaemonStep
<1>4. m.type \in {"activate", "deactivate", "status", "logs", "cleanlogs"}
    BY <1>2 DEF Orders
<1> HIDE DEF d, m
<1>5. /\ m.type = "activate" => AnyDaemon(r) /\ r.out = <<>> /\ r.session = TRUE
      /\ m.type = "deactivate" /\ d.session =>
            /\ AnyDaemon(r) /\ r.out = <<D!Message("disconnected")>>
            /\ r.session = FALSE /\ DOMAIN r.connections = {}
      /\ m.type = "deactivate" /\ ~d.session => r = d
      /\ m.type = "status" =>
            \E n \in Replies : /\ Says(d, r, n) /\ n.type = "status"
                               /\ DOMAIN d.connections = {} => ~n.connected
      /\ m.type \in {"logs", "cleanlogs"} => r = d \/ Says(d, r, D!Message("logs"))
    BY <1>1, <1>2, CommandSucceeds
<1> HIDE DEF r
<1>6. <<>> \in Seq(Replies) /\ DOMAIN <<>> = {} /\ down \o <<>> = down
    BY <1>2, EmptySeq, ConcatEmptySeq
<1>7. Only(<<>>, {"status", "logs"})
    BY <1>6 DEF Only
<1>8. \A n \in Replies : n.type \in {"status", "logs"} =>
         /\ <<n>> \in Seq(Replies) /\ Only(<<n>>, {"status", "logs"})
         /\ n.type = "status" => HasType(<<n>>, {"status"})
    <2> TAKE n \in Replies
    <2>1. <<n>> \in Seq(Replies) /\ DOMAIN <<n>> = {1} /\ <<n>>[1] = n
        OBVIOUS
    <2> QED BY <2>1 DEF Only, HasType
<1>9. CASE Working
    <2>1. CASE m.type = "activate"
        <3>1. AnyDaemon(dmn') /\ dmn'.session = TRUE /\ down' = down
            BY <1>3, <1>5, <1>6, <2>1
        <3> QED BY <1>2, <1>3, <1>9, <2>1, <3>1, OffActivated DEF m
    <2>2. CASE m.type = "deactivate" /\ dmn.session
        <3> DEFINE n == D!Message("disconnected")
        <3>1. n \in Replies /\ n.type = "disconnected"
            BY DEF D!Message, Replies
        <3>2. /\ AnyDaemon(dmn') /\ dmn'.session = FALSE /\ DOMAIN dmn'.connections = {}
              /\ down' = down \o <<n>>
            BY <1>1, <1>3, <1>5, <2>2
        <3> HIDE DEF n
        <3> QED BY <1>2, <1>3, <1>9, <2>2, <3>1, <3>2, OffDeactivated DEF m
    <2>3. ASSUME NEW news \in Seq(Replies), Only(news, {"status", "logs"}),
                 m.type = "status" => HasType(news, {"status"}), m.type # "activate",
                 m.type = "deactivate" => ~dmn.session, AnyDaemon(r),
                 r.session = dmn.session, r.connections = dmn.connections, r.out = news
          PROVE  OffInv'
        <3>1. /\ AnyDaemon(dmn') /\ dmn'.session = dmn.session
              /\ DOMAIN dmn'.connections = DOMAIN dmn.connections /\ down' = down \o news
            BY <1>3, <2>3
        <3> QED BY <1>2, <1>3, <1>9, <2>3, <3>1, OffAnswered DEF m
    <2>4. CASE m.type = "deactivate" /\ ~dmn.session
        BY <1>1, <1>5, <1>6, <1>7, <2>3, <2>4
    <2>5. CASE m.type = "status"
        <3>1. PICK n \in Replies : Says(d, r, n) /\ n.type = "status"
            BY <1>5, <2>5
        <3>2. /\ <<n>> \in Seq(Replies) /\ Only(<<n>>, {"status", "logs"})
              /\ HasType(<<n>>, {"status"})
            BY <1>8, <3>1
        <3>3. AnyDaemon(r) /\ r.session = dmn.session /\ r.connections = dmn.connections
              /\ r.out = <<n>>
            BY <1>1, <3>1 DEF Says
        <3> QED BY <2>3, <2>5, <3>2, <3>3
    <2>6. CASE m.type \in {"logs", "cleanlogs"}
        <3> DEFINE n == D!Message("logs")
        <3>1. n \in Replies /\ n.type = "logs"
            BY DEF D!Message, Replies
        <3>2. r = d \/ Says(d, r, n)
            BY <1>5, <2>6
        <3> HIDE DEF n
        <3>3. CASE r = d
            BY <1>1, <1>6, <1>7, <2>3, <2>6, <3>3
        <3>4. CASE Says(d, r, n)
            <4>1. <<n>> \in Seq(Replies) /\ Only(<<n>>, {"status", "logs"})
                BY <1>8, <3>1
            <4>2. AnyDaemon(r) /\ r.session = dmn.session /\ r.connections = dmn.connections
                  /\ r.out = <<n>>
                BY <1>1, <3>4 DEF Says
            <4> QED BY <2>3, <2>6, <4>1, <4>2
        <3> QED BY <3>2, <3>3, <3>4
    <2> QED BY <1>4, <2>1, <2>2, <2>4, <2>5, <2>6
<1>10. CASE Asking
    <2> DEFINE s == [type |-> "status"]
    <2>8. s.type = "status"
        OBVIOUS
    <2>1. up = <<s>> /\ down = <<>>
        BY <1>2, <1>10 DEF Asking
    <2> HIDE DEF s
    <2>2. Tail(<<s>>) = <<>> /\ Head(<<s>>) = s
        OBVIOUS
    <2>3. up' = <<>> /\ m.type = "status"
        BY <1>3, <2>1, <2>2, <2>8 DEF m
    <2>4. PICK n \in Replies : /\ Says(d, r, n) /\ n.type = "status"
                               /\ DOMAIN d.connections = {} => ~n.connected
        BY <1>5, <2>3
    <2>5. <<>> \o <<n>> = <<n>> /\ <<n>> \in Seq(Replies) /\ Len(<<n>>) = 1 /\ <<n>>[1] = n
        OBVIOUS
    <2>6. down' = <<n>> /\ AnyDaemon(dmn') /\ dmn'.session = dmn.session
          /\ dmn'.connections = dmn.connections
        BY <1>1, <1>3, <2>1, <2>4, <2>5 DEF Says
    <2>7. Gone' /\ ~n.connected
        BY <1>1, <1>6, <1>10, <2>3, <2>4, <2>6 DEF Asking, Gone, HasType
    <2>9. Asking'
        BY <1>3, <1>10, <2>3, <2>4, <2>5, <2>6, <2>7 DEF Asking
    <2> QED BY <1>2, <1>3, <2>3, <2>5, <2>6, <2>9, EmptySeq DEF OffInv
<1>11. CASE Unconnected
    BY <1>2, <1>11 DEF Unconnected
<1> QED BY <1>9, <1>10, <1>11 DEF OffInv

LEMMA OffCheckHandshake ==
    ASSUME OffInv, CheckHandshake
    PROVE  OffInv'
<1> DEFINE d == D!Quiet
           r == D!CheckHandshakeOf(d)
<1>1. /\ AnyDaemon(d) /\ d.out = <<>> /\ d.session = dmn.session
      /\ d.connections = dmn.connections
    BY QuietAny DEF OffInv
<1>2. /\ dmn' = r /\ down' = (IF lsc.socket = "open" THEN down \o r.out ELSE down)
      /\ up' = up /\ orphans' = orphans /\ ctl' = ctl /\ lsc' = lsc /\ mishaps' = mishaps
    BY DEF CheckHandshake, DaemonStep
<1> HIDE DEF d
<1>3. /\ AnyDaemon(r) /\ r.session = dmn.session
      /\ DOMAIN r.connections = DOMAIN dmn.connections
      /\ Only(r.out, {"connected"}) /\ (DOMAIN dmn.connections = {} => r.out = <<>>)
    BY <1>1, PollAnnounces
<1> HIDE DEF r
<1>4. down \in Seq(Replies) /\ r.out \in Seq(Replies) /\ down \o <<>> = down
    BY <1>3, ConcatEmptySeq DEF OffInv, AnyDaemon
<1>5. CASE r.out = <<>>
    <2>1. down' = down
        BY <1>2, <1>4, <1>5
    <2> QED BY <1>2, <1>3, <2>1, OffSameTunnel
<1>6. CASE r.out # <<>>
    <2>1. ~Gone
        BY <1>3, <1>6 DEF Gone
    <2>2. Working
        BY <2>1 DEF OffInv, Unconnected, Asking
    <2>3. /\ down' = down \o r.out /\ ctl.state # "Off"
          /\ ~HasType(down, {"disconnected"})
        BY <1>2, <2>1, <2>2 DEF Working
    <2>4. ~HasType(r.out, {"disconnected"})
        BY <1>3 DEF HasType, Only
    <2>5. \A types : HasType(down', types) <=> HasType(down, types) \/ HasType(r.out, types)
        BY <1>4, <2>3, HasTypeConcat
    <2>6. ~HasType(down', {"disconnected"})
          /\ (HasType(down, {"status"}) => HasType(down', {"status"}))
        BY <2>3, <2>4, <2>5
    <2>7. DisconnectedLast(down')
        BY <1>3, <1>4, <2>2, <2>3, AppendNews DEF Working
    <2>8. down' \in Seq(Replies)
        BY <1>4, <2>3, ConcatProperties
    <2>9. Working'
        BY <1>2, <1>3, <2>2, <2>3, <2>6, <2>7 DEF Working
    <2> QED BY <1>2, <1>3, <2>8, <2>9 DEF OffInv
<1> QED BY <1>5, <1>6

LEMMA OffPeerHandshake ==
    ASSUME OffInv, NEW key \in Servers, PeerHandshake(key)
    PROVE  OffInv'
<1>1. AnyDaemon(D!Quiet) /\ D!Quiet.session = dmn.session
      /\ D!Quiet.connections = dmn.connections
    BY QuietAny DEF OffInv
<1>2. dmn' = [D!Quiet EXCEPT !.handshakes = @ \cup {key}]
      /\ UNCHANGED <<ctl, lsc, up, down, orphans, mishaps>>
    BY DEF PeerHandshake, D!PeerHandshake
<1>3. AnyDaemon(dmn') /\ dmn'.session = dmn.session
      /\ DOMAIN dmn'.connections = DOMAIN dmn.connections
    BY <1>1, <1>2 DEF AnyDaemon, DaemonFields
<1> QED BY <1>2, <1>3, OffSameTunnel

LEMMA OffInit ==
    ASSUME Init
    PROVE  OffInv
<1>1. PICK loc \in Locations, b \in BOOLEAN : ctl = C!Constructed(loc, b)
    BY DEF Init
<1>2. /\ User(ctl) /\ Asks(ctl) /\ ctl.state = "Initializing" /\ Idle(ctl)
    <2>1. Member(ctl)
        BY <1>1, ConstructedMember
    <2>2. /\ ctl.state = "Initializing" /\ ctl.initiator = "Null" /\ ctl.queue = <<>>
          /\ ctl.handshakeTimer = FALSE /\ ctl.requests = [u \in C!Users |-> 0]
        BY <1>1 DEF C!Constructed
    <2>3. User(ctl) /\ Idle(ctl)
        BY <2>1, <2>2 DEF User, Idle
    <2>4. Asks(ctl)
        BY <2>2 DEF Asks, C!Users
    <2> QED BY <2>2, <2>3, <2>4
<1>3. /\ Writer(lsc) /\ lsc.socket = "connecting" /\ lsc.daemonState = "eInitializing"
      /\ lsc.timeouts = {} /\ lsc.initializingTimer = FALSE
    <2> DEFINE l == L!Created
    <2>1. /\ Writer(l) /\ l.socket = "closed" /\ l.timeouts = {}
          /\ l.initializingTimer = FALSE
        BY CreatedWriter DEF L!Created
    <2>2. lsc = L!InitializeInternal(l)
        BY DEF Init
    <2> HIDE DEF l
    <2>3. lsc = [[l EXCEPT !.interval = L!Backoff(l), !.daemonState = "eInitializing"]
                    EXCEPT !.socket = "connecting"]
        BY <2>1, <2>2 DEF L!InitializeInternal
    <2> QED BY <2>1, <2>3 DEF Writer, SocketFields
<1>4. /\ AnyDaemon(dmn) /\ dmn.session = FALSE /\ DOMAIN dmn.connections = {}
    <2>1. dmn = D!Stopped
        BY DEF Init
    <2>2. DOMAIN <<>> = {}
        OBVIOUS
    <2> QED BY <2>1, <2>2, EmptySeq DEF D!Stopped, AnyDaemon, DaemonFields
<1>5. up = <<>> /\ down = <<>> /\ orphans = 0 /\ mishaps = 0 /\ DOMAIN <<>> = {}
    BY DEF Init
<1>6. Gone
    BY <1>4, <1>5 DEF Gone, HasType
<1>7. Unconnected
    BY <1>2, <1>3, <1>5, <1>6 DEF Unconnected
<1> QED BY <1>2, <1>3, <1>4, <1>5, <1>7, EmptySeq DEF OffInv

LEMMA OffNext ==
    ASSUME OneUser, OffInv, [Next]_vars
    PROVE  OffInv'
<1>1. ASSUME ClientNext PROVE OffInv'
    BY <1>1, NoMishap, OffUserCommand, OffAccountReply, OffHandshakeTimeout,
       OffClientReceive, OffSocketConnected DEF ClientNext
<1>2. ASSUME DaemonNext PROVE OffInv'
    BY <1>2, NoMishap, OffDaemonReceive, OffCheckHandshake, OffPeerHandshake DEF DaemonNext
<1>3. ASSUME UNCHANGED vars PROVE OffInv'
    <2>1. /\ dmn' = dmn /\ UNCHANGED <<ctl, lsc, up, down, orphans, mishaps>>
        BY <1>3 DEF vars
    <2> QED BY <2>1, OffSameTunnel DEF OffInv
<1> QED BY <1>1, <1>2, <1>3, NoMishap DEF Next

\* deactivate() "terminates the VPN tunnel" (controllerimpl.h:46), for one user who
\* switches on and off as often and as fast as they like, with whichever hops the
\* servers have, and a daemon that answers in time and whose system calls succeed:
\* when the messages have been delivered, an Off client has no connection in the
\* daemon.  In particular an activation never overtakes or survives a deactivation:
\* a `connected' the daemon sent before it read `deactivate', and a handshake timer
\* that fires at the same moment, start nothing behind it.
THEOREM OffIsNoTunnel == OneUser /\ Spec => []OffHasNoTunnel
<1>1. ASSUME Init PROVE OffInv
    BY <1>1, OffInit
<1>2. ASSUME OneUser, OffInv, [Next]_vars PROVE OffInv'
    BY <1>2, OffNext
<1>3. ASSUME OffInv PROVE OffHasNoTunnel
    <2>1. SUFFICES ASSUME Settled, ctl.state = "Off" PROVE DOMAIN dmn.connections = {}
        BY DEF OffHasNoTunnel
    <2>2. Working
        BY <1>3, <2>1 DEF OffInv, Settled, Unconnected, Asking
    <2> QED BY <2>1, <2>2 DEF Working, Gone
<1>4. SUFFICES ASSUME OneUser PROVE Spec => []OffHasNoTunnel
    OBVIOUS
<1> QED BY <1>1, <1>2, <1>3, <1>4, PTL DEF Spec
=============================================================================
