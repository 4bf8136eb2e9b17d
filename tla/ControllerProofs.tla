-------------------------- MODULE ControllerProofs --------------------------
(***************************************************************************)
(* Proofs about Controller, for every set of servers and locations, every  *)
(* CONNECTION_MAX_RETRY above 1 and any number of account requests.        *)
(*                                                                         *)
(* The first part shows that every method of the class maps members to     *)
(* members, one lemma per method and in the order the methods call each    *)
(* other, hence that TypeOK is an invariant.  The second part climbs the   *)
(* same ladder for the inductive invariant Inv: the queue of hops has one  *)
(* of three shapes, and the shape bounds the retry counter while the       *)
(* handshake timer runs (AttemptOf); partial protection and the cancel     *)
(* flag agree with the state (ModesOf).  The third part climbs it once     *)
(* more for what a handler announces through stateChanged() and the hops   *)
(* it starts: a method is Quiet when it announces moves only and starts no *)
(* exit hop, Quiet methods compose, and connected() alone goes beyond.     *)
(***************************************************************************)
EXTENDS Controller, SequenceTheorems, TLAPS

-----------------------------------------------------------------------------
\* Every method maps members to members.

\* Queueing a call of the platform controller keeps the types of the members.
LEMMA CallType ==
    ASSUME NEW c \in Members, NEW call \in ImplCalls
    PROVE  Call(c, call) \in Members
<1>1. Append(c.calls, call) \in Seq(ImplCalls)
  BY DEF Members
<1> QED  BY <1>1 DEF Call, Members

\* clearConnectedTime() keeps the types.
LEMMA ClearConnectedTimeType ==
    ASSUME NEW c \in Members
    PROVE  ClearConnectedTime(c) \in Members
BY DEF ClearConnectedTime, Members

\* resetConnectedTime() keeps the types.
LEMMA ResetConnectedTimeType ==
    ASSUME NEW c \in Members
    PROVE  ResetConnectedTime(c) \in Members
BY DEF ResetConnectedTime, Members

\* clearRetryCounter() keeps the types.
LEMMA ClearRetryCounterType ==
    ASSUME NEW c \in Members
    PROVE  ClearRetryCounter(c) \in Members
BY DEF ClearRetryCounter, Members

\* Dropping the attempt, in deactivate() and disconnected(), keeps the types.
LEMMA AbandonAttemptType ==
    ASSUME NEW c \in Members
    PROVE  AbandonAttempt(c) \in Members
<1>1. <<>> \in Seq(Hop)
  OBVIOUS
<1>2. [c EXCEPT !.handshakeTimer = FALSE, !.queue = <<>>] \in Members
  BY <1>1 DEF Members
<1> QED  BY <1>2, ClearConnectedTimeType, ClearRetryCounterType DEF AbandonAttempt

\* getStatus() keeps the types.
LEMMA GetStatusOfType ==
    ASSUME NEW c \in Members
    PROVE  GetStatusOf(c) \in Members
<1>1. ImplCall("checkStatus", NoHop) \in ImplCalls
  BY DEF ImplCall, ImplCalls
<1>2. [c EXCEPT !.statusCallbacks = TRUE] \in Members
  BY DEF Members
<1> QED  BY <1>1, <1>2, CallType DEF GetStatusOf

\* Emitting known signals keeps the types.
LEMMA EmitType ==
    ASSUME NEW c \in Members, NEW signals \in SUBSET Signals
    PROVE  Emit(c, signals) \in Members
BY DEF Emit, Members

\* setState() keeps the types.
LEMMA SetStateType ==
    ASSUME NEW c \in Members, NEW s \in States
    PROVE  SetState(c, s) \in Members
<1>1. Append(c.announced, s) \in Seq(States)
  BY DEF Members
<1> QED  BY <1>1 DEF SetState, Members

\* processNextStep() keeps the types.
LEMMA ProcessNextStepType ==
    ASSUME NEW c \in Members
    PROVE  ProcessNextStep(c) \in Members
<1>1. [c EXCEPT !.nextStep = "None"] \in Members
  BY DEF Members, NextSteps
<1>2. ReadySignals(c.nextStep) \in SUBSET Signals
  BY DEF ReadySignals, Signals
<1> QED  BY <1>1, <1>2, EmitType DEF ProcessNextStep

\* serverUnavailable() keeps the types.
LEMMA ServerUnavailableType ==
    ASSUME NEW c \in Members
    PROVE  ServerUnavailable(c) \in Members
BY EmitType DEF ServerUnavailable, Signals

\* The weighted choice answers one of the servers or none.
LEMMA WeightChooserType ==
    ASSUME NEW servers \in SUBSET Servers, NEW pick
    PROVE  WeightChooser(servers, pick) \in Servers \cup {NoServer}
<1>1. CASE servers = {}
  BY <1>1 DEF WeightChooser
<1>2. CASE servers # {}
  <2>1. (CHOOSE s \in servers : TRUE) \in servers
    BY <1>2
  <2> QED  BY <1>2, <2>1 DEF WeightChooser
<1> QED  BY <1>1, <1>2

\* activateInternal() picks a server of the country model or none.
LEMMA ChooseServerType ==
    ASSUME NEW policy, NEW key, NEW listed, NEW pick, NEW w \in Worlds
    PROVE  ChooseServer(policy, key, listed, pick, w) \in Servers \cup {NoServer}
<1>1. w.servers \in SUBSET Servers
  BY WorldsAssumption
<1>2. WeightChooser(listed \cap w.servers, pick) \in Servers \cup {NoServer}
  BY <1>1, WeightChooserType
<1> QED  BY <1>1, <1>2 DEF ChooseServer

\* The queue activateInternal() fills holds at least one hop, each to a real server:
\* the entry hop is there only when an entry server was found.
LEMMA HopsType ==
    ASSUME NEW loc \in Locations, NEW exit \in Servers,
           NEW entry \in Servers \cup {NoServer},
           loc \in MultihopLocations => entry # NoServer
    PROVE  /\ Hops(loc, entry, exit) \in Seq(Hop)
           /\ Hops(loc, entry, exit) # <<>>
           /\ Head(Hops(loc, entry, exit)) \in Hop
<1> DEFINE e == [key |-> entry, type |-> "MultiHopEntry"]
           x == [key |-> exit, type |-> "MultiHopExit"]
           s == [key |-> exit, type |-> "SingleHop"]
<1>1. x \in Hop /\ s \in Hop
  BY DEF Hop, HopTypes
<1>2. CASE loc \in MultihopLocations /\ MultihopSupported
  <2>1. e \in Hop
    BY <1>2 DEF Hop, HopTypes
  <2>2. Hops(loc, entry, exit) = <<e, x>>
    BY <1>2 DEF Hops
  <2> HIDE DEF e, x
  <2>3. <<e, x>> \in Seq(Hop) /\ Head(<<e, x>>) = e /\ <<e, x>> # <<>>
    BY <1>1, <2>1
  <2> QED  BY <2>1, <2>2, <2>3
<1>3. CASE ~(loc \in MultihopLocations /\ MultihopSupported)
  <2>1. Hops(loc, entry, exit) = <<s>>
    BY <1>3 DEF Hops
  <2> HIDE DEF s
  <2>2. <<s>> \in Seq(Hop) /\ Head(<<s>>) = s /\ <<s>> # <<>>
    BY <1>1
  <2> QED  BY <1>1, <2>1, <2>2
<1> QED  BY <1>2, <1>3

\* The tail of a sequence of two or more elements is a non-empty sequence.
LEMMA TailOfSeq ==
    ASSUME NEW S, NEW q \in Seq(S), Len(q) > 1
    PROVE  Tail(q) \in Seq(S) /\ Len(Tail(q)) = Len(q) - 1 /\ Tail(q) # <<>>
<1>1. Tail(q) \in Seq(S) /\ Len(Tail(q)) = Len(q) - 1
  OBVIOUS
<1>2. Len(<<>>) = 0
  OBVIOUS
<1>3. Len(q) - 1 # 0
  <2> DEFINE n == Len(q)
  <2>1. n \in Nat /\ n > 1
    OBVIOUS
  <2> HIDE DEF n
  <2>2. n - 1 # 0
    BY <2>1
  <2> QED  BY <2>2 DEF n
<1> QED  BY <1>1, <1>2, <1>3, Zenon

\* activateNext() keeps the types when the queue has a hop to dereference.
LEMMA ActivateNextType ==
    ASSUME NEW c \in Members, c.queue # <<>>, NEW w \in Worlds
    PROVE  ActivateNext(c, w) \in Members
<1> DEFINE call == ImplCall("activate", Head(c.queue))
<1>1. call \in ImplCalls
  <2>1. c.queue \in Seq(Hop)
    BY DEF Members
  <2>2. Head(c.queue) \in Hop
    BY <2>1
  <2> QED  BY <2>2 DEF ImplCall, ImplCalls
<1>2. [c EXCEPT !.handshakeTimer = TRUE] \in Members
  BY DEF Members
<1>3. Call([c EXCEPT !.handshakeTimer = TRUE], call) \in Members
  BY <1>1, <1>2, CallType
<1>4. SetState(Call([c EXCEPT !.handshakeTimer = TRUE], call), "Confirming") \in Members
  BY <1>3, SetStateType DEF States
<1>5. Emit(c, {"reset"}) \in Members
  BY EmitType DEF Signals
<1> QED  BY <1>3, <1>4, <1>5 DEF ActivateNext

\* activateInternal() keeps the types on each of its four exits.
LEMMA ActivateInternalType ==
    ASSUME NEW c \in Members, NEW policy, NEW initiator \in Principals, NEW w \in Worlds
    PROVE  ActivateInternal(c, policy, initiator, w) \in Members
<1> DEFINE loc     == c.server.loc
           exit    == ChooseServer(policy, c.server.exit, ExitServers[loc], w.exitPick, w)
           entry   == ChooseServer(policy, c.server.entry, EntryServers[loc], w.entryPick, w)
           hops    == Hops(loc, entry, exit)
           cleared == [ClearConnectedTime(c) EXCEPT !.initiator = initiator,
                                                    !.handshakeTimer = FALSE,
                                                    !.queue = <<>>]
           queued  == [cleared EXCEPT !.queue = hops,
                                      !.server = [loc   |-> loc,
                                                  entry |-> Head(hops).key,
                                                  exit  |-> exit]]
<1>1. loc \in Locations
  BY DEF Members, ServerData
<1>2. exit \in Servers \cup {NoServer} /\ entry \in Servers \cup {NoServer}
  BY ChooseServerType
<1>3. cleared \in Members
  <2>1. <<>> \in Seq(Hop)
    OBVIOUS
  <2>2. ClearConnectedTime(c) \in Members
    BY ClearConnectedTimeType
  <2> QED  BY <2>1, <2>2 DEF Members
<1> HIDE DEF exit, entry, cleared
<1>4. CASE exit = NoServer
  BY <1>3, <1>4, ServerUnavailableType DEF ActivateInternal, cleared, exit
<1>5. CASE exit # NoServer /\ ~w.device
  <2>1. [cleared EXCEPT !.nextStep = "Disconnect"] \in Members
    BY <1>3 DEF Members, NextSteps
  <2> QED  BY <1>5, <2>1 DEF ActivateInternal, cleared, exit
<1>6. CASE exit # NoServer /\ w.device /\ loc \in MultihopLocations /\ entry = NoServer
  BY <1>3, <1>6, ServerUnavailableType DEF ActivateInternal, cleared, exit, entry
<1>7. CASE exit # NoServer /\ w.device /\ ~(loc \in MultihopLocations /\ entry = NoServer)
  <2>1. hops \in Seq(Hop) /\ hops # <<>> /\ Head(hops) \in Hop
    BY <1>1, <1>2, <1>7, HopsType
  <2> HIDE DEF hops
  <2>2. [loc |-> loc, entry |-> Head(hops).key, exit |-> exit] \in ServerData
    BY <1>1, <1>2, <2>1 DEF ServerData, Hop
  <2>3. queued \in Members /\ queued.queue # <<>>
    BY <1>3, <2>1, <2>2 DEF Members
  <2>4. ActivateNext(queued, w) \in Members
    BY <2>3, ActivateNextType
  <2> QED  BY <1>7, <2>4 DEF ActivateInternal, cleared, exit, entry, hops
<1> QED  BY <1>4, <1>5, <1>6, <1>7

\* The tail of activate() keeps the types.
LEMMA StartActivationType ==
    ASSUME NEW c \in Members, NEW policy, NEW initiator \in Principals, NEW w \in Worlds
    PROVE  StartActivation(c, policy, initiator, w) \in Members
<1>1. SetState(c, "Connecting") \in Members
  BY SetStateType DEF States
<1> QED  BY <1>1, ClearRetryCounterType, ActivateInternalType DEF StartActivation

\* activate() keeps the types: an account request is sent only for a user, and
\* disconnected() activates only out of a switching state, never out of Off.
LEMMA ActivateType ==
    ASSUME NEW c \in Members, NEW data \in ServerData, NEW initiator \in Principals,
           NEW policy, NEW reachable \in BOOLEAN, NEW w \in Worlds,
           c.state = "Off" => initiator \in Users
    PROVE  Activate(c, data, initiator, policy, reachable, w) \in Members
<1> DEFINE switching == c.state \in {"Switching", "SilentSwitching"}
           accepted  == [c EXCEPT !.isSwitchingServer = switching, !.server = data]
<1>0. switching \in BOOLEAN
  OBVIOUS
<1> HIDE DEF switching
<1>1. accepted \in Members
  BY <1>0 DEF Members
<1>2. StartActivation(accepted, policy, initiator, w) \in Members
  BY <1>1, StartActivationType
<1>3. Emit([accepted EXCEPT !.portalDetected = FALSE],
           {"activationBlockedForCaptivePortal"}) \in Members
  <2>1. [accepted EXCEPT !.portalDetected = FALSE] \in Members
    BY <1>1 DEF Members
  <2> QED  BY <2>1, EmitType DEF Signals
<1>4. initiator \in Users =>
        [accepted EXCEPT !.requests[initiator] = @ + 1] \in Members
  <2> HIDE DEF accepted
  <2>1. ASSUME initiator \in Users
        PROVE  [accepted.requests EXCEPT ![initiator] = @ + 1] \in [Users -> Nat]
    BY <1>1, <2>1 DEF Members
  <2>2. ASSUME NEW r \in [Users -> Nat]
        PROVE  [accepted EXCEPT !.requests = r] \in Members
    BY <1>1 DEF Members
  <2> QED  BY <2>1, <2>2
<1> QED  BY <1>1, <1>2, <1>3, <1>4 DEF Activate, switching

\* disconnected() keeps the types, the activation of a pending switch included.
LEMMA OnDisconnectedType ==
    ASSUME NEW c \in Members, NEW w \in Worlds
    PROVE  OnDisconnected(c, w) \in Members
<1> DEFINE idle == ProcessNextStep(AbandonAttempt(c))
           ended == Emit([idle EXCEPT !.initiator = "Null"],
                         IF c.state # "Confirming" THEN {"recordConnectionEnd"} ELSE {})
<1>1. idle \in Members
  BY AbandonAttemptType, ProcessNextStepType
<1>2. idle.state = c.state
  BY DEF Members, ProcessNextStep, AbandonAttempt, Emit, ClearRetryCounter,
         ClearConnectedTime
<1> HIDE DEF idle
<1>3. SetState(idle, "Off") \in Members
  BY <1>1, SetStateType DEF States
<1>4. SetState(ended, "Off") \in Members
  <2>1. [idle EXCEPT !.initiator = "Null"] \in Members
    BY <1>1 DEF Members, Principals
  <2>2. ended \in Members
    BY <2>1, EmitType DEF Signals
  <2> QED  BY <2>2, SetStateType DEF States
<1>5. ASSUME c.state \in {"SilentSwitching", "Switching"}
      PROVE  Activate(idle, c.next,
                      IF c.state = "SilentSwitching" THEN c.initiator ELSE "ClientUser",
                      c.nextPolicy, TRUE, w) \in Members
  <2> DEFINE p == IF c.state = "SilentSwitching" THEN c.initiator ELSE "ClientUser"
  <2>1. p \in Principals /\ c.next \in ServerData
    BY DEF Members, Principals
  <2>2. idle.state # "Off"
    BY <1>2, <1>5
  <2> HIDE DEF p
  <2>3. Activate(idle, c.next, p, c.nextPolicy, TRUE, w) \in Members
    BY <1>1, <2>1, <2>2, ActivateType
  <2> QED  BY <2>3 DEF p
<1> QED  BY <1>3, <1>4, <1>5 DEF OnDisconnected, idle

\* deactivate() keeps the types whether or not it is answered at once.
LEMMA DeactivateType ==
    ASSUME NEW c \in Members, NEW user, NEW ready \in BOOLEAN, NEW w \in Worlds
    PROVE  Deactivate(c, user, ready, w) \in Members
<1> DEFINE portal == IF ~c.portalDetected THEN c
                     ELSE Emit([c EXCEPT !.portalDetected = FALSE],
                               {"activationBlockedForCaptivePortal"})
           leaving == IF c.state \in {"Switching", "SilentSwitching"} THEN portal
                      ELSE SetState(portal, "Disconnecting")
           idle    == AbandonAttempt(GetStatusOf(leaving))
<1>1. portal \in Members
  <2>1. [c EXCEPT !.portalDetected = FALSE] \in Members
    BY DEF Members
  <2> QED  BY <2>1, EmitType DEF Signals
<1>2. idle \in Members
  <2> HIDE DEF portal
  <2>1. leaving \in Members
    BY <1>1, SetStateType DEF States
  <2> QED  BY <2>1, GetStatusOfType, AbandonAttemptType
<1> HIDE DEF idle
<1>3. OnDisconnected(idle, w) \in Members
  BY <1>2, OnDisconnectedType
<1>4. Call(idle, ImplCall("deactivate", NoHop)) \in Members
  BY <1>2, CallType DEF ImplCall, ImplCalls
<1> QED  BY <1>3, <1>4 DEF Deactivate, idle

\* switchServers() and silentSwitchServers() keep the types.
LEMMA SwitchToType ==
    ASSUME NEW c \in Members, NEW data \in ServerData, NEW policy \in Policies,
           NEW state \in States, NEW ready \in BOOLEAN, NEW w \in Worlds
    PROVE  SwitchTo(c, data, policy, state, ready, w) \in Members
<1> DEFINE switching == [c EXCEPT !.isSwitchingServer = TRUE,
                                  !.next = data, !.nextPolicy = policy]
<1>1. switching \in Members
  BY DEF Members
<1> HIDE DEF switching
<1>2. SetState(ClearRetryCounter(ClearConnectedTime(switching)), state) \in Members
  BY <1>1, ClearConnectedTimeType, ClearRetryCounterType, SetStateType
<1> QED  BY <1>2, DeactivateType DEF SwitchTo, switching

\* The end of connected() keeps the types.
LEMMA ConnectionEstablishedType ==
    ASSUME NEW c \in Members, NEW ready \in BOOLEAN, NEW w \in Worlds
    PROVE  ConnectionEstablished(c, ready, w) \in Members
<1> DEFINE switching == c.isSwitchingServer \/ c.state \in {"On", "OnPartial"}
           done == [c EXCEPT !.queue = <<>>, !.handshakeTimer = FALSE, !.retry = 0,
                             !.isSwitchingServer = switching]
           s    == IF c.initiator = "ExtensionUser" THEN "OnPartial" ELSE "On"
           on   == ResetConnectedTime(SetState(done, s))
           told == IF done.isSwitchingServer THEN on
                   ELSE Emit(on, {"recordConnectionStart"})
<1>1. switching \in BOOLEAN /\ <<>> \in Seq(Hop) /\ s \in States
  BY DEF Members, States
<1> HIDE DEF switching, s
<1>2. done \in Members
  BY <1>1 DEF Members
<1> HIDE DEF done
<1>3. on \in Members
  BY <1>1, <1>2, SetStateType, ResetConnectedTimeType
<1> HIDE DEF on
<1>4. told \in Members
  BY <1>3, EmitType DEF Signals
<1> HIDE DEF told
<1>5. Deactivate(told, "ClientUser", ready, w) \in Members
  BY <1>4, DeactivateType
<1> QED  BY <1>4, <1>5 DEF ConnectionEstablished, told, on, done, s, switching

\* connected() keeps the types for any key, expected or late.
LEMMA OnConnectedType ==
    ASSUME NEW c \in Members, NEW key, NEW ready \in BOOLEAN, NEW w \in Worlds
    PROVE  OnConnected(c, key, ready, w) \in Members
<1>1. ASSUME Len(c.queue) > 1
      PROVE  ActivateNext([c EXCEPT !.queue = Tail(@)], w) \in Members
  <2>1. c.queue \in Seq(Hop)
    BY DEF Members
  <2>2. Tail(c.queue) \in Seq(Hop) /\ Tail(c.queue) # <<>>
    BY <1>1, <2>1, TailOfSeq
  <2>3. [c EXCEPT !.queue = Tail(@)] \in Members
    BY <2>2 DEF Members
  <2>4. [c EXCEPT !.queue = Tail(@)].queue = Tail(c.queue)
    BY DEF Members
  <2> QED  BY <2>2, <2>3, <2>4, ActivateNextType
<1> QED  BY <1>1, ConnectionEstablishedType DEF OnConnected

\* implInitialized() keeps the types.
LEMMA OnInitializedType ==
    ASSUME NEW c \in Members, NEW status \in BOOLEAN, NEW connected \in BOOLEAN
    PROVE  OnInitialized(c, status, connected) \in Members
<1>1. ProcessNextStep(c) \in Members
  BY ProcessNextStepType
<1>2. SetState(c, "Off") \in Members /\ SetState(ProcessNextStep(c), "Off") \in Members
  BY <1>1, SetStateType DEF States
<1>3. SetState(ProcessNextStep(c), "On") \in Members
  BY <1>1, SetStateType DEF States
<1>4. [SetState(ProcessNextStep(c), "On") EXCEPT !.connectedTime = TRUE, !.timer = TRUE]
        \in Members
  BY <1>3 DEF Members
<1> QED  BY <1>2, <1>4 DEF OnInitialized

\* handshakeTimeout() keeps the types.
LEMMA OnHandshakeTimeoutType ==
    ASSUME NEW c \in Members, NEW ready \in BOOLEAN, NEW w \in Worlds
    PROVE  OnHandshakeTimeout(c, ready, w) \in Members
<1> DEFINE retried == [c EXCEPT !.retry = @ + 1]
<1>1. retried \in Members /\ c.initiator \in Principals
  <2>1. c.retry + 1 \in Nat
    BY DEF Members
  <2> QED  BY <2>1 DEF Members
<1> HIDE DEF retried
<1>2. ActivateInternal(retried, "RandomizeServerSelection", c.initiator, w) \in Members
  BY <1>1, ActivateInternalType
<1> QED  BY <1>1, <1>2, DeactivateType, ServerUnavailableType
         DEF OnHandshakeTimeout, retried

\* quit() keeps the types.
LEMMA OnQuitType ==
    ASSUME NEW c \in Members, NEW ready \in BOOLEAN, NEW w \in Worlds
    PROVE  OnQuit(c, ready, w) \in Members
<1> DEFINE quitting == [c EXCEPT !.nextStep = "Quit"]
<1>1. quitting \in Members
  BY DEF Members, NextSteps
<1> HIDE DEF quitting
<1>2. Emit(quitting, {"readyToQuit"}) \in Members
  BY <1>1, EmitType DEF Signals
<1>3. Deactivate(quitting, "ClientUser", ready, w) \in Members
  BY <1>1, DeactivateType
<1> QED  BY <1>1, <1>2, <1>3 DEF OnQuit, quitting

\* updateRequired() keeps the types.
LEMMA OnUpdateRequiredType ==
    ASSUME NEW c \in Members, NEW ready \in BOOLEAN, NEW w \in Worlds
    PROVE  OnUpdateRequired(c, ready, w) \in Members
<1> DEFINE updating == [c EXCEPT !.nextStep = "Update"]
<1>1. updating \in Members
  BY DEF Members, NextSteps
<1> HIDE DEF updating
<1>2. Emit(c, {"readyToUpdate"}) \in Members
  BY EmitType DEF Signals
<1>3. Deactivate(updating, "ClientUser", ready, w) \in Members
  BY <1>1, DeactivateType
<1> QED  BY <1>1, <1>2, <1>3 DEF OnUpdateRequired, updating

-----------------------------------------------------------------------------
\* Clearing the outputs of the previous handler keeps the types.
LEMMA FreshType ==
    ASSUME ctl \in Members
    PROVE  Fresh \in Members
<1>1. <<>> \in Seq(ImplCalls) /\ <<>> \in Seq(States)
  OBVIOUS
<1> QED  BY <1>1 DEF Fresh, Members

\* A location the user selects is server data without servers chosen.
LEMMA ServerDataOfType ==
    ASSUME NEW loc \in Locations
    PROVE  ServerDataOf(loc) \in ServerData
BY DEF ServerDataOf, ServerData

\* The constructor leaves members of the right types.
LEMMA InitType == Init => TypeOK
<1> SUFFICES ASSUME Init PROVE TypeOK
  OBVIOUS
<1>1. PICK loc \in Locations, b \in BOOLEAN : ctl = Constructed(loc, b)
  BY DEF Init
<1>2. <<>> \in Seq(Hop) /\ <<>> \in Seq(ImplCalls) /\ <<>> \in Seq(States)
  OBVIOUS
<1>3. [p \in Users |-> 0] \in [Users -> Nat]
  OBVIOUS
<1>4. ctl \in Members
  BY <1>1, <1>2, <1>3, ServerDataOfType
     DEF Constructed, Members, States, Principals, NextSteps, Policies
<1> QED  BY <1>4 DEF Init, TypeOK

\* Every handler keeps the types of the members and of the link.
LEMMA NextType == TypeOK /\ [Next]_vars => TypeOK'
<1> SUFFICES ASSUME TypeOK, [Next]_vars PROVE TypeOK'
  OBVIOUS
<1> USE DEF TypeOK
<1>1. ctl \in Members /\ Fresh \in Members
  BY FreshType
<1>2. CASE UNCHANGED vars
  BY <1>2 DEF vars
<1>3. ASSUME NEW loc \in Locations, Initialize(loc) PROVE TypeOK'
  <2>1. [Fresh EXCEPT !.server = ServerDataOf(loc), !.next = ServerDataOf(loc)] \in Members
    BY <1>1, ServerDataOfType DEF Members
  <2> QED  BY <1>3, <2>1 DEF Initialize
<1>4. ASSUME NEW loc \in Locations, NEW user \in Users, NEW reachable \in BOOLEAN,
             NEW w \in Worlds, UserActivate(loc, user, reachable, w)
      PROVE  TypeOK'
  <2>1. user \in Principals
    BY DEF Users, Principals
  <2> QED  BY <1>1, <1>4, <2>1, ServerDataOfType, ActivateType DEF UserActivate
<1>5. ASSUME NEW user \in Users, NEW proceed \in BOOLEAN, NEW w \in Worlds,
             AccountReply(user, proceed, w)
      PROVE  TypeOK'
  <2> DEFINE answered == [Fresh EXCEPT !.requests[user] = @ - 1]
  <2>1. user \in Principals
    BY DEF Users, Principals
  <2>2. Fresh.requests = ctl.requests /\ Fresh.requests \in [Users -> Nat]
    BY <1>1 DEF Fresh, Members
  <2>3. [Fresh.requests EXCEPT ![user] = @ - 1] \in [Users -> Nat]
    BY <1>5, <2>2 DEF AccountReply
  <2>4. answered \in Members
    BY <1>1, <2>3 DEF Members
  <2> HIDE DEF answered
  <2>5. StartActivation(answered, "RandomizeServerSelection", user, w) \in Members
    BY <2>1, <2>4, StartActivationType
  <2> QED  BY <1>5, <2>4, <2>5 DEF AccountReply, answered
<1>6. ASSUME NEW user \in Users, NEW ready \in BOOLEAN, NEW w \in Worlds,
             UserDeactivate(user, ready, w)
      PROVE  TypeOK'
  BY <1>1, <1>6, DeactivateType DEF UserDeactivate
<1>7. ASSUME NEW loc \in Locations, NEW ready \in BOOLEAN, NEW w \in Worlds,
             UserSwitch(loc, ready, w)
      PROVE  TypeOK'
  BY <1>1, <1>7, ServerDataOfType, SwitchToType DEF UserSwitch, Policies, States
<1>8. ASSUME NEW cooldown \in BOOLEAN, NEW ready \in BOOLEAN, NEW w \in Worlds,
             SilentSwitch(cooldown, ready, w)
      PROVE  TypeOK'
  <2>1. ctl.server \in ServerData
    BY <1>1 DEF Members
  <2> QED  BY <1>1, <1>8, <2>1, SwitchToType DEF SilentSwitch, Policies, States
<1>9. ASSUME NEW ready \in BOOLEAN, NEW w \in Worlds, Quit(ready, w) PROVE TypeOK'
  BY <1>1, <1>9, OnQuitType DEF Quit
<1>10. ASSUME NEW ready \in BOOLEAN, NEW w \in Worlds, UpdateRequired(ready, w)
       PROVE  TypeOK'
  BY <1>1, <1>10, OnUpdateRequiredType DEF UpdateRequired
<1>11. ASSUME NEW present \in BOOLEAN, CaptivePortal(present) PROVE TypeOK'
  <2>1. [Fresh EXCEPT !.portalDetected = present] \in Members
    BY <1>1 DEF Members
  <2> QED  BY <1>11, <2>1 DEF CaptivePortal
<1>12. CASE GetStatus
  BY <1>1, <1>12, GetStatusOfType DEF GetStatus
<1>13. ASSUME NEW ready \in BOOLEAN, NEW w \in Worlds, HandshakeTimeout(ready, w)
       PROVE  TypeOK'
  <2>1. [Fresh EXCEPT !.handshakeTimer = FALSE] \in Members
    BY <1>1 DEF Members
  <2> QED  BY <1>13, <2>1, OnHandshakeTimeoutType DEF HandshakeTimeout
<1>14. CASE ConnectingTimeout
  <2>1. [Fresh EXCEPT !.connectingTimer = FALSE,
                      !.enableDisconnectInConfirming = TRUE] \in Members
    BY <1>1 DEF Members
  <2> QED  BY <1>14, <2>1 DEF ConnectingTimeout
<1>15. ASSUME NEW status \in BOOLEAN, NEW connected \in BOOLEAN,
              ImplInitialized(status, connected)
       PROVE  TypeOK'
  BY <1>1, <1>15, OnInitializedType DEF ImplInitialized
<1>16. ASSUME NEW key \in Servers, NEW w \in Worlds, ImplConnected(key, w) PROVE TypeOK'
  BY <1>1, <1>16, OnConnectedType DEF ImplConnected
<1>17. ASSUME NEW w \in Worlds, ImplDisconnected(w) PROVE TypeOK'
  BY <1>1, <1>17, OnDisconnectedType DEF ImplDisconnected
<1>18. ASSUME NEW w \in Worlds, ImplLost(w) PROVE TypeOK'
  BY <1>1, <1>18, OnDisconnectedType DEF ImplLost
<1>19. CASE ImplStatusUpdated
  <2>1. [Fresh EXCEPT !.statusCallbacks = FALSE] \in Members
    BY <1>1 DEF Members
  <2> QED  BY <1>19, <2>1 DEF ImplStatusUpdated
<1> QED
  <2> HIDE DEF TypeOK
  <2> QED  BY <1>2, <1>3, <1>4, <1>5, <1>6, <1>7, <1>8, <1>9, <1>10, <1>11, <1>12,
              <1>13, <1>14, <1>15, <1>16, <1>17, <1>18, <1>19
           DEF Next, UserNext, ReplyNext, TimerNext, ImplNext

\* TypeOK holds in every reachable state: in particular the number of account
\* requests in flight never becomes negative, because a reply comes once per
\* request, and activateNext() never dereferences an empty queue.
THEOREM TypeCorrect == Spec => []TypeOK
BY InitType, NextType, PTL DEF Spec

-----------------------------------------------------------------------------
\* The inductive invariant behind the attempt's properties.

\* Nothing, the one hop of a tunnel (or the exit hop left of two), or both hops.
QueueShape(q) ==
    \/ q = <<>>
    \/ Len(q) = 1 /\ q[1].type # "MultiHopEntry"
    \/ Len(q) = 2 /\ q[1].type = "MultiHopEntry" /\ q[2].type # "MultiHopEntry"

\* The timer runs only for a hop; the entry hop is tried below the maximum, the exit
\* hop, which a late entry handshake may start after the last retry, up to it.
Attempt(q, running, retry) ==
    /\ QueueShape(q)
    /\ running => q # <<>>
    /\ running /\ Len(q) = 2 => retry < CONNECTION_MAX_RETRY
    /\ running \/ Len(q) = 2 => retry <= CONNECTION_MAX_RETRY
    /\ retry <= CONNECTION_MAX_RETRY + 1

AttemptOf(c) == Attempt(c.queue, c.handshakeTimer, c.retry)

\* The cancel flag or its timer, exactly while confirming.
CancelOf(c) ==
    IF c.state = "Confirming"
    THEN c.enableDisconnectInConfirming \/ c.connectingTimer
    ELSE ~c.enableDisconnectInConfirming /\ ~c.connectingTimer

ModesOf(c) ==
    /\ c.state = "OnPartial" => c.initiator = "ExtensionUser"
    /\ CancelOf(c)

Inv == TypeOK /\ AttemptOf(ctl) /\ ModesOf(ctl)

\* An empty queue with the timer stopped is sound for every retry count the code
\* lets an attempt start with.
LEMMA EmptyAttempt ==
    /\ QueueShape(<<>>)
    /\ \A r \in Nat : r < CONNECTION_MAX_RETRY => Attempt(<<>>, FALSE, r)
    /\ 0 < CONNECTION_MAX_RETRY
<1>1. QueueShape(<<>>)
  BY DEF QueueShape
<1>2. 0 < CONNECTION_MAX_RETRY
  BY BoundsAssumption
<1>3. ASSUME NEW r \in Nat, r < CONNECTION_MAX_RETRY PROVE Attempt(<<>>, FALSE, r)
  BY <1>1, <1>3, BoundsAssumption DEF Attempt
<1> QED  BY <1>1, <1>2, <1>3

\* Sets of members a method leaves alone.
SameAttempt(c, d) ==
    d.queue = c.queue /\ d.handshakeTimer = c.handshakeTimer /\ d.retry = c.retry

SameModes(c, d) ==
    /\ d.state = c.state /\ d.initiator = c.initiator
    /\ d.enableDisconnectInConfirming = c.enableDisconnectInConfirming
    /\ d.connectingTimer = c.connectingTimer

\* What the small methods leave alone: none of them touches the queue, the timer
\* or the counter, and only setState() touches the modes.
LEMMA Kept ==
    ASSUME NEW c \in Members
    PROVE  /\ \A s \in SUBSET Signals :
                 SameAttempt(c, Emit(c, s)) /\ SameModes(c, Emit(c, s))
           /\ \A call : SameAttempt(c, Call(c, call)) /\ SameModes(c, Call(c, call))
           /\ SameAttempt(c, ClearConnectedTime(c)) /\ SameModes(c, ClearConnectedTime(c))
           /\ SameAttempt(c, ResetConnectedTime(c)) /\ SameModes(c, ResetConnectedTime(c))
           /\ SameAttempt(c, ProcessNextStep(c)) /\ SameModes(c, ProcessNextStep(c))
           /\ SameAttempt(c, GetStatusOf(c)) /\ SameModes(c, GetStatusOf(c))
           /\ SameModes(c, ClearRetryCounter(c))
           /\ SameModes(c, AbandonAttempt(c))
           /\ \A s : SameAttempt(c, SetState(c, s))
BY DEF SameAttempt, SameModes, Members, Emit, Call, ClearConnectedTime, ResetConnectedTime,
       ProcessNextStep, GetStatusOf, ClearRetryCounter, AbandonAttempt, SetState

\* setState() establishes the modes of the state it enters.
LEMMA SetStateModes ==
    ASSUME NEW c \in Members, CancelOf(c), NEW s \in States,
           s = "OnPartial" => c.initiator = "ExtensionUser"
    PROVE  /\ ModesOf(SetState(c, s))
           /\ SetState(c, s).state = s
           /\ SetState(c, s).initiator = c.initiator
BY DEF SetState, ModesOf, CancelOf, Members

\* Dropping the attempt leaves it sound, whatever it was.
LEMMA AbandonAttemptEnds ==
    ASSUME NEW c \in Members
    PROVE  AttemptOf(AbandonAttempt(c))
<1>1. /\ AbandonAttempt(c).queue = <<>>
      /\ AbandonAttempt(c).handshakeTimer = FALSE
      /\ AbandonAttempt(c).retry = 0
  BY DEF Members, ClearConnectedTime, ClearRetryCounter, AbandonAttempt
<1>2. Attempt(<<>>, FALSE, 0)
  BY EmptyAttempt
<1> QED  BY <1>1, <1>2, Zenon DEF AttemptOf

\* The queue activateInternal() fills has one of the shapes of QueueShape.
LEMMA HopsShape ==
    ASSUME NEW loc, NEW entry, NEW exit
    PROVE  /\ QueueShape(Hops(loc, entry, exit))
           /\ Hops(loc, entry, exit) # <<>>
<1> DEFINE e == [key |-> entry, type |-> "MultiHopEntry"]
           x == [key |-> exit, type |-> "MultiHopExit"]
           s == [key |-> exit, type |-> "SingleHop"]
<1>1. e.type = "MultiHopEntry" /\ x.type # "MultiHopEntry" /\ s.type # "MultiHopEntry"
  OBVIOUS
<1>2. Hops(loc, entry, exit) \in {<<e, x>>, <<s>>}
  BY DEF Hops
<1> HIDE DEF e, x, s
<1>3. QueueShape(<<e, x>>) /\ QueueShape(<<s>>) /\ <<e, x>> # <<>> /\ <<s>> # <<>>
  BY <1>1 DEF QueueShape
<1> QED  BY <1>2, <1>3

\* activateNext() keeps the invariant when its queue allows a running timer.
LEMMA ActivateNextSound ==
    ASSUME NEW c \in Members, ModesOf(c), c.queue # <<>>, QueueShape(c.queue),
           Attempt(c.queue, TRUE, c.retry),
           Attempt(c.queue, c.handshakeTimer, c.retry),
           NEW w \in Worlds
    PROVE  AttemptOf(ActivateNext(c, w)) /\ ModesOf(ActivateNext(c, w))
<1> DEFINE call    == ImplCall("activate", Head(c.queue))
           armed   == [c EXCEPT !.handshakeTimer = TRUE]
           started == Call(armed, call)
<1>1. call \in ImplCalls
  <2>1. c.queue \in Seq(Hop)
    BY DEF Members
  <2>2. Head(c.queue) \in Hop
    BY <2>1
  <2> QED  BY <2>2 DEF ImplCall, ImplCalls
<1>2. armed \in Members /\ AttemptOf(armed) /\ ModesOf(armed)
  BY DEF Members, AttemptOf, ModesOf, CancelOf
<1> HIDE DEF call, armed
<1>3. started \in Members /\ AttemptOf(started) /\ ModesOf(started)
  BY <1>1, <1>2, CallType, Kept DEF AttemptOf, ModesOf, CancelOf, SameAttempt, SameModes
<1> HIDE DEF started
<1>4. AttemptOf(SetState(started, "Confirming")) /\ ModesOf(SetState(started, "Confirming"))
  BY <1>3, SetStateModes, Kept DEF AttemptOf, ModesOf, SameAttempt, States
<1>5. AttemptOf(Emit(c, {"reset"})) /\ ModesOf(Emit(c, {"reset"}))
  BY Kept DEF AttemptOf, ModesOf, CancelOf, SameAttempt, SameModes, Signals
<1> QED  BY <1>3, <1>4, <1>5 DEF ActivateNext, started, armed, call

\* activateInternal() establishes the invariant from a retry count below the
\* maximum, whatever attempt it replaces.
LEMMA ActivateInternalSound ==
    ASSUME NEW c \in Members, ModesOf(c), c.retry < CONNECTION_MAX_RETRY,
           NEW policy, NEW initiator \in Principals, NEW w \in Worlds,
           c.state = "OnPartial" => initiator = "ExtensionUser"
    PROVE  /\ AttemptOf(ActivateInternal(c, policy, initiator, w))
           /\ ModesOf(ActivateInternal(c, policy, initiator, w))
<1> DEFINE loc     == c.server.loc
           exit    == ChooseServer(policy, c.server.exit, ExitServers[loc], w.exitPick, w)
           entry   == ChooseServer(policy, c.server.entry, EntryServers[loc], w.entryPick, w)
           hops    == Hops(loc, entry, exit)
           cleared == [ClearConnectedTime(c) EXCEPT !.initiator = initiator,
                                                    !.handshakeTimer = FALSE,
                                                    !.queue = <<>>]
           queued  == [cleared EXCEPT !.queue = hops,
                                      !.server = [loc   |-> loc,
                                                  entry |-> Head(hops).key,
                                                  exit  |-> exit]]
<1>1. loc \in Locations
  BY DEF Members, ServerData
<1>2. exit \in Servers \cup {NoServer} /\ entry \in Servers \cup {NoServer}
  BY ChooseServerType
<1>3. ClearConnectedTime(c) \in Members /\ SameModes(c, ClearConnectedTime(c))
      /\ ClearConnectedTime(c).retry = c.retry
  BY ClearConnectedTimeType, Kept DEF SameAttempt
<1>4. /\ cleared \in Members /\ cleared.queue = <<>> /\ cleared.handshakeTimer = FALSE
      /\ cleared.retry = c.retry
  <2>1. <<>> \in Seq(Hop)
    OBVIOUS
  <2> QED  BY <1>3, <2>1 DEF Members
<1>5. ModesOf(cleared)
  BY <1>3 DEF Members, ModesOf, CancelOf, SameModes
<1>6. AttemptOf(cleared)
  <2>1. Attempt(<<>>, FALSE, c.retry)
    BY EmptyAttempt DEF Members
  <2> HIDE DEF cleared
  <2> QED  BY <1>4, <2>1, Zenon DEF AttemptOf
<1> HIDE DEF exit, entry, cleared
<1>7. AttemptOf(ServerUnavailable(cleared)) /\ ModesOf(ServerUnavailable(cleared))
  BY <1>4, <1>5, <1>6, Kept
     DEF ServerUnavailable, Signals, AttemptOf, ModesOf, CancelOf, SameAttempt, SameModes
<1>8. CASE exit = NoServer
  BY <1>7, <1>8 DEF ActivateInternal, cleared, exit
<1>9. CASE exit # NoServer /\ ~w.device
  <2>1. /\ AttemptOf([cleared EXCEPT !.nextStep = "Disconnect"])
        /\ ModesOf([cleared EXCEPT !.nextStep = "Disconnect"])
    BY <1>4, <1>5, <1>6 DEF Members, AttemptOf, ModesOf, CancelOf
  <2> QED  BY <1>9, <2>1 DEF ActivateInternal, cleared, exit
<1>10. CASE exit # NoServer /\ w.device /\ loc \in MultihopLocations /\ entry = NoServer
  BY <1>7, <1>10 DEF ActivateInternal, cleared, exit, entry
<1>11. CASE exit # NoServer /\ w.device /\ ~(loc \in MultihopLocations /\ entry = NoServer)
  <2>1. hops \in Seq(Hop) /\ Head(hops) \in Hop
    BY <1>1, <1>2, <1>11, HopsType
  <2>2. QueueShape(hops) /\ hops # <<>>
    BY HopsShape
  <2> HIDE DEF hops
  <2>3. [loc |-> loc, entry |-> Head(hops).key, exit |-> exit] \in ServerData
    BY <1>1, <1>2, <2>1 DEF ServerData, Hop
  <2>4. /\ queued \in Members /\ queued.queue = hops /\ queued.handshakeTimer = FALSE
        /\ queued.retry = c.retry
    BY <1>4, <2>1, <2>3 DEF Members
  <2>5. ModesOf(queued)
    BY <1>4, <1>5 DEF Members, ModesOf, CancelOf
  <2>6. Attempt(hops, TRUE, c.retry) /\ Attempt(hops, FALSE, c.retry)
    BY <2>1, <2>2, BoundsAssumption DEF Attempt, Members
  <2> HIDE DEF queued
  <2>7. AttemptOf(ActivateNext(queued, w)) /\ ModesOf(ActivateNext(queued, w))
    BY <2>2, <2>4, <2>5, <2>6, ActivateNextSound
  <2> QED  BY <1>11, <2>7 DEF ActivateInternal, cleared, exit, entry, hops, queued
<1> QED  BY <1>8, <1>9, <1>10, <1>11

\* The tail of activate() establishes the invariant: it starts from retry 0 and, for
\* the client, leaves OnPartial before the initiator changes.
LEMMA StartActivationSound ==
    ASSUME NEW c \in Members, ModesOf(c),
           NEW policy, NEW initiator \in Principals, NEW w \in Worlds
    PROVE  /\ AttemptOf(StartActivation(c, policy, initiator, w))
           /\ ModesOf(StartActivation(c, policy, initiator, w))
<1> DEFINE connecting == IF initiator = "ExtensionUser" THEN c ELSE SetState(c, "Connecting")
           ready      == ClearRetryCounter(connecting)
<1>1. /\ connecting \in Members /\ ModesOf(connecting)
      /\ connecting.state = "OnPartial" => initiator = "ExtensionUser"
  BY SetStateType, SetStateModes DEF States, ModesOf
<1> HIDE DEF connecting
<1>2. /\ ready \in Members /\ ModesOf(ready)
      /\ ready.state = "OnPartial" => initiator = "ExtensionUser"
  BY <1>1, ClearRetryCounterType, Kept DEF SameModes, ModesOf, CancelOf
<1>3. ready.retry = 0
  BY <1>1 DEF ClearRetryCounter, Members
<1> HIDE DEF ready
<1>4. ready.retry < CONNECTION_MAX_RETRY
  BY <1>3, EmptyAttempt
<1> QED  BY <1>2, <1>4, ActivateInternalSound DEF StartActivation, ready, connecting

\* activate() keeps the invariant in every state, the ones it ignores included.
LEMMA ActivateSound ==
    ASSUME NEW c \in Members, AttemptOf(c), ModesOf(c), NEW data \in ServerData,
           NEW initiator \in Principals, NEW policy, NEW reachable, NEW w \in Worlds
    PROVE  /\ AttemptOf(Activate(c, data, initiator, policy, reachable, w))
           /\ ModesOf(Activate(c, data, initiator, policy, reachable, w))
<1> DEFINE switching == c.state \in {"Switching", "SilentSwitching"}
           accepted  == [c EXCEPT !.isSwitchingServer = switching, !.server = data]
           blocked   == [accepted EXCEPT !.portalDetected = FALSE]
           asked     == [accepted EXCEPT !.requests[initiator] = @ + 1]
<1>1. switching \in BOOLEAN
  OBVIOUS
<1> HIDE DEF switching
<1>2. accepted \in Members /\ AttemptOf(accepted) /\ ModesOf(accepted)
  BY <1>1 DEF Members, AttemptOf, ModesOf, CancelOf
<1> HIDE DEF accepted
<1>3. /\ AttemptOf(StartActivation(accepted, policy, initiator, w))
      /\ ModesOf(StartActivation(accepted, policy, initiator, w))
  BY <1>2, StartActivationSound
<1>4. blocked \in Members /\ AttemptOf(blocked) /\ ModesOf(blocked)
  BY <1>2 DEF Members, AttemptOf, ModesOf, CancelOf
<1>5. /\ AttemptOf(Emit(blocked, {"activationBlockedForCaptivePortal"}))
      /\ ModesOf(Emit(blocked, {"activationBlockedForCaptivePortal"}))
  <2> HIDE DEF blocked
  <2> QED  BY <1>4, Kept DEF Signals, AttemptOf, ModesOf, CancelOf, SameAttempt, SameModes
<1>6. AttemptOf(asked) /\ ModesOf(asked)
  BY <1>2 DEF Members, AttemptOf, ModesOf, CancelOf
<1> QED  BY <1>2, <1>3, <1>5, <1>6 DEF Activate, accepted, switching

\* disconnected() establishes the invariant, on each of its three exits.
LEMMA OnDisconnectedSound ==
    ASSUME NEW c \in Members, ModesOf(c), NEW w \in Worlds
    PROVE  AttemptOf(OnDisconnected(c, w)) /\ ModesOf(OnDisconnected(c, w))
<1> DEFINE idle    == ProcessNextStep(AbandonAttempt(c))
           nobody  == [idle EXCEPT !.initiator = "Null"]
           signals == IF c.state # "Confirming" THEN {"recordConnectionEnd"} ELSE {}
           ended   == Emit(nobody, signals)
<1>1. idle \in Members /\ AttemptOf(idle) /\ SameModes(c, idle) /\ ModesOf(idle)
  <2> DEFINE a == AbandonAttempt(c)
  <2>1. a \in Members /\ AttemptOf(a) /\ SameModes(c, a)
    BY AbandonAttemptType, AbandonAttemptEnds, Kept
  <2> HIDE DEF a
  <2>2. ProcessNextStep(a) \in Members
    BY <2>1, ProcessNextStepType
  <2>3. SameAttempt(a, ProcessNextStep(a)) /\ SameModes(a, ProcessNextStep(a))
    BY <2>1, Kept
  <2> QED  BY <2>1, <2>2, <2>3 DEF a, AttemptOf, ModesOf, CancelOf, SameAttempt, SameModes
<1> HIDE DEF idle
<1>2. AttemptOf(SetState(idle, "Off")) /\ ModesOf(SetState(idle, "Off"))
  BY <1>1, SetStateModes, Kept DEF States, AttemptOf, ModesOf, SameAttempt
<1>3. nobody \in Members /\ AttemptOf(nobody) /\ CancelOf(nobody)
  BY <1>1 DEF Members, Principals, AttemptOf, ModesOf, CancelOf
<1> HIDE DEF nobody
<1>4. ended \in Members /\ AttemptOf(ended) /\ CancelOf(ended)
  <2>1. signals \in SUBSET Signals
    BY DEF Signals
  <2> HIDE DEF signals
  <2> QED  BY <1>3, <2>1, EmitType, Kept DEF AttemptOf, CancelOf, SameAttempt, SameModes
<1> HIDE DEF ended
<1>5. AttemptOf(SetState(ended, "Off")) /\ ModesOf(SetState(ended, "Off"))
  BY <1>4, SetStateModes, Kept DEF States, AttemptOf, SameAttempt
<1>6. ASSUME NEW p \in Principals
      PROVE  /\ AttemptOf(Activate(idle, c.next, p, c.nextPolicy, TRUE, w))
             /\ ModesOf(Activate(idle, c.next, p, c.nextPolicy, TRUE, w))
  <2>1. c.next \in ServerData
    BY DEF Members
  <2> QED  BY <1>1, <2>1, ActivateSound
<1>7. c.initiator \in Principals /\ "ClientUser" \in Principals
  BY DEF Members, Principals
<1> QED  BY <1>2, <1>5, <1>6, <1>7 DEF OnDisconnected, idle, nobody, ended

\* deactivate() keeps the invariant.
LEMMA DeactivateSound ==
    ASSUME NEW c \in Members, AttemptOf(c), ModesOf(c), NEW user, NEW ready \in BOOLEAN,
           NEW w \in Worlds
    PROVE  AttemptOf(Deactivate(c, user, ready, w)) /\ ModesOf(Deactivate(c, user, ready, w))
<1> DEFINE dropped == [c EXCEPT !.portalDetected = FALSE]
           portal  == IF ~c.portalDetected THEN c
                      ELSE Emit(dropped, {"activationBlockedForCaptivePortal"})
           leaving == IF c.state \in {"Switching", "SilentSwitching"} THEN portal
                      ELSE SetState(portal, "Disconnecting")
           asked   == GetStatusOf(leaving)
           idle    == AbandonAttempt(asked)
<1>1. dropped \in Members /\ ModesOf(dropped)
  BY DEF Members, ModesOf, CancelOf
<1> HIDE DEF dropped
<1>2. portal \in Members /\ ModesOf(portal)
  BY <1>1, EmitType, Kept DEF Signals, ModesOf, CancelOf, SameModes
<1> HIDE DEF portal
<1>3. leaving \in Members /\ ModesOf(leaving)
  BY <1>2, SetStateType, SetStateModes DEF States, ModesOf
<1> HIDE DEF leaving
<1>4. asked \in Members /\ ModesOf(asked)
  BY <1>3, GetStatusOfType, Kept DEF ModesOf, CancelOf, SameModes
<1> HIDE DEF asked
<1>5. idle \in Members /\ ModesOf(idle) /\ AttemptOf(idle)
  BY <1>4, AbandonAttemptType, AbandonAttemptEnds, Kept DEF ModesOf, CancelOf, SameModes
<1> HIDE DEF idle
<1>6. AttemptOf(OnDisconnected(idle, w)) /\ ModesOf(OnDisconnected(idle, w))
  BY <1>5, OnDisconnectedSound
<1>7. ASSUME NEW call PROVE AttemptOf(Call(idle, call)) /\ ModesOf(Call(idle, call))
  BY <1>5, Kept DEF AttemptOf, ModesOf, CancelOf, SameAttempt, SameModes
<1> QED  BY <1>6, <1>7 DEF Deactivate, idle, asked, leaving, portal, dropped

\* switchServers() and silentSwitchServers() keep the invariant.
LEMMA SwitchToSound ==
    ASSUME NEW c \in Members, AttemptOf(c), ModesOf(c), NEW data \in ServerData,
           NEW policy \in Policies, NEW state \in {"Switching", "SilentSwitching"},
           NEW ready \in BOOLEAN, NEW w \in Worlds
    PROVE  /\ AttemptOf(SwitchTo(c, data, policy, state, ready, w))
           /\ ModesOf(SwitchTo(c, data, policy, state, ready, w))
<1> DEFINE switching == [c EXCEPT !.isSwitchingServer = TRUE,
                                  !.next = data, !.nextPolicy = policy]
           untimed   == ClearConnectedTime(switching)
           cleared   == ClearRetryCounter(untimed)
           moved     == SetState(cleared, state)
<1>1. switching \in Members /\ AttemptOf(switching) /\ ModesOf(switching)
  BY DEF Members, AttemptOf, ModesOf, CancelOf
<1> HIDE DEF switching
<1>2. untimed \in Members /\ AttemptOf(untimed) /\ ModesOf(untimed)
  BY <1>1, ClearConnectedTimeType, Kept
     DEF AttemptOf, ModesOf, CancelOf, SameAttempt, SameModes
<1> HIDE DEF untimed
<1>3. cleared \in Members /\ AttemptOf(cleared) /\ ModesOf(cleared)
  <2>1. cleared \in Members /\ ModesOf(cleared)
    BY <1>2, ClearRetryCounterType, Kept DEF ModesOf, CancelOf, SameModes
  <2>2. /\ cleared.queue = untimed.queue
        /\ cleared.handshakeTimer = untimed.handshakeTimer
        /\ cleared.retry = 0
    BY <1>2 DEF ClearRetryCounter, Members
  <2>3. Attempt(untimed.queue, untimed.handshakeTimer, 0)
    BY <1>2, BoundsAssumption DEF AttemptOf, Attempt
  <2> QED  BY <2>1, <2>2, <2>3, Zenon DEF AttemptOf
<1> HIDE DEF cleared
<1>4. moved \in Members /\ AttemptOf(moved) /\ ModesOf(moved)
  <2>1. state \in States /\ state # "OnPartial"
    BY DEF States
  <2> QED  BY <1>3, <2>1, SetStateType, SetStateModes, Kept DEF AttemptOf, ModesOf, SameAttempt
<1> HIDE DEF moved
<1> QED  BY <1>4, DeactivateSound DEF SwitchTo, moved, cleared, untimed, switching

\* The end of connected() establishes the invariant.
LEMMA ConnectionEstablishedSound ==
    ASSUME NEW c \in Members, ModesOf(c), NEW ready \in BOOLEAN, NEW w \in Worlds
    PROVE  /\ AttemptOf(ConnectionEstablished(c, ready, w))
           /\ ModesOf(ConnectionEstablished(c, ready, w))
<1> DEFINE switching == c.isSwitchingServer \/ c.state \in {"On", "OnPartial"}
           done == [c EXCEPT !.queue = <<>>, !.handshakeTimer = FALSE, !.retry = 0,
                             !.isSwitchingServer = switching]
           s    == IF c.initiator = "ExtensionUser" THEN "OnPartial" ELSE "On"
           set  == SetState(done, s)
           on   == ResetConnectedTime(set)
           told == IF done.isSwitchingServer THEN on
                   ELSE Emit(on, {"recordConnectionStart"})
<1>1. switching \in BOOLEAN /\ <<>> \in Seq(Hop) /\ s \in States
  BY DEF Members, States
<1>2. s = "OnPartial" => c.initiator = "ExtensionUser"
  OBVIOUS
<1> HIDE DEF switching, s
<1>3. /\ done \in Members /\ ModesOf(done) /\ done.initiator = c.initiator
      /\ done.queue = <<>> /\ done.handshakeTimer = FALSE /\ done.retry = 0
  BY <1>1 DEF Members, ModesOf, CancelOf
<1> HIDE DEF done
<1>4. AttemptOf(done)
  <2>1. Attempt(<<>>, FALSE, 0)
    BY EmptyAttempt
  <2> QED  BY <1>3, <2>1, Zenon DEF AttemptOf
<1>5. set \in Members /\ AttemptOf(set) /\ ModesOf(set)
  BY <1>1, <1>2, <1>3, <1>4, SetStateType, SetStateModes, Kept
     DEF AttemptOf, ModesOf, SameAttempt
<1> HIDE DEF set
<1>6. on \in Members /\ AttemptOf(on) /\ ModesOf(on)
  BY <1>5, ResetConnectedTimeType, Kept
     DEF AttemptOf, ModesOf, CancelOf, SameAttempt, SameModes
<1> HIDE DEF on
<1>7. told \in Members /\ AttemptOf(told) /\ ModesOf(told)
  BY <1>6, EmitType, Kept DEF Signals, AttemptOf, ModesOf, CancelOf, SameAttempt, SameModes
<1> HIDE DEF told
<1>8. /\ AttemptOf(Deactivate(told, "ClientUser", ready, w))
      /\ ModesOf(Deactivate(told, "ClientUser", ready, w))
  BY <1>7, DeactivateSound
<1> QED  BY <1>7, <1>8 DEF ConnectionEstablished, told, on, set, done, s, switching

\* connected() keeps the invariant: a queue of two becomes the exit hop alone, for
\* which one more retry is allowed.
LEMMA OnConnectedSound ==
    ASSUME NEW c \in Members, AttemptOf(c), ModesOf(c), NEW key, NEW ready \in BOOLEAN,
           NEW w \in Worlds
    PROVE  AttemptOf(OnConnected(c, key, ready, w)) /\ ModesOf(OnConnected(c, key, ready, w))
<1>1. ASSUME Len(c.queue) > 1
      PROVE  /\ AttemptOf(ActivateNext([c EXCEPT !.queue = Tail(@)], w))
             /\ ModesOf(ActivateNext([c EXCEPT !.queue = Tail(@)], w))
  <2> DEFINE rest == Tail(c.queue)
             next == [c EXCEPT !.queue = rest]
  <2>1. c.queue \in Seq(Hop) /\ c.retry \in Nat
    BY DEF Members
  <2>2. rest \in Seq(Hop) /\ rest # <<>>
    BY <1>1, <2>1, TailOfSeq
  <2>3. QueueShape(c.queue) /\ Len(c.queue) = 2
    <3>1. QueueShape(c.queue)
      BY DEF AttemptOf, Attempt
    <3>2. c.queue # <<>>
      <4>1. Len(<<>>) = 0 /\ ~(0 > 1)
        OBVIOUS
      <4> QED  BY <1>1, <4>1, Zenon
    <3>3. Len(c.queue) # 1
      <4>1. ~(1 > 1)
        OBVIOUS
      <4> QED  BY <1>1, <4>1, Zenon
    <3> QED  BY <3>1, <3>2, <3>3, Zenon DEF QueueShape
  <2>4. Len(rest) = 1 /\ rest[1] = c.queue[2]
    BY <2>1, <2>3
  <2>5. c.queue[2].type # "MultiHopEntry"
    <3>1. Len(<<>>) = 0
      OBVIOUS
    <3> QED  BY <2>3, <3>1 DEF QueueShape
  <2>6. QueueShape(rest)
    BY <2>4, <2>5 DEF QueueShape
  <2>7. c.retry <= CONNECTION_MAX_RETRY
    BY <2>3 DEF AttemptOf, Attempt
  <2> HIDE DEF rest
  <2>8. ASSUME NEW b \in BOOLEAN PROVE Attempt(rest, b, c.retry)
    BY <2>1, <2>2, <2>4, <2>6, <2>7, BoundsAssumption DEF Attempt
  <2>9. /\ next \in Members /\ ModesOf(next) /\ next.queue = rest
        /\ next.handshakeTimer \in BOOLEAN /\ next.retry = c.retry
    BY <2>2 DEF Members, ModesOf, CancelOf
  <2> HIDE DEF next
  <2>10. /\ next.queue # <<>> /\ QueueShape(next.queue)
         /\ Attempt(next.queue, TRUE, next.retry)
         /\ Attempt(next.queue, next.handshakeTimer, next.retry)
    BY <2>2, <2>6, <2>8, <2>9
  <2> QED  BY <2>9, <2>10, ActivateNextSound DEF next, rest
<1> QED  BY <1>1, ConnectionEstablishedSound DEF OnConnected

\* implInitialized() keeps the invariant, even with an attempt in progress.
LEMMA OnInitializedSound ==
    ASSUME NEW c \in Members, AttemptOf(c), ModesOf(c), NEW status, NEW connected
    PROVE  AttemptOf(OnInitialized(c, status, connected))
           /\ ModesOf(OnInitialized(c, status, connected))
<1> DEFINE next == ProcessNextStep(c)
           on   == SetState(next, "On")
           set  == [on EXCEPT !.connectedTime = TRUE, !.timer = TRUE]
<1>1. next \in Members /\ AttemptOf(next) /\ ModesOf(next)
  BY ProcessNextStepType, Kept DEF AttemptOf, ModesOf, CancelOf, SameAttempt, SameModes
<1> HIDE DEF next
<1>2. ASSUME NEW d \in Members, AttemptOf(d), ModesOf(d), NEW s \in {"Off", "On"}
      PROVE  SetState(d, s) \in Members /\ AttemptOf(SetState(d, s)) /\ ModesOf(SetState(d, s))
  <2>1. s \in States /\ s # "OnPartial"
    BY DEF States
  <2> QED  BY <1>2, <2>1, SetStateType, SetStateModes, Kept DEF AttemptOf, ModesOf, SameAttempt
<1>3. on \in Members /\ AttemptOf(on) /\ ModesOf(on)
  BY <1>1, <1>2
<1> HIDE DEF on
<1>4. AttemptOf(set) /\ ModesOf(set)
  BY <1>3 DEF Members, AttemptOf, ModesOf, CancelOf
<1> QED  BY <1>1, <1>2, <1>4 DEF OnInitialized, on, next

\* handshakeTimeout() keeps the invariant: the count it raises is below the maximum
\* for an attempt it restarts, and at most one above it for one it gives up.
LEMMA OnHandshakeTimeoutSound ==
    ASSUME NEW c \in Members, AttemptOf(c), ModesOf(c),
           Attempt(c.queue, TRUE, c.retry), c.handshakeTimer = FALSE,
           NEW ready \in BOOLEAN, NEW w \in Worlds
    PROVE  /\ AttemptOf(OnHandshakeTimeout(c, ready, w))
           /\ ModesOf(OnHandshakeTimeout(c, ready, w))
<1> DEFINE retried == [c EXCEPT !.retry = @ + 1]
<1>1. c.retry \in Nat /\ c.queue \in Seq(Hop) /\ c.initiator \in Principals
  BY DEF Members
<1>2. /\ retried \in Members /\ ModesOf(retried)
      /\ retried.queue = c.queue /\ retried.handshakeTimer = FALSE
      /\ retried.retry = c.retry + 1
      /\ retried.state = c.state
  <2>1. c.retry + 1 \in Nat
    BY <1>1
  <2> QED  BY <2>1 DEF Members, ModesOf, CancelOf
<1>3. Attempt(c.queue, FALSE, c.retry + 1)
  <2>1. Len(c.queue) \in Nat
    BY <1>1
  <2> QED  BY <1>1, <2>1, BoundsAssumption DEF Attempt
<1>4. AttemptOf(retried)
  <2> HIDE DEF retried
  <2> QED  BY <1>2, <1>3, Zenon DEF AttemptOf
<1> HIDE DEF retried
<1>5. AttemptOf(ServerUnavailable(retried)) /\ ModesOf(ServerUnavailable(retried))
  BY <1>2, <1>4, Kept
     DEF ServerUnavailable, Signals, AttemptOf, ModesOf, CancelOf, SameAttempt, SameModes
<1>6. ASSUME retried.retry = 1 \/ retried.retry < CONNECTION_MAX_RETRY
      PROVE  LET d == ActivateInternal(retried, "RandomizeServerSelection", c.initiator, w)
             IN  AttemptOf(d) /\ ModesOf(d)
  <2>1. retried.retry < CONNECTION_MAX_RETRY
    BY <1>6, BoundsAssumption
  <2>2. retried.state = "OnPartial" => c.initiator = "ExtensionUser"
    BY <1>2 DEF ModesOf
  <2> QED  BY <1>1, <1>2, <2>1, <2>2, ActivateInternalSound
<1>7. /\ AttemptOf(Deactivate(c, "ClientUser", ready, w))
      /\ ModesOf(Deactivate(c, "ClientUser", ready, w))
  BY DeactivateSound
<1> QED  BY <1>5, <1>6, <1>7 DEF OnHandshakeTimeout, retried

\* quit() keeps the invariant.
LEMMA OnQuitSound ==
    ASSUME NEW c \in Members, AttemptOf(c), ModesOf(c), NEW ready \in BOOLEAN, NEW w \in Worlds
    PROVE  AttemptOf(OnQuit(c, ready, w)) /\ ModesOf(OnQuit(c, ready, w))
<1> DEFINE quitting == [c EXCEPT !.nextStep = "Quit"]
<1>1. quitting \in Members /\ AttemptOf(quitting) /\ ModesOf(quitting)
  BY DEF Members, NextSteps, AttemptOf, ModesOf, CancelOf
<1> HIDE DEF quitting
<1>2. AttemptOf(Emit(quitting, {"readyToQuit"})) /\ ModesOf(Emit(quitting, {"readyToQuit"}))
  BY <1>1, Kept DEF Signals, AttemptOf, ModesOf, CancelOf, SameAttempt, SameModes
<1>3. /\ AttemptOf(Deactivate(quitting, "ClientUser", ready, w))
      /\ ModesOf(Deactivate(quitting, "ClientUser", ready, w))
  BY <1>1, DeactivateSound
<1> QED  BY <1>1, <1>2, <1>3 DEF OnQuit, quitting

\* updateRequired() keeps the invariant.
LEMMA OnUpdateRequiredSound ==
    ASSUME NEW c \in Members, AttemptOf(c), ModesOf(c), NEW ready \in BOOLEAN, NEW w \in Worlds
    PROVE  AttemptOf(OnUpdateRequired(c, ready, w)) /\ ModesOf(OnUpdateRequired(c, ready, w))
<1> DEFINE updating == [c EXCEPT !.nextStep = "Update"]
<1>1. updating \in Members /\ AttemptOf(updating) /\ ModesOf(updating)
  BY DEF Members, NextSteps, AttemptOf, ModesOf, CancelOf
<1> HIDE DEF updating
<1>2. AttemptOf(Emit(c, {"readyToUpdate"})) /\ ModesOf(Emit(c, {"readyToUpdate"}))
  BY Kept DEF Signals, AttemptOf, ModesOf, CancelOf, SameAttempt, SameModes
<1>3. /\ AttemptOf(Deactivate(updating, "ClientUser", ready, w))
      /\ ModesOf(Deactivate(updating, "ClientUser", ready, w))
  BY <1>1, DeactivateSound
<1> QED  BY <1>1, <1>2, <1>3 DEF OnUpdateRequired, updating

-----------------------------------------------------------------------------
\* The invariant holds once the Controller is constructed.
LEMMA InitInv == Init => Inv
<1> SUFFICES ASSUME Init PROVE Inv
  OBVIOUS
<1>1. TypeOK
  BY InitType
<1>2. /\ ctl.queue = <<>> /\ ctl.handshakeTimer = FALSE /\ ctl.retry = 0
      /\ ctl.state = "Initializing"
      /\ ctl.connectingTimer = FALSE /\ ctl.enableDisconnectInConfirming = FALSE
  BY DEF Init, Constructed
<1>3. AttemptOf(ctl)
  <2>1. Attempt(<<>>, FALSE, 0)
    BY EmptyAttempt
  <2> QED  BY <1>2, <2>1, Zenon DEF AttemptOf
<1>4. ModesOf(ctl)
  BY <1>2 DEF ModesOf, CancelOf
<1> QED  BY <1>1, <1>3, <1>4 DEF Inv

\* Every handler keeps the invariant.
LEMMA NextInv == Inv /\ [Next]_vars => Inv'
<1> SUFFICES ASSUME Inv, [Next]_vars PROVE Inv'
  OBVIOUS
<1>1. TypeOK'
  BY NextType DEF Inv
<1> DEFINE Good == AttemptOf(ctl)' /\ ModesOf(ctl)'
<1> SUFFICES Good
  BY <1>1 DEF Inv
<1>2. ctl \in Members /\ Fresh \in Members
  BY FreshType DEF Inv, TypeOK
<1>3. /\ SameAttempt(ctl, Fresh) /\ SameModes(ctl, Fresh)
      /\ AttemptOf(Fresh) /\ ModesOf(Fresh)
  <2>1. SameAttempt(ctl, Fresh) /\ SameModes(ctl, Fresh)
    BY <1>2 DEF Fresh, Members, SameAttempt, SameModes
  <2> QED  BY <2>1 DEF Inv, AttemptOf, ModesOf, CancelOf, SameAttempt, SameModes
<1> SUFFICES ASSUME NEW c, c = Fresh, c \in Members, AttemptOf(c), ModesOf(c),
                    SameAttempt(ctl, c), SameModes(ctl, c)
             PROVE  Good
  BY <1>2, <1>3
<1>4. CASE UNCHANGED vars
  BY <1>4 DEF vars, Inv, AttemptOf, ModesOf, CancelOf
<1>5. ASSUME NEW d, ctl' = d, AttemptOf(d), ModesOf(d) PROVE Good
  BY <1>5 DEF AttemptOf, ModesOf, CancelOf
<1> HIDE DEF Good
<1>6. ASSUME NEW loc \in Locations, Initialize(loc) PROVE Good
  <2> DEFINE d == [c EXCEPT !.server = ServerDataOf(loc), !.next = ServerDataOf(loc)]
  <2>1. AttemptOf(d) /\ ModesOf(d)
    BY DEF Members, AttemptOf, ModesOf, CancelOf
  <2>2. ctl' = d
    BY <1>6 DEF Initialize
  <2> HIDE DEF d
  <2> QED  BY <1>5, <2>1, <2>2
<1>7. ASSUME NEW loc \in Locations, NEW user \in Users, NEW reachable \in BOOLEAN,
             NEW w \in Worlds, UserActivate(loc, user, reachable, w)
      PROVE  Good
  <2>1. user \in Principals
    BY DEF Users, Principals
  <2> QED  BY <1>5, <1>7, <2>1, ServerDataOfType, ActivateSound DEF UserActivate
<1>8. ASSUME NEW user \in Users, NEW proceed \in BOOLEAN, NEW w \in Worlds,
             AccountReply(user, proceed, w)
      PROVE  Good
  <2> DEFINE answered == [c EXCEPT !.requests[user] = @ - 1]
  <2>1. user \in Principals
    BY DEF Users, Principals
  <2>2. c.requests = ctl.requests /\ c.requests \in [Users -> Nat]
    BY <1>2 DEF Fresh, Members
  <2>3. [c.requests EXCEPT ![user] = @ - 1] \in [Users -> Nat]
    BY <1>8, <2>2 DEF AccountReply
  <2>4. answered \in Members
    BY <2>3 DEF Members
  <2>5. AttemptOf(answered) /\ ModesOf(answered)
    BY DEF Members, AttemptOf, ModesOf, CancelOf
  <2>6. ctl' = IF proceed
               THEN StartActivation(answered, "RandomizeServerSelection", user, w)
               ELSE answered
    BY <1>8 DEF AccountReply
  <2> HIDE DEF answered
  <2> QED  BY <1>5, <2>1, <2>4, <2>5, <2>6, StartActivationSound
<1>9. ASSUME NEW user \in Users, NEW ready \in BOOLEAN, NEW w \in Worlds,
             UserDeactivate(user, ready, w)
      PROVE  Good
  BY <1>5, <1>9, DeactivateSound DEF UserDeactivate
<1>10. ASSUME NEW loc \in Locations, NEW ready \in BOOLEAN, NEW w \in Worlds,
              UserSwitch(loc, ready, w)
       PROVE  Good
  BY <1>5, <1>10, ServerDataOfType, SwitchToSound DEF UserSwitch, Policies
<1>11. ASSUME NEW cooldown \in BOOLEAN, NEW ready \in BOOLEAN, NEW w \in Worlds,
              SilentSwitch(cooldown, ready, w)
       PROVE  Good
  <2>1. ctl.server \in ServerData
    BY <1>2 DEF Members
  <2> QED  BY <1>5, <1>11, <2>1, SwitchToSound DEF SilentSwitch, Policies
<1>12. ASSUME NEW ready \in BOOLEAN, NEW w \in Worlds, Quit(ready, w) PROVE Good
  BY <1>5, <1>12, OnQuitSound DEF Quit
<1>13. ASSUME NEW ready \in BOOLEAN, NEW w \in Worlds, UpdateRequired(ready, w)
       PROVE  Good
  BY <1>5, <1>13, OnUpdateRequiredSound DEF UpdateRequired
<1>14. ASSUME NEW present \in BOOLEAN, CaptivePortal(present) PROVE Good
  <2> DEFINE d == [c EXCEPT !.portalDetected = present]
  <2>1. AttemptOf(d) /\ ModesOf(d)
    BY DEF Members, AttemptOf, ModesOf, CancelOf
  <2>2. ctl' = d
    BY <1>14 DEF CaptivePortal
  <2> HIDE DEF d
  <2> QED  BY <1>5, <2>1, <2>2
<1>15. CASE GetStatus
  <2>1. AttemptOf(GetStatusOf(c)) /\ ModesOf(GetStatusOf(c))
    BY Kept DEF AttemptOf, ModesOf, CancelOf, SameAttempt, SameModes
  <2> QED  BY <1>5, <1>15, <2>1 DEF GetStatus
<1>16. ASSUME NEW ready \in BOOLEAN, NEW w \in Worlds, HandshakeTimeout(ready, w)
       PROVE  Good
  <2> DEFINE d == [c EXCEPT !.handshakeTimer = FALSE]
  <2>1. /\ d \in Members /\ ModesOf(d) /\ d.handshakeTimer = FALSE
        /\ d.queue = c.queue /\ d.retry = c.retry
    BY DEF Members, ModesOf, CancelOf
  <2>2. c.handshakeTimer = TRUE
    BY <1>2, <1>16 DEF HandshakeTimeout, SameAttempt, Members
  <2>3. ctl' = OnHandshakeTimeout(d, ready, w)
    BY <1>16 DEF HandshakeTimeout
  <2> HIDE DEF d
  <2>4. Attempt(c.queue, TRUE, c.retry)
    BY <2>2 DEF AttemptOf
  <2>5. Attempt(c.queue, FALSE, c.retry)
    BY <2>4 DEF Attempt
  <2>6. AttemptOf(d) /\ Attempt(d.queue, TRUE, d.retry)
    BY <2>1, <2>4, <2>5, Zenon DEF AttemptOf
  <2> QED  BY <1>5, <2>1, <2>3, <2>6, OnHandshakeTimeoutSound
<1>17. CASE ConnectingTimeout
  <2> DEFINE d == [c EXCEPT !.connectingTimer = FALSE,
                            !.enableDisconnectInConfirming = TRUE]
  <2>1. c.state = "Confirming"
    BY <1>17 DEF ConnectingTimeout, SameModes, ModesOf, CancelOf
  <2>2. AttemptOf(d) /\ ModesOf(d)
    BY <2>1 DEF Members, AttemptOf, ModesOf, CancelOf
  <2>3. ctl' = d
    BY <1>17 DEF ConnectingTimeout
  <2> HIDE DEF d
  <2> QED  BY <1>5, <2>2, <2>3
<1>18. ASSUME NEW status \in BOOLEAN, NEW connected \in BOOLEAN,
              ImplInitialized(status, connected)
       PROVE  Good
  BY <1>5, <1>18, OnInitializedSound DEF ImplInitialized
<1>19. ASSUME NEW key \in Servers, NEW w \in Worlds, ImplConnected(key, w) PROVE Good
  BY <1>5, <1>19, OnConnectedSound DEF ImplConnected
<1>20. ASSUME NEW w \in Worlds, ImplDisconnected(w) \/ ImplLost(w) PROVE Good
  BY <1>5, <1>20, OnDisconnectedSound DEF ImplDisconnected, ImplLost
<1>21. CASE ImplStatusUpdated
  <2> DEFINE d == [c EXCEPT !.statusCallbacks = FALSE]
  <2>1. AttemptOf(d) /\ ModesOf(d)
    BY DEF Members, AttemptOf, ModesOf, CancelOf
  <2>2. ctl' = d
    BY <1>21 DEF ImplStatusUpdated
  <2> HIDE DEF d
  <2> QED  BY <1>5, <2>1, <2>2
<1> QED  BY <1>4, <1>6, <1>7, <1>8, <1>9, <1>10, <1>11, <1>12, <1>13, <1>14, <1>15,
            <1>16, <1>17, <1>18, <1>19, <1>20, <1>21
         DEF Next, UserNext, ReplyNext, TimerNext, ImplNext

\* Inv is an invariant of the specification.
LEMMA InvHolds == Spec => []Inv
BY InitInv, NextInv, PTL DEF Spec

\* Whenever handshakeTimeout() can run, the queue it dereferences has a hop and its
\* last hop is no entry hop: the assertions of controller.cpp:286 and 303 hold for
\* every interleaving of users, replies, timers and signals.
THEOREM HandshakeTimerSafe == Spec => []HandshakeTimerHasHop
<1>1. Inv => HandshakeTimerHasHop
  <2>1. Len(<<>>) = 0
    OBVIOUS
  <2> QED  BY <2>1 DEF Inv, AttemptOf, Attempt, QueueShape, HandshakeTimerHasHop
<1> QED  BY <1>1, InvHolds, PTL

\* An attempt whose servers never answer is given up: the retry counter never
\* exceeds CONNECTION_MAX_RETRY + 1.
THEOREM RetriesBounded == Spec => []RetryBounded
<1>1. Inv => RetryBounded
  BY DEF Inv, AttemptOf, Attempt, RetryBounded
<1> QED  BY <1>1, InvHolds, PTL

\* The OnPartial state is only shown for a tunnel the extension asked for.
THEOREM PartialBelongsToExtension == Spec => []PartialIsExtension
<1>1. Inv => PartialIsExtension
  BY DEF Inv, ModesOf, PartialIsExtension
<1> QED  BY <1>1, InvHolds, PTL

\* A user looking at Confirming can cancel now or once m_connectingTimer fires, and
\* the flag never leaks into another state.
THEOREM ConfirmingCanBeCancelled == Spec => []CancelBecomesPossible
<1>1. Inv => CancelBecomesPossible
  BY DEF Inv, ModesOf, CancelOf, CancelBecomesPossible
<1> QED  BY <1>1, InvHolds, PTL

-----------------------------------------------------------------------------
\* What is announced, and the order of the hops.

\* The announcements of a handler that began in state s: moves, one after the other,
\* to the state the Controller is in now.
Told(s, c) ==
    /\ View!Walk(s, c.announced)
    /\ c.state = View!Last(s, c.announced)

\* A call that starts the exit hop of two, and a handler that has made none.
StartsExit(call) == call.op = "activate" /\ call.hop.type = "MultiHopExit"
NoExit(c) == \A i \in DOMAIN c.calls : ~StartsExit(c.calls[i])

\* A method that announces moves only, and never Initializing again ...
Walks(c, r) ==
    /\ \A s : Told(s, c) => Told(s, r)
    /\ r.state = "Initializing" => c.state = "Initializing"

\* ... and starts no exit hop.
Quiet(c, r) == Walks(c, r) /\ (NoExit(c) => NoExit(r))

\* Members that agree in the state and in what the handler has done so far.
SameShow(c, d) == d.state = c.state /\ d.announced = c.announced /\ d.calls = c.calls

LEMMA QuietSame ==
    ASSUME NEW c, NEW d, SameShow(c, d)
    PROVE  Quiet(c, d)
BY DEF SameShow, Quiet, Walks, Told, NoExit

LEMMA WalksTransitive ==
    ASSUME NEW b, NEW c, NEW r, Walks(b, c), Walks(c, r)
    PROVE  Walks(b, r)
BY DEF Walks

LEMMA QuietTransitive ==
    ASSUME NEW b, NEW c, NEW r, Quiet(b, c), Quiet(c, r)
    PROVE  Quiet(b, r)
BY WalksTransitive DEF Quiet

\* One more announcement at the end of a walk.
LEMMA WalkOn ==
    ASSUME NEW steps \in Seq(States), NEW s, NEW t \in States,
           View!Walk(s, steps), View!CanMove(View!Last(s, steps), t)
    PROVE  /\ View!Walk(s, Append(steps, t))
           /\ View!Last(s, Append(steps, t)) = t
<1> DEFINE n == Len(steps)
           longer == Append(steps, t)
<1>1. /\ n \in Nat /\ Len(longer) = n + 1 /\ longer[n + 1] = t
      /\ \A i \in 1..n : longer[i] = steps[i]
  OBVIOUS
<1>2. longer # <<>> /\ (steps = <<>> <=> n = 0)
  <2>1. longer \in Seq(States) /\ Len(longer) # 0
    BY <1>1
  <2>. QED  BY <2>1, EmptySeq
<1> HIDE DEF n, longer
<1>3. View!Last(s, longer) = t
  BY <1>1, <1>2 DEF View!Last
<1>4. ASSUME NEW i \in 1..n
      PROVE  View!CanMove(View!Before(s, longer, i), longer[i])
  <2>1. View!CanMove(View!Before(s, steps, i), steps[i])
    BY <1>4 DEF View!Walk, n
  <2>2. i = 1 \/ i - 1 \in 1..n
    BY <1>1, <1>4
  <2>3. View!Before(s, longer, i) = View!Before(s, steps, i)
    BY <1>1, <2>2 DEF View!Before
  <2>. QED  BY <1>1, <1>4, <2>1, <2>3
<1>5. View!CanMove(View!Before(s, longer, n + 1), longer[n + 1])
  <2>1. View!Before(s, longer, n + 1) = View!Last(s, steps)
    <3>1. CASE n = 0
      BY <1>2, <3>1 DEF View!Before, View!Last
    <3>2. CASE n # 0
      <4>1. n + 1 # 1 /\ (n + 1) - 1 = n /\ n \in 1..n
        BY <1>1, <3>2
      <4>2. View!Before(s, longer, n + 1) = steps[n]
        BY <1>1, <4>1 DEF View!Before
      <4>3. View!Last(s, steps) = steps[n]
        BY <1>2, <3>2 DEF View!Last, n
      <4>. QED  BY <4>2, <4>3
    <3>. QED  BY <3>1, <3>2
  <2>. QED  BY <1>1, <2>1
<1>6. \A i \in 1..(n + 1) : i \in 1..n \/ i = n + 1
  BY <1>1
<1>7. View!Walk(s, longer)
  BY <1>1, <1>4, <1>5, <1>6 DEF View!Walk
<1>. QED  BY <1>3, <1>7 DEF longer

\* The moves that need little or no argument about the state they start in.
LEMMA FreeMoves ==
    ASSUME NEW s \in States, NEW d, d # s,
           \/ d \in {"Off", "Connecting", "Confirming", "On"}
           \/ d = "OnPartial" /\ s # "Initializing"
           \/ d = "Disconnecting" /\ s \in {"On", "OnPartial", "Connecting", "Confirming"}
           \/ d = "Switching" /\ s # "Off"
           \/ d = "SilentSwitching" /\ s = "On"
    PROVE  View!CanMove(s, d)
BY DEF States, View!CanMove, View!Moves, View!ControllerState, View!TunnelUp

\* setState() announces a move, or changes nothing.
LEMMA SetStateQuiet ==
    ASSUME NEW c \in Members, NEW d \in States \ {"Initializing"},
           \/ d = c.state
           \/ d \in {"Off", "Connecting", "Confirming", "On"}
           \/ d = "OnPartial" /\ c.state # "Initializing"
           \/ d = "Disconnecting"
              /\ c.state \in {"On", "OnPartial", "Connecting", "Confirming"}
           \/ d = "Switching" /\ c.state # "Off"
           \/ d = "SilentSwitching" /\ c.state = "On"
    PROVE  /\ Quiet(c, SetState(c, d)) /\ SetState(c, d) \in Members
           /\ SetState(c, d).state = d /\ SetState(c, d).queue = c.queue
<1> DEFINE r == SetState(c, d)
<1>1. r \in Members /\ r.state = d /\ r.queue = c.queue /\ r.calls = c.calls
  BY SetStateType DEF SetState, Members
<1>2. r.announced = IF d = c.state THEN c.announced ELSE Append(c.announced, d)
  BY DEF SetState, Members
<1>3. c.state \in States /\ c.announced \in Seq(States)
  BY DEF Members
<1> HIDE DEF r
<1>4. ASSUME NEW s, Told(s, c) PROVE Told(s, r)
  <2>1. CASE d = c.state
    BY <1>1, <1>2, <1>4, <2>1 DEF Told
  <2>2. CASE d # c.state
    <3>1. View!CanMove(c.state, d)
      BY <1>3, <2>2, FreeMoves
    <3>2. View!Walk(s, c.announced) /\ c.state = View!Last(s, c.announced)
      BY <1>4 DEF Told
    <3>3. /\ View!Walk(s, Append(c.announced, d))
          /\ View!Last(s, Append(c.announced, d)) = d
      BY <1>3, <3>1, <3>2, WalkOn
    <3>. QED  BY <1>1, <1>2, <2>2, <3>3 DEF Told
  <2>. QED  BY <2>1, <2>2
<1>5. Quiet(c, r)
  BY <1>1, <1>4 DEF Quiet, Walks, NoExit
<1>. QED  BY <1>1, <1>5 DEF r

\* What the small methods leave alone.
LEMMA ShowKept ==
    ASSUME NEW c \in Members
    PROVE  /\ \A signals : SameShow(c, Emit(c, signals))
           /\ SameShow(c, ClearRetryCounter(c))
           /\ SameShow(c, ProcessNextStep(c))
           /\ SameShow(c, ServerUnavailable(c))
           /\ SameShow(c, ClearConnectedTime(c))
           /\ SameShow(c, ResetConnectedTime(c))
           /\ SameShow(c, AbandonAttempt(c))
BY DEF Members, SameShow, Emit, ClearRetryCounter, ProcessNextStep, ServerUnavailable,
       ClearConnectedTime, ResetConnectedTime, AbandonAttempt

\* A call of the platform controller goes to the end of the list.
LEMMA CallWalks ==
    ASSUME NEW c \in Members, NEW call \in ImplCalls
    PROVE  LET r == Call(c, call)
           IN  /\ Walks(c, r) /\ r.state = c.state /\ r.queue = c.queue
               /\ r.calls = Append(c.calls, call)
BY DEF Members, Call, Walks, Told

\* A call that starts no exit hop.
LEMMA AppendNoExit ==
    ASSUME NEW c \in Members, NoExit(c), NEW call \in ImplCalls, ~StartsExit(call),
           NEW d, d.calls = Append(c.calls, call)
    PROVE  NoExit(d)
<1>1. c.calls \in Seq(ImplCalls)
  BY DEF Members
<1> DEFINE s == c.calls
           n == Len(s)
<1>2. n \in Nat /\ DOMAIN Append(s, call) = 1..(n + 1) /\ Append(s, call)[n + 1] = call
  BY <1>1
<1>3. \A i \in 1..n : Append(s, call)[i] = s[i]
  BY <1>1
<1>4. DOMAIN s = 1..n
  BY <1>1
<1>5. \A i \in 1..n : ~StartsExit(s[i])
  BY <1>4 DEF NoExit
<1>6. \A i \in 1..(n + 1) : i \in 1..n \/ i = n + 1
  BY <1>2
<1> HIDE DEF n, s
<1>7. \A i \in 1..(n + 1) : ~StartsExit(Append(s, call)[i])
  BY <1>2, <1>3, <1>5, <1>6
<1>. QED  BY <1>2, <1>7 DEF NoExit, s

LEMMA CallQuiet ==
    ASSUME NEW c \in Members, NEW call \in ImplCalls, ~StartsExit(call)
    PROVE  Quiet(c, Call(c, call))
BY CallWalks, AppendNoExit DEF Quiet

\* getStatus() starts no hop.
LEMMA GetStatusOfQuiet ==
    ASSUME NEW c \in Members
    PROVE  Quiet(c, GetStatusOf(c)) /\ GetStatusOf(c).state = c.state
<1> DEFINE call == ImplCall("checkStatus", NoHop)
           b == [c EXCEPT !.statusCallbacks = TRUE]
<1>1. b \in Members /\ SameShow(c, b)
  BY DEF Members, SameShow
<1>2. call \in ImplCalls /\ ~StartsExit(call)
  BY DEF ImplCall, ImplCalls, StartsExit
<1>3. GetStatusOf(c) = IF c.statusCallbacks THEN c ELSE Call(b, call)
  BY DEF GetStatusOf
<1> HIDE DEF b, call
<1>4. Quiet(c, Call(b, call)) /\ Call(b, call).state = c.state
  BY <1>1, <1>2, CallQuiet, CallWalks, QuietSame, QuietTransitive DEF SameShow
<1>5. Quiet(c, c)
  BY QuietSame DEF SameShow
<1>. QED  BY <1>3, <1>4, <1>5

\* activateNext() starts the head of the queue, and shows at most Confirming.
LEMMA ActivateNextWalks ==
    ASSUME NEW c \in Members, c.queue # <<>>, NEW w \in Worlds
    PROVE  LET r == ActivateNext(c, w)
           IN  /\ Walks(c, r) /\ r.queue = c.queue
               /\ Head(c.queue).type # "MultiHopExit" => Quiet(c, r)
<1> DEFINE call    == ImplCall("activate", Head(c.queue))
           armed   == [c EXCEPT !.handshakeTimer = TRUE]
           started == Call(armed, call)
           shown   == SetState(started, "Confirming")
           blocked == Emit(c, {"reset"})
<1>1. call \in ImplCalls /\ (Head(c.queue).type # "MultiHopExit" => ~StartsExit(call))
  <2>1. c.queue \in Seq(Hop)
    BY DEF Members
  <2>2. Head(c.queue) \in Hop
    BY <2>1
  <2>. QED  BY <2>2 DEF ImplCall, ImplCalls, StartsExit
<1>2. armed \in Members /\ SameShow(c, armed) /\ armed.queue = c.queue
  BY DEF Members, SameShow
<1>3. SameShow(c, blocked) /\ blocked.queue = c.queue
  BY DEF SameShow, Emit, Members
<1>4. ActivateNext(c, w) \in {started, shown, blocked}
  BY DEF ActivateNext
<1> HIDE DEF call, armed, blocked
<1>5. /\ started \in Members /\ started.queue = c.queue /\ Walks(armed, started)
      /\ ~StartsExit(call) => Quiet(armed, started)
  BY <1>1, <1>2, CallType, CallWalks, CallQuiet
<1> HIDE DEF started
<1>6. Quiet(started, shown) /\ shown.queue = c.queue
  BY <1>5, SetStateQuiet DEF States
<1> HIDE DEF shown
<1>7. Quiet(c, armed) /\ Quiet(c, blocked)
  BY <1>2, <1>3, QuietSame
<1>8. Walks(c, started) /\ Walks(c, shown) /\ Walks(c, blocked)
  BY <1>5, <1>6, <1>7, WalksTransitive DEF Quiet
<1>9. ~StartsExit(call) => Quiet(c, started) /\ Quiet(c, shown)
  BY <1>5, <1>6, <1>7, QuietTransitive
<1>. QED  BY <1>1, <1>3, <1>4, <1>5, <1>6, <1>7, <1>8, <1>9

\* activateInternal() starts the first hop, never an exit hop.
LEMMA ActivateInternalQuiet ==
    ASSUME NEW c \in Members, NEW policy, NEW initiator \in Principals, NEW w \in Worlds
    PROVE  Quiet(c, ActivateInternal(c, policy, initiator, w))
<1> DEFINE loc     == c.server.loc
           exit    == ChooseServer(policy, c.server.exit, ExitServers[loc], w.exitPick, w)
           entry   == ChooseServer(policy, c.server.entry, EntryServers[loc], w.entryPick, w)
           hops    == Hops(loc, entry, exit)
           untimed == ClearConnectedTime(c)
           cleared == [untimed EXCEPT !.initiator = initiator, !.handshakeTimer = FALSE,
                                      !.queue = <<>>]
           queued  == [cleared EXCEPT !.queue = hops,
                                      !.server = [loc   |-> loc,
                                                  entry |-> Head(hops).key,
                                                  exit  |-> exit]]
           unready == [cleared EXCEPT !.nextStep = "Disconnect"]
           r       == ActivateInternal(c, policy, initiator, w)
<1>1. loc \in Locations
  BY DEF Members, ServerData
<1>2. exit \in Servers \cup {NoServer} /\ entry \in Servers \cup {NoServer}
  BY ChooseServerType
<1>3. untimed \in Members /\ SameShow(c, untimed)
  BY ClearConnectedTimeType, ShowKept
<1>4. \/ r = ServerUnavailable(cleared)
      \/ r = unready
      \/ /\ exit # NoServer /\ ~(loc \in MultihopLocations /\ entry = NoServer)
         /\ r = ActivateNext(queued, w)
  <2> HIDE DEF exit, entry, untimed
  <2>. QED  BY DEF ActivateInternal, untimed, exit, entry
<1> HIDE DEF exit, entry, untimed, r
<1>5. cleared \in Members /\ SameShow(c, cleared)
  <2>1. <<>> \in Seq(Hop)
    OBVIOUS
  <2>. QED  BY <1>3, <2>1 DEF Members, SameShow
<1> HIDE DEF cleared
<1>6. CASE r = ServerUnavailable(cleared)
  BY <1>5, <1>6, ShowKept, QuietSame, QuietTransitive DEF r
<1>7. CASE r = unready
  <2>1. SameShow(c, unready)
    BY <1>5 DEF Members, SameShow
  <2> HIDE DEF unready
  <2>. QED  BY <1>7, <2>1, QuietSame DEF r
<1>8. CASE /\ exit # NoServer /\ ~(loc \in MultihopLocations /\ entry = NoServer)
           /\ r = ActivateNext(queued, w)
  <2>1. hops \in Seq(Hop) /\ Head(hops) \in Hop /\ hops # <<>>
    BY <1>1, <1>2, <1>8, HopsType, HopsShape
  <2>2. Head(hops).type # "MultiHopExit"
    BY DEF Hops
  <2> HIDE DEF hops
  <2>3. [loc |-> loc, entry |-> Head(hops).key, exit |-> exit] \in ServerData
    BY <1>1, <1>2, <2>1 DEF ServerData, Hop
  <2>4. queued \in Members /\ queued.queue = hops /\ SameShow(c, queued)
    BY <1>5, <2>1, <2>3 DEF Members, SameShow
  <2> HIDE DEF queued
  <2>5. Quiet(queued, ActivateNext(queued, w))
    BY <2>1, <2>2, <2>4, ActivateNextWalks
  <2>. QED  BY <1>8, <2>4, <2>5, QuietSame, QuietTransitive DEF r
<1>. QED  BY <1>4, <1>6, <1>7, <1>8 DEF r

\* The tail of activate().
LEMMA StartActivationQuiet ==
    ASSUME NEW c \in Members, NEW policy, NEW initiator \in Principals, NEW w \in Worlds
    PROVE  Quiet(c, StartActivation(c, policy, initiator, w))
<1> DEFINE moved      == SetState(c, "Connecting")
           connecting == IF initiator = "ExtensionUser" THEN c ELSE moved
           ready      == ClearRetryCounter(connecting)
           r          == ActivateInternal(ready, policy, initiator, w)
<1>1. moved \in Members /\ Quiet(c, moved) /\ Quiet(c, c)
  BY SetStateQuiet, QuietSame DEF States, SameShow
<1> HIDE DEF moved
<1>2. connecting \in Members /\ Quiet(c, connecting)
  BY <1>1
<1> HIDE DEF connecting
<1>3. ready \in Members /\ Quiet(connecting, ready)
  BY <1>2, ClearRetryCounterType, ShowKept, QuietSame
<1> HIDE DEF ready
<1>4. Quiet(ready, r)
  BY <1>3, ActivateInternalQuiet
<1>5. StartActivation(c, policy, initiator, w) = r
  BY DEF StartActivation, ready, connecting, moved
<1> HIDE DEF r
<1>. QED  BY <1>2, <1>3, <1>4, <1>5, QuietTransitive

\* activate()
LEMMA ActivateQuiet ==
    ASSUME NEW c \in Members, NEW data \in ServerData, NEW initiator \in Principals,
           NEW policy, NEW reachable, NEW w \in Worlds
    PROVE  Quiet(c, Activate(c, data, initiator, policy, reachable, w))
<1> DEFINE switching == c.state \in {"Switching", "SilentSwitching"}
           accepted  == [c EXCEPT !.isSwitchingServer = switching, !.server = data]
           blocked   == [accepted EXCEPT !.portalDetected = FALSE]
           told      == Emit(blocked, {"activationBlockedForCaptivePortal"})
           asked     == [accepted EXCEPT !.requests[initiator] = @ + 1]
           started   == StartActivation(accepted, policy, initiator, w)
           r         == Activate(c, data, initiator, policy, reachable, w)
<1>1. switching \in BOOLEAN
  OBVIOUS
<1>2. r \in {c, told, accepted, asked, started}
  <2> HIDE DEF accepted
  <2>. QED  BY DEF Activate, accepted
<1> HIDE DEF switching
<1>3. accepted \in Members /\ SameShow(c, accepted)
  BY <1>1 DEF Members, SameShow
<1> HIDE DEF accepted
<1>4. blocked \in Members /\ SameShow(c, blocked) /\ SameShow(c, asked)
  BY <1>3 DEF Members, SameShow
<1> HIDE DEF blocked, asked
<1>5. SameShow(c, told) /\ SameShow(c, c)
  BY <1>4, ShowKept DEF SameShow
<1>6. Quiet(c, started)
  BY <1>3, StartActivationQuiet, QuietSame, QuietTransitive
<1> HIDE DEF told, started, r
<1>. QED  BY <1>2, <1>3, <1>4, <1>5, <1>6, QuietSame DEF r

\* disconnected() ends Off or in the activation of the server switched to.
LEMMA OnDisconnectedQuiet ==
    ASSUME NEW c \in Members, NEW w \in Worlds
    PROVE  Quiet(c, OnDisconnected(c, w))
<1> DEFINE idle    == ProcessNextStep(AbandonAttempt(c))
           nobody  == [idle EXCEPT !.initiator = "Null"]
           signals == IF c.state # "Confirming" THEN {"recordConnectionEnd"} ELSE {}
           ended   == Emit(nobody, signals)
           p       == IF c.state = "SilentSwitching" THEN c.initiator ELSE "ClientUser"
           again   == Activate(idle, c.next, p, c.nextPolicy, TRUE, w)
           r       == OnDisconnected(c, w)
<1>1. r \in {SetState(idle, "Off"), SetState(ended, "Off"), again}
  <2> HIDE DEF idle
  <2>. QED  BY DEF OnDisconnected, idle
<1>2. idle \in Members /\ SameShow(c, idle)
  <2> DEFINE a == AbandonAttempt(c)
  <2>1. a \in Members /\ SameShow(c, a)
    BY AbandonAttemptType, ShowKept
  <2> HIDE DEF a
  <2>2. ProcessNextStep(a) \in Members /\ SameShow(a, ProcessNextStep(a))
    BY <2>1, ProcessNextStepType, ShowKept
  <2>. QED  BY <2>1, <2>2 DEF SameShow, a
<1> HIDE DEF idle
<1>3. nobody \in Members /\ SameShow(c, nobody)
  BY <1>2 DEF Members, Principals, SameShow
<1> HIDE DEF nobody
<1>4. ended \in Members /\ SameShow(c, ended)
  <2>1. signals \in SUBSET Signals
    BY DEF Signals
  <2> HIDE DEF signals
  <2>. QED  BY <1>3, <2>1, EmitType, ShowKept DEF SameShow
<1> HIDE DEF ended
<1>5. ASSUME NEW d \in Members, SameShow(c, d)
      PROVE  Quiet(c, SetState(d, "Off"))
  BY <1>5, SetStateQuiet, QuietSame, QuietTransitive DEF States
<1>6. c.next \in ServerData /\ p \in Principals
  BY DEF Members, Principals
<1> HIDE DEF p
<1>7. Quiet(c, again)
  BY <1>2, <1>6, ActivateQuiet, QuietSame, QuietTransitive
<1> HIDE DEF again, r
<1>. QED  BY <1>1, <1>2, <1>4, <1>5, <1>7 DEF r

\* deactivate() announces itself for a connection or an attempt at one.
LEMMA DeactivateQuiet ==
    ASSUME NEW c \in Members, NEW user, NEW ready, NEW w \in Worlds
    PROVE  Quiet(c, Deactivate(c, user, ready, w))
<1> DEFINE dropped == [c EXCEPT !.portalDetected = FALSE]
           warned  == Emit(dropped, {"activationBlockedForCaptivePortal"})
           portal  == IF ~c.portalDetected THEN c ELSE warned
           moved   == SetState(portal, "Disconnecting")
           leaving == IF c.state \in {"Switching", "SilentSwitching"} THEN portal ELSE moved
           asked   == GetStatusOf(leaving)
           idle    == AbandonAttempt(asked)
           call    == ImplCall("deactivate", NoHop)
           r       == Deactivate(c, user, ready, w)
<1>1. \/ r = c
      \/ c.state \in DeactivatableStates /\ r \in {OnDisconnected(idle, w), Call(idle, call)}
  <2> HIDE DEF idle
  <2>. QED  BY DEF Deactivate, MayDeactivate, idle
<1>2. CASE r = c
  <2>1. Quiet(c, c)
    BY QuietSame DEF SameShow
  <2> HIDE DEF r
  <2>. QED  BY <1>2, <2>1 DEF r
<1>3. CASE /\ c.state \in DeactivatableStates
           /\ r \in {OnDisconnected(idle, w), Call(idle, call)}
  <2>1. call \in ImplCalls /\ ~StartsExit(call)
    BY DEF ImplCall, ImplCalls, StartsExit
  <2> HIDE DEF call
  <2>2. dropped \in Members /\ SameShow(c, dropped)
    BY DEF Members, SameShow
  <2> HIDE DEF dropped
  <2>3. warned \in Members /\ SameShow(c, warned)
    BY <2>2, EmitType, ShowKept DEF Signals, SameShow
  <2> HIDE DEF warned
  <2>4. portal \in Members /\ SameShow(c, portal)
    BY <2>3 DEF SameShow
  <2> HIDE DEF portal
  <2>5. ASSUME c.state \notin {"Switching", "SilentSwitching"}
        PROVE  moved \in Members /\ Quiet(portal, moved)
    <3>1. portal.state \in {"On", "OnPartial", "Connecting", "Confirming"}
      BY <1>3, <2>4, <2>5 DEF DeactivatableStates, SameShow
    <3>. QED  BY <2>4, <3>1, SetStateQuiet DEF States
  <2> HIDE DEF moved
  <2>6. leaving \in Members /\ Quiet(c, leaving)
    BY <2>4, <2>5, QuietSame, QuietTransitive
  <2> HIDE DEF leaving
  <2>7. asked \in Members /\ Quiet(c, asked)
    BY <2>6, GetStatusOfType, GetStatusOfQuiet, QuietTransitive
  <2> HIDE DEF asked
  <2>8. idle \in Members /\ Quiet(c, idle)
    BY <2>7, AbandonAttemptType, ShowKept, QuietSame, QuietTransitive
  <2> HIDE DEF idle, r
  <2>9. Quiet(idle, OnDisconnected(idle, w)) /\ Quiet(idle, Call(idle, call))
    BY <2>1, <2>8, OnDisconnectedQuiet, CallQuiet
  <2>. QED  BY <1>3, <2>8, <2>9, QuietTransitive DEF r
<1> HIDE DEF r
<1>. QED  BY <1>1, <1>2, <1>3

\* A server switch announces itself, then what deactivate() does.
LEMMA SwitchToQuiet ==
    ASSUME NEW c \in Members, NEW data \in ServerData, NEW policy \in Policies,
           NEW state \in {"Switching", "SilentSwitching"}, NEW ready \in BOOLEAN,
           NEW w \in Worlds,
           state = "Switching" => c.state # "Off",
           state = "SilentSwitching" => c.state = "On"
    PROVE  Quiet(c, SwitchTo(c, data, policy, state, ready, w))
<1> DEFINE switching == [c EXCEPT !.isSwitchingServer = TRUE,
                                  !.next = data, !.nextPolicy = policy]
           untimed   == ClearConnectedTime(switching)
           cleared   == ClearRetryCounter(untimed)
           moved     == SetState(cleared, state)
           r         == Deactivate(moved, "ClientUser", ready, w)
<1>1. switching \in Members /\ SameShow(c, switching)
  BY DEF Members, SameShow
<1> HIDE DEF switching
<1>2. untimed \in Members /\ SameShow(c, untimed)
  BY <1>1, ClearConnectedTimeType, ShowKept DEF SameShow
<1> HIDE DEF untimed
<1>3. cleared \in Members /\ SameShow(c, cleared)
  BY <1>2, ClearRetryCounterType, ShowKept DEF SameShow
<1> HIDE DEF cleared
<1>4. moved \in Members /\ Quiet(cleared, moved)
  <2>1. /\ state \in States \ {"Initializing"}
        /\ state = "Switching" => cleared.state # "Off"
        /\ state = "SilentSwitching" => cleared.state = "On"
    BY <1>3 DEF States, SameShow
  <2>. QED  BY <1>3, <2>1, SetStateQuiet
<1> HIDE DEF moved
<1>5. Quiet(moved, r)
  BY <1>4, DeactivateQuiet
<1>6. SwitchTo(c, data, policy, state, ready, w) = r
  BY DEF SwitchTo, moved, cleared, untimed, switching
<1> HIDE DEF r
<1>. QED  BY <1>3, <1>4, <1>5, <1>6, QuietSame, QuietTransitive

\* handshakeTimeout(), quit() and updateRequired().
LEMMA OnHandshakeTimeoutQuiet ==
    ASSUME NEW c \in Members, NEW ready \in BOOLEAN, NEW w \in Worlds
    PROVE  Quiet(c, OnHandshakeTimeout(c, ready, w))
<1> DEFINE retried == [c EXCEPT !.retry = @ + 1]
<1>1. retried \in Members /\ SameShow(c, retried)
  <2>1. c.retry \in Nat
    BY DEF Members
  <2>2. c.retry + 1 \in Nat
    BY <2>1
  <2>. QED  BY <2>2 DEF Members, SameShow
<1>2. c.initiator \in Principals
  BY DEF Members
<1> HIDE DEF retried
<1>3. Quiet(c, ServerUnavailable(retried))
  BY <1>1, ShowKept, QuietSame, QuietTransitive
<1>4. Quiet(c, ActivateInternal(retried, "RandomizeServerSelection", c.initiator, w))
  BY <1>1, <1>2, ActivateInternalQuiet, QuietSame, QuietTransitive
<1>5. Quiet(c, Deactivate(c, "ClientUser", ready, w))
  BY DeactivateQuiet
<1>. QED  BY <1>3, <1>4, <1>5 DEF OnHandshakeTimeout, retried

LEMMA OnQuitQuiet ==
    ASSUME NEW c \in Members, NEW ready \in BOOLEAN, NEW w \in Worlds
    PROVE  Quiet(c, OnQuit(c, ready, w))
<1> DEFINE quitting == [c EXCEPT !.nextStep = "Quit"]
<1>1. quitting \in Members /\ SameShow(c, quitting)
  BY DEF Members, NextSteps, SameShow
<1> HIDE DEF quitting
<1>2. Quiet(c, Emit(quitting, {"readyToQuit"})) /\ Quiet(c, quitting)
  BY <1>1, ShowKept, QuietSame, QuietTransitive
<1>3. Quiet(c, Deactivate(quitting, "ClientUser", ready, w))
  BY <1>1, DeactivateQuiet, QuietSame, QuietTransitive
<1>. QED  BY <1>2, <1>3 DEF OnQuit, quitting

LEMMA OnUpdateRequiredQuiet ==
    ASSUME NEW c \in Members, NEW ready \in BOOLEAN, NEW w \in Worlds
    PROVE  Quiet(c, OnUpdateRequired(c, ready, w))
<1> DEFINE updating == [c EXCEPT !.nextStep = "Update"]
<1>1. updating \in Members /\ SameShow(c, updating)
  BY DEF Members, NextSteps, SameShow
<1> HIDE DEF updating
<1>2. Quiet(c, Emit(c, {"readyToUpdate"})) /\ Quiet(c, updating)
  BY <1>1, ShowKept, QuietSame
<1>3. Quiet(c, Deactivate(updating, "ClientUser", ready, w))
  BY <1>1, DeactivateQuiet, QuietSame, QuietTransitive
<1>. QED  BY <1>2, <1>3 DEF OnUpdateRequired, updating

\* The end of connected() announces On or OnPartial, and may deactivate then.
LEMMA ConnectionEstablishedQuiet ==
    ASSUME NEW c \in Members, c.state # "Initializing", NEW ready \in BOOLEAN, NEW w \in Worlds
    PROVE  Quiet(c, ConnectionEstablished(c, ready, w))
<1> DEFINE switching == c.isSwitchingServer \/ c.state \in {"On", "OnPartial"}
           done == [c EXCEPT !.queue = <<>>, !.handshakeTimer = FALSE, !.retry = 0,
                             !.isSwitchingServer = switching]
           s    == IF c.initiator = "ExtensionUser" THEN "OnPartial" ELSE "On"
           set  == SetState(done, s)
           on   == ResetConnectedTime(set)
           loud == Emit(on, {"recordConnectionStart"})
           told == IF done.isSwitchingServer THEN on ELSE loud
           back == Deactivate(told, "ClientUser", ready, w)
           r    == ConnectionEstablished(c, ready, w)
<1>1. r \in {told, back}
  <2> HIDE DEF told
  <2>. QED  BY DEF ConnectionEstablished, told, on, set, s, done, switching
<1>2. switching \in BOOLEAN /\ <<>> \in Seq(Hop) /\ s \in {"On", "OnPartial"}
  BY DEF Members
<1> HIDE DEF switching, s
<1>3. done \in Members /\ SameShow(c, done)
  BY <1>2 DEF Members, SameShow
<1> HIDE DEF done
<1>4. set \in Members /\ Quiet(done, set)
  <2>1. done.state # "Initializing" /\ s \in States \ {"Initializing"}
    BY <1>2, <1>3 DEF SameShow, States
  <2>. QED  BY <1>2, <1>3, <2>1, SetStateQuiet
<1> HIDE DEF set
<1>5. on \in Members /\ Quiet(set, on)
  BY <1>4, ResetConnectedTimeType, ShowKept, QuietSame
<1> HIDE DEF on
<1>6. loud \in Members /\ Quiet(on, loud)
  BY <1>5, EmitType, ShowKept, QuietSame DEF Signals
<1> HIDE DEF loud
<1>7. Quiet(c, on) /\ Quiet(c, loud)
  BY <1>3, <1>4, <1>5, <1>6, QuietSame, QuietTransitive
<1>8. told \in Members /\ Quiet(c, told)
  BY <1>5, <1>6, <1>7
<1> HIDE DEF told
<1>9. Quiet(c, back)
  BY <1>8, DeactivateQuiet, QuietTransitive
<1> HIDE DEF back, r
<1>. QED  BY <1>1, <1>8, <1>9 DEF r

\* The handler of connected() may start the exit hop, as the rest of a queue of two.
ExitRest(c, r) ==
    \/ NoExit(r)
    \/ /\ Len(c.queue) = 2 /\ c.queue[1].type = "MultiHopEntry"
       /\ r.queue = <<c.queue[2]>>

\* connected()
LEMMA OnConnectedWalks ==
    ASSUME NEW c \in Members, AttemptOf(c), NoExit(c), c.state # "Initializing",
           NEW key, NEW ready \in BOOLEAN, NEW w \in Worlds
    PROVE  LET r == OnConnected(c, key, ready, w)
           IN  Walks(c, r) /\ ExitRest(c, r)
<1> DEFINE rest == Tail(c.queue)
           next == [c EXCEPT !.queue = rest]
           more == ActivateNext(next, w)
           up   == ConnectionEstablished(c, ready, w)
           r    == OnConnected(c, key, ready, w)
<1>1. r = c \/ (Len(c.queue) > 1 /\ r = more) \/ r = up
  BY DEF OnConnected
<1>2. Quiet(c, up) /\ Quiet(c, c)
  BY ConnectionEstablishedQuiet, QuietSame DEF SameShow
<1>3. ASSUME Len(c.queue) > 1
      PROVE  Walks(c, more) /\ ExitRest(c, more)
  <2>1. c.queue \in Seq(Hop)
    BY DEF Members
  <2>2. rest \in Seq(Hop) /\ rest # <<>>
    BY <1>3, <2>1, TailOfSeq
  <2>3. Len(c.queue) = 2 /\ c.queue[1].type = "MultiHopEntry"
    <3>1. QueueShape(c.queue)
      BY DEF AttemptOf, Attempt
    <3>2. c.queue # <<>>
      <4>1. Len(<<>>) = 0 /\ ~(0 > 1)
        OBVIOUS
      <4>. QED  BY <1>3, <4>1, Zenon
    <3>3. Len(c.queue) # 1
      <4>1. ~(1 > 1)
        OBVIOUS
      <4>. QED  BY <1>3, <4>1, Zenon
    <3>. QED  BY <3>1, <3>2, <3>3, Zenon DEF QueueShape
  <2>4. rest = <<c.queue[2]>>
    <3> DEFINE x == c.queue[2]
    <3>1. x \in Hop
      BY <2>1, <2>3
    <3>2. Len(rest) = 1 /\ rest[1] = x
      BY <2>1, <2>3
    <3> HIDE DEF rest, x
    <3>3. <<x>> \in Seq(Hop) /\ Len(<<x>>) = 1 /\ <<x>>[1] = x
      BY <3>1
    <3>. QED  BY <2>2, <3>2, <3>3, SeqEqual DEF x
  <2> HIDE DEF rest
  <2>5. next \in Members /\ next.queue = rest /\ SameShow(c, next)
    BY <2>2 DEF Members, SameShow
  <2> HIDE DEF next
  <2>6. Walks(next, more) /\ more.queue = rest
    BY <2>2, <2>5, ActivateNextWalks
  <2> HIDE DEF more
  <2>7. Walks(c, more)
    BY <2>5, <2>6, QuietSame, WalksTransitive DEF Quiet
  <2>. QED  BY <2>3, <2>4, <2>6, <2>7 DEF ExitRest
<1> HIDE DEF r, more, up
<1>. QED  BY <1>1, <1>2, <1>3 DEF ExitRest, Quiet, r

\* implInitialized()
LEMMA OnInitializedQuiet ==
    ASSUME NEW c \in Members, NEW status \in BOOLEAN, NEW connected \in BOOLEAN
    PROVE  Quiet(c, OnInitialized(c, status, connected))
           /\ OnInitialized(c, status, connected).state \in {"Off", "On"}
<1> DEFINE next == ProcessNextStep(c)
           off  == SetState(next, "Off")
           on   == SetState(next, "On")
           set  == [on EXCEPT !.connectedTime = TRUE, !.timer = TRUE]
           failed == SetState(c, "Off")
           r    == OnInitialized(c, status, connected)
<1>1. r \in {failed, off, set}
  <2> HIDE DEF next
  <2>. QED  BY DEF OnInitialized, next
<1>2. next \in Members /\ SameShow(c, next)
  BY ProcessNextStepType, ShowKept
<1> HIDE DEF next
<1>3. /\ on \in Members /\ Quiet(next, on) /\ on.state = "On"
      /\ Quiet(next, off) /\ off.state = "Off"
      /\ Quiet(c, failed) /\ failed.state = "Off"
  BY <1>2, SetStateQuiet DEF States
<1> HIDE DEF on, off, failed
<1>4. SameShow(on, set)
  BY <1>3 DEF Members, SameShow
<1> HIDE DEF set, r
<1>5. Quiet(c, off) /\ Quiet(c, set) /\ set.state = "On"
  BY <1>2, <1>3, <1>4, QuietSame, QuietTransitive DEF SameShow
<1>. QED  BY <1>1, <1>3, <1>5 DEF r

-----------------------------------------------------------------------------
\* Before the first answer of the platform controller the Controller is Initializing
\* at most: connected() cannot be handled in that state.
AnswerInitializes == ctl.state = "Initializing" => link = "initializing"

\* The invariant of this part.
ShowInv == Inv /\ AnswerInitializes

LEMMA InitShow == Init => ShowInv
<1> SUFFICES ASSUME Init PROVE ShowInv
  OBVIOUS
<1>1. Inv
  BY InitInv
<1>2. link = "initializing"
  BY DEF Init
<1>. QED  BY <1>1, <1>2 DEF ShowInv, AnswerInitializes

\* What every handler announces, and the hops it starts.
Shows ==
    /\ AnswerInitializes'
    /\ View!Walk(ctl.state, ctl'.announced)
    /\ ctl'.state = View!Last(ctl.state, ctl'.announced)
    /\ ExitRest(ctl, ctl')

LEMMA NextShow == ShowInv /\ Next /\ Running => Shows
<1> SUFFICES ASSUME ShowInv, Next, Running PROVE Shows
  OBVIOUS
<1>1. ctl \in Members /\ Fresh \in Members /\ link \in {"initializing", "ready", "lost"}
  BY FreshType DEF ShowInv, Inv, TypeOK
<1>2. /\ Fresh.state = ctl.state /\ Fresh.queue = ctl.queue
      /\ Fresh.server = ctl.server /\ Fresh.handshakeTimer = ctl.handshakeTimer
      /\ Fresh.retry = ctl.retry /\ Fresh.requests = ctl.requests
      /\ Fresh.announced = <<>> /\ NoExit(Fresh)
  BY <1>1 DEF Fresh, Members, NoExit
<1>3. AttemptOf(Fresh)
  BY <1>2 DEF ShowInv, Inv, AttemptOf
<1>4. Told(ctl.state, Fresh)
  <2>1. View!Last(ctl.state, <<>>) = ctl.state
    BY DEF View!Last
  <2>2. View!Walk(ctl.state, <<>>)
    BY DEF View!Walk
  <2>. QED  BY <1>2, <2>1, <2>2 DEF Told
<1> SUFFICES ASSUME NEW c, c = Fresh, c \in Members, AttemptOf(c), NoExit(c),
                    Told(ctl.state, c),
                    c.state = ctl.state, c.queue = ctl.queue,
                    c.server = ctl.server, c.requests = ctl.requests
             PROVE  Shows
  BY <1>1, <1>2, <1>3, <1>4
\* The handlers that start no exit hop.
<1>5. ASSUME NEW d, ctl' = d, Quiet(c, d),
             d.state = "Initializing" => link' = link \/ link' = "initializing"
      PROVE  Shows
  <2>1. d.state = "Initializing" => ctl.state = "Initializing"
    BY <1>5 DEF Quiet, Walks
  <2>2. AnswerInitializes'
    BY <1>5, <2>1 DEF ShowInv, AnswerInitializes
  <2>3. Told(ctl.state, d)
    BY <1>5 DEF Quiet, Walks
  <2>4. ExitRest(ctl, ctl')
    BY <1>5 DEF Quiet, ExitRest
  <2>. QED  BY <1>5, <2>2, <2>3, <2>4 DEF Shows, Told
<1>6. ASSUME NEW loc \in Locations, Initialize(loc) PROVE Shows
  <2> DEFINE d == [c EXCEPT !.server = ServerDataOf(loc), !.next = ServerDataOf(loc)]
  <2>1. SameShow(c, d)
    BY DEF Members, SameShow
  <2>2. ctl' = d /\ link' = "initializing"
    BY <1>6 DEF Initialize
  <2> HIDE DEF d
  <2>. QED  BY <1>5, <2>1, <2>2, QuietSame
<1>7. ASSUME NEW loc \in Locations, NEW user \in Users, NEW reachable \in BOOLEAN,
             NEW w \in Worlds, UserActivate(loc, user, reachable, w)
      PROVE  Shows
  <2>1. user \in Principals /\ ServerDataOf(loc) \in ServerData
    BY ServerDataOfType DEF Users, Principals
  <2> DEFINE d == Activate(c, ServerDataOf(loc), user, "RandomizeServerSelection",
                           reachable, w)
  <2>2. ctl' = d /\ link' = link
    BY <1>7 DEF UserActivate
  <2>3. Quiet(c, d)
    BY <2>1, ActivateQuiet
  <2> HIDE DEF d
  <2>. QED  BY <1>5, <2>2, <2>3
<1>8. ASSUME NEW user \in Users, NEW proceed \in BOOLEAN, NEW w \in Worlds,
             AccountReply(user, proceed, w)
      PROVE  Shows
  <2> DEFINE answered == [c EXCEPT !.requests[user] = @ - 1]
             d == IF proceed
                  THEN StartActivation(answered, "RandomizeServerSelection", user, w)
                  ELSE answered
  <2>1. user \in Principals
    BY DEF Users, Principals
  <2>2. c.requests \in [Users -> Nat]
    BY DEF Members
  <2>3. [c.requests EXCEPT ![user] = @ - 1] \in [Users -> Nat]
    BY <1>8, <2>2 DEF AccountReply
  <2>4. answered \in Members /\ SameShow(c, answered)
    BY <2>3 DEF Members, SameShow
  <2>5. ctl' = d /\ link' = link
    BY <1>8 DEF AccountReply
  <2> HIDE DEF answered
  <2>6. Quiet(c, StartActivation(answered, "RandomizeServerSelection", user, w))
    BY <2>1, <2>4, StartActivationQuiet, QuietSame, QuietTransitive
  <2>7. Quiet(c, answered)
    BY <2>4, QuietSame
  <2>8. Quiet(c, d)
    BY <2>6, <2>7
  <2> HIDE DEF d
  <2>. QED  BY <1>5, <2>5, <2>8
<1>9. ASSUME NEW user \in Users, NEW ready \in BOOLEAN, NEW w \in Worlds,
             UserDeactivate(user, ready, w)
      PROVE  Shows
  BY <1>5, <1>9, DeactivateQuiet DEF UserDeactivate
<1>10. ASSUME NEW loc \in Locations, NEW ready \in BOOLEAN, NEW w \in Worlds,
              UserSwitch(loc, ready, w)
       PROVE  Shows
  <2> DEFINE d == SwitchTo(c, ServerDataOf(loc), "RandomizeServerSelection",
                           "Switching", ready, w)
  <2>1. ctl' = d /\ link' = link /\ c.state # "Off"
    BY <1>10 DEF UserSwitch
  <2>2. Quiet(c, d)
    BY <2>1, ServerDataOfType, SwitchToQuiet DEF Policies
  <2> HIDE DEF d
  <2>. QED  BY <1>5, <2>1, <2>2
<1>11. ASSUME NEW cooldown \in BOOLEAN, NEW ready \in BOOLEAN, NEW w \in Worlds,
              SilentSwitch(cooldown, ready, w)
       PROVE  Shows
  <2> DEFINE policy == IF cooldown THEN "RandomizeServerSelection"
                       ELSE "DoNotRandomizeServerSelection"
             d == SwitchTo(c, ctl.server, policy, "SilentSwitching", ready, w)
  <2>1. ctl' = d /\ link' = link /\ c.state = "On"
    BY <1>11 DEF SilentSwitch
  <2>2. policy \in Policies
    BY DEF Policies
  <2>3. ctl.server \in ServerData
    BY <1>1 DEF Members
  <2> HIDE DEF policy
  <2>4. Quiet(c, d)
    BY <2>1, <2>2, <2>3, SwitchToQuiet
  <2> HIDE DEF d
  <2>. QED  BY <1>5, <2>1, <2>4
<1>12. ASSUME NEW ready \in BOOLEAN, NEW w \in Worlds, Quit(ready, w) PROVE Shows
  BY <1>5, <1>12, OnQuitQuiet DEF Quit
<1>13. ASSUME NEW ready \in BOOLEAN, NEW w \in Worlds, UpdateRequired(ready, w)
       PROVE  Shows
  BY <1>5, <1>13, OnUpdateRequiredQuiet DEF UpdateRequired
<1>14. ASSUME NEW present \in BOOLEAN, CaptivePortal(present) PROVE Shows
  <2> DEFINE d == [c EXCEPT !.portalDetected = present]
  <2>1. SameShow(c, d)
    BY DEF Members, SameShow
  <2>2. ctl' = d /\ link' = link
    BY <1>14 DEF CaptivePortal
  <2> HIDE DEF d
  <2>. QED  BY <1>5, <2>1, <2>2, QuietSame
<1>15. CASE GetStatus
  <2> DEFINE d == GetStatusOf(c)
  <2>1. Quiet(c, d)
    BY GetStatusOfQuiet
  <2>2. ctl' = d /\ link' = link
    BY <1>15 DEF GetStatus
  <2> HIDE DEF d
  <2>. QED  BY <1>5, <2>1, <2>2
<1>16. ASSUME NEW ready \in BOOLEAN, NEW w \in Worlds, HandshakeTimeout(ready, w)
       PROVE  Shows
  <2> DEFINE b == [c EXCEPT !.handshakeTimer = FALSE]
  <2>1. b \in Members /\ SameShow(c, b)
    BY DEF Members, SameShow
  <2>2. ctl' = OnHandshakeTimeout(b, ready, w) /\ link' = link
    BY <1>16 DEF HandshakeTimeout
  <2> HIDE DEF b
  <2>3. Quiet(c, OnHandshakeTimeout(b, ready, w))
    BY <2>1, OnHandshakeTimeoutQuiet, QuietSame, QuietTransitive
  <2>. QED  BY <1>5, <2>2, <2>3
<1>17. CASE ConnectingTimeout
  <2> DEFINE d == [c EXCEPT !.connectingTimer = FALSE,
                            !.enableDisconnectInConfirming = TRUE]
  <2>1. SameShow(c, d)
    BY DEF Members, SameShow
  <2>2. ctl' = d /\ link' = link
    BY <1>17 DEF ConnectingTimeout
  <2> HIDE DEF d
  <2>. QED  BY <1>5, <2>1, <2>2, QuietSame
<1>18. ASSUME NEW status \in BOOLEAN, NEW connected \in BOOLEAN,
              ImplInitialized(status, connected)
       PROVE  Shows
  <2> DEFINE d == OnInitialized(c, status, connected)
  <2>1. ctl' = d
    BY <1>18 DEF ImplInitialized
  <2>2. Quiet(c, d) /\ d.state \in {"Off", "On"}
    BY OnInitializedQuiet
  <2> HIDE DEF d
  <2>. QED  BY <1>5, <2>1, <2>2
<1>19. ASSUME NEW key \in Servers, NEW w \in Worlds, ImplConnected(key, w) PROVE Shows
  <2> DEFINE d == OnConnected(c, key, TRUE, w)
  <2>1. ctl' = d /\ link' = "ready" /\ link = "ready"
    BY <1>19 DEF ImplConnected
  <2>2. c.state # "Initializing"
    BY <2>1 DEF ShowInv, AnswerInitializes
  <2>3. Walks(c, d) /\ ExitRest(c, d)
    BY <2>2, OnConnectedWalks
  <2> HIDE DEF d
  <2>4. ExitRest(ctl, d)
    BY <2>3 DEF ExitRest
  <2>5. d.state # "Initializing" /\ Told(ctl.state, d)
    BY <2>2, <2>3 DEF Walks
  <2>. QED  BY <2>1, <2>4, <2>5 DEF Shows, Told, AnswerInitializes
<1>20. ASSUME NEW w \in Worlds, ImplDisconnected(w) \/ ImplLost(w) PROVE Shows
  <2> DEFINE d == OnDisconnected(c, w)
  <2>1. ctl' = d /\ (link' = link \/ (link' = "lost" /\ link # "initializing"))
    BY <1>20 DEF ImplDisconnected, ImplLost
  <2>2. Quiet(c, d)
    BY OnDisconnectedQuiet
  <2> HIDE DEF d
  <2>3. d.state = "Initializing" => ctl.state = "Initializing"
    BY <2>2 DEF Quiet, Walks
  <2>4. d.state = "Initializing" => link' = link
    BY <2>1, <2>3 DEF ShowInv, AnswerInitializes
  <2>. QED  BY <1>5, <2>1, <2>2, <2>4
<1>21. CASE ImplStatusUpdated
  <2> DEFINE d == [c EXCEPT !.statusCallbacks = FALSE]
  <2>1. SameShow(c, d)
    BY DEF Members, SameShow
  <2>2. ctl' = d /\ link' = link
    BY <1>21 DEF ImplStatusUpdated
  <2> HIDE DEF d
  <2>. QED  BY <1>5, <2>1, <2>2, QuietSame
<1> QED  BY <1>6, <1>7, <1>8, <1>9, <1>10, <1>11, <1>12, <1>13, <1>14, <1>15,
            <1>16, <1>17, <1>18, <1>19, <1>20, <1>21
         DEF Next, UserNext, ReplyNext, TimerNext, ImplNext

LEMMA NextShowInv == ShowInv /\ [Next]_vars => ShowInv'
<1> SUFFICES ASSUME ShowInv, [Next]_vars PROVE ShowInv'
  OBVIOUS
<1>1. Inv'
  BY NextInv DEF ShowInv
<1>2. CASE Next /\ Running
  BY <1>1, <1>2, NextShow DEF ShowInv, Shows
<1>3. CASE UNCHANGED vars
  BY <1>1, <1>3 DEF vars, ShowInv, AnswerInitializes
<1>. QED  BY <1>2, <1>3 DEF Next

\* ShowInv is an invariant of the specification.
LEMMA ShowInvHolds == Spec => []ShowInv
BY InitShow, NextShowInv, PTL DEF Spec

\* activateNext() starts an exit hop only in answer to the handshake of the entry hop
\* queued right before it: no retry, switch, timeout or activation reorders the hops.
THEOREM ExitHopOrdered == Spec => ExitHopFollowsEntry
<1> DEFINE Ordered == \A i \in DOMAIN ctl'.calls :
                         ctl'.calls[i].op = "activate" /\ ctl'.calls[i].hop.type = "MultiHopExit"
                         => /\ Len(ctl.queue) = 2
                            /\ ctl.queue[1].type = "MultiHopEntry"
                            /\ ctl'.queue = <<ctl.queue[2]>>
<1>1. ShowInv /\ [Next]_vars => [Ordered]_vars
  <2> SUFFICES ASSUME ShowInv, Next, Running PROVE Ordered
    BY DEF Next
  <2>1. ExitRest(ctl, ctl')
    BY NextShow DEF Shows
  <2>. QED  BY <2>1 DEF ExitRest, NoExit, StartsExit
<1>. QED  BY <1>1, ShowInvHolds, PTL DEF Spec, ExitHopFollowsEntry

\* The Controller implements ControllerView: it starts in Initializing, and every single
\* call of setState() that announces anything, those a handler makes on its way
\* included, is one of Moves from the state announced before it.  What the models of
\* ConnectionHealth and ServerLatency assume of stateChanged() is true.
THEOREM ImplementsView == Spec => FollowsMoves
<1>1. Init => View!Init
  BY DEF Init, Constructed, View!Init
<1>2. ShowInv /\ ShowInv' /\ [Next]_vars => [View!Next]_<<ctl.state, ctl.announced>>
  <2> SUFFICES ASSUME ShowInv, ShowInv', [Next]_vars,
                      ~UNCHANGED <<ctl.state, ctl.announced>>
               PROVE  View!Next
    OBVIOUS
  <2>1. Next /\ Running
    BY DEF Next, vars
  <2>2. /\ View!Walk(ctl.state, ctl'.announced)
        /\ ctl'.state = View!Last(ctl.state, ctl'.announced)
    BY <2>1, NextShow DEF Shows
  <2>3. ctl'.announced \in Seq(View!ControllerState)
    <3>1. ctl'.announced \in Seq(States)
      BY DEF ShowInv, Inv, TypeOK, Members
    <3>2. States = View!ControllerState
      BY DEF States, View!ControllerState
    <3>. QED  BY <3>1, <3>2
  <2>. QED  BY <2>2, <2>3 DEF View!Next
<1>. QED  BY <1>1, <1>2, ShowInvHolds, PTL DEF Spec, FollowsMoves, View!Spec
=============================================================================
