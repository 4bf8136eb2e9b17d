----------------------- MODULE ConnectionHealthProofs -----------------------
(***************************************************************************)
(* Proofs about ConnectionHealth, for every window of pings, every         *)
(* threshold and timeout, and every set of states of the Controller.       *)
(*                                                                         *)
(* That the pings run only with a tunnel (PingsNeedTunnel) is inductive    *)
(* with the types.  That their evidence is fresh needs it: a tunnel is     *)
(* only ever replaced from a state without one, where the pings have       *)
(* stopped, and they start again over an empty ring.                       *)
(***************************************************************************)
EXTENDS ConnectionHealth, TLAPS

Entries == {"unsent", "sent", "lost", "ok", "slow", "bogus"}

HealthMembers ==
    [stability : {"Stable", "Unstable", "NoSignal"},
     noSignal : 0..PING_TIME_NOSIGNAL,
     check : BOOLEAN, dnsTimer : BOOLEAN, dnsSocket : BOOLEAN,
     dnsInitialized : BOOLEAN, dnsAwaited : BOOLEAN,
     gateway : BOOLEAN, suspended : BOOLEAN]

HelperMembers ==
    [sender : BOOLEAN, timer : BOOLEAN, sequence : 0..(2 * PING_STATS_WINDOW),
     data : [Index -> Entries], of : [Index -> 0..1]]

Lates == {NoReply} \cup 0..(2 * PING_STATS_WINDOW)

\* The helper keeps its types, its timer has a sender, and it agrees with state
\* and tunnel.
HelperOK(p, s, t) ==
    /\ p \in HelperMembers
    /\ p.timer => p.sender
    /\ p.timer => s \in TunnelUp
    /\ p.timer => \A i \in Index : p.data[i] \in {"sent", "lost", "slow"} => p.of[i] = t

\* The inductive invariant.
Inv ==
    /\ state \in ControllerState /\ tunnel \in 0..1
    /\ {dead, getStatus, switching} \subseteq BOOLEAN
    /\ health \in HealthMembers
    /\ late \in Lates
    /\ HelperOK(helper, state, tunnel)

-----------------------------------------------------------------------------
\* What the methods do to the members of ConnectionHealth.

\* stop(), startIdle(), the restart of the timers and their parts keep the types.
LEMMA HealthTypes ==
    ASSUME NEW h \in HealthMembers
    PROVE  /\ NoTimers(h) \in HealthMembers
           /\ NoDns(h) \in HealthMembers
           /\ Stop(h) \in HealthMembers
           /\ Restarted(h) \in HealthMembers
           /\ StartIdle(h) \in HealthMembers
<1>1. 0 \in 0..PING_TIME_NOSIGNAL /\ PING_TIME_NOSIGNAL \in 0..PING_TIME_NOSIGNAL
  BY HealthAssumption
<1>2. NoTimers(h) \in HealthMembers
  BY <1>1 DEF NoTimers, HealthMembers
<1>3. ASSUME NEW g \in HealthMembers PROVE NoDns(g) \in HealthMembers
  BY DEF NoDns, HealthMembers
<1>4. Restarted(h) \in HealthMembers
  BY <1>1 DEF Restarted, HealthMembers
<1>5. Stop(h) \in HealthMembers
  BY <1>2, <1>3 DEF Stop
<1>6. StartIdle(h) \in HealthMembers
  BY <1>2 DEF StartIdle, HealthMembers
<1> QED  BY <1>2, <1>3, <1>4, <1>5, <1>6

\* A health check ends in one of the stabilities, and may ask for a switch.
LEMMA CheckupType ==
    ASSUME NEW h \in HealthMembers, NEW p, switching \in BOOLEAN, Checkup(h, p)
    PROVE  health' \in HealthMembers /\ switching' \in BOOLEAN
<1>1. Stability(h, p) \in {"Stable", "Unstable", "NoSignal"}
  BY DEF Stability
<1>2. health' \in HealthMembers
  BY <1>1 DEF Checkup, SetStability, HealthMembers
<1> QED  BY <1>2 DEF Checkup

-----------------------------------------------------------------------------
\* What the methods do to the members of PingHelper.

\* An index is what is left of a sequence number.
LEMMA IndexOf ==
    ASSUME NEW n \in Nat
    PROVE  n % PING_STATS_WINDOW \in Index
BY HealthAssumption DEF Index

\* start(): the ring is empty, and there must be a tunnel.
LEMMA HelperStartOK ==
    ASSUME NEW p, NEW s, NEW t, NEW r, NEW u, HelperOK(p, s, t), r \in TunnelUp
    PROVE  HelperOK(HelperStart(p), r, u)
<1>1. p \in HelperMembers
  BY DEF HelperOK
<1>2. NothingSent \in [Index -> Entries] /\ \A i \in Index : NothingSent[i] = "unsent"
  BY DEF NothingSent, Entries
<1>3. 0 \in 0..(2 * PING_STATS_WINDOW)
  BY HealthAssumption
<1>4. HelperStart(p) \in HelperMembers
  BY <1>1, <1>2, <1>3 DEF HelperStart, HelperMembers
<1>5. /\ HelperStart(p).sender = TRUE
      /\ HelperStart(p).data = NothingSent
  BY <1>1 DEF HelperStart, HelperMembers
<1> QED  BY <1>2, <1>4, <1>5 DEF HelperOK

\* stop(): no claim is left.
LEMMA HelperStopOK ==
    ASSUME NEW p, NEW s, NEW t, NEW r, NEW u, HelperOK(p, s, t)
    PROVE  HelperOK(HelperStop(p), r, u)
<1>1. p \in HelperMembers
  BY DEF HelperOK
<1>2. HelperStop(p) \in HelperMembers /\ HelperStop(p).timer = FALSE
  BY <1>1 DEF HelperStop, HelperMembers
<1> QED  BY <1>2 DEF HelperOK

\* A second later the pings are of the same tunnel.
LEMMA AgedOK ==
    ASSUME NEW p, NEW s, NEW t, HelperOK(p, s, t)
    PROVE  HelperOK(Aged(p), s, t)
<1> DEFINE d == [i \in Index |-> IF p.data[i] = "sent" THEN "lost" ELSE p.data[i]]
<1>1. p \in HelperMembers
  BY DEF HelperOK
<1>2. d \in [Index -> Entries]
  BY <1>1 DEF HelperMembers, Entries
<1>3. /\ Aged(p) \in HelperMembers
      /\ Aged(p).timer = p.timer /\ Aged(p).sender = p.sender
      /\ Aged(p).data = d /\ Aged(p).of = p.of
  BY <1>1, <1>2 DEF Aged, HelperMembers
<1>4. \A i \in Index : d[i] \in {"sent", "lost", "slow"}
                          => p.data[i] \in {"sent", "lost", "slow"}
  OBVIOUS
<1> QED  BY <1>3, <1>4 DEF HelperOK

\* nextPing(): the ping goes through the tunnel there is.
LEMMA NextPingOK ==
    ASSUME NEW p, NEW s, tunnel \in 0..1, HelperOK(p, s, tunnel)
    PROVE  HelperOK(NextPing(p), s, tunnel)
<1>1. p \in HelperMembers
  BY DEF HelperOK
<1>2. CASE ~p.timer
  BY <1>2 DEF NextPing
<1>3. CASE p.timer
  <2> DEFINE index == p.sequence % PING_STATS_WINDOW
             d == [p.data EXCEPT ![index] = "sent"]
             o == [p.of EXCEPT ![index] = tunnel]
             n == Successor(p.sequence)
  <2>1. p.sequence \in 0..(2 * PING_STATS_WINDOW) /\ PING_STATS_WINDOW \in Nat \ {0}
    BY <1>1, HealthAssumption DEF HelperMembers
  <2>2. index \in Index
    BY <2>1, IndexOf
  <2>3. n \in 0..(2 * PING_STATS_WINDOW)
    BY <2>1 DEF Successor
  <2>4. d \in [Index -> Entries] /\ o \in [Index -> 0..1]
    BY <1>1 DEF HelperMembers, Entries
  <2>5. NextPing(p) = [p EXCEPT !.data = d, !.of = o, !.sequence = n]
    BY <1>1, <1>3 DEF NextPing, HelperMembers
  <2> HIDE DEF n, index
  <2>6. \A i \in Index : d[i] \in {"sent", "lost", "slow"} => o[i] = tunnel
    BY <1>1, <1>3, <2>2 DEF HelperOK, HelperMembers
  <2> HIDE DEF d, o
  <2>7. /\ NextPing(p) \in HelperMembers
        /\ NextPing(p).timer = p.timer /\ NextPing(p).sender = p.sender
        /\ NextPing(p).data = d /\ NextPing(p).of = o
    BY <1>1, <2>3, <2>4, <2>5 DEF HelperMembers
  <2> QED  BY <2>6, <2>7 DEF HelperOK
<1> QED  BY <1>2, <1>3

\* pingReceived(): a reply to a ping of this tunnel, or one that counts for nothing.
LEMMA PingReceivedOK ==
    ASSUME NEW p, NEW s, NEW t, HelperOK(p, s, t), NEW index \in Index,
           NEW latency \in {"ok", "slow", "bogus"},
           latency = "slow" => p.data[index] = "lost"
    PROVE  HelperOK(PingReceived(p, index, latency), s, t)
<1> DEFINE d == [p.data EXCEPT ![index] = latency]
<1>1. p \in HelperMembers
  BY DEF HelperOK
<1>2. d \in [Index -> Entries]
  BY <1>1 DEF HelperMembers, Entries
<1>3. PingReceived(p, index, latency) = [p EXCEPT !.data = d]
  BY <1>1 DEF PingReceived, HelperMembers
<1>4. \A i \in Index : d[i] \in {"sent", "lost", "slow"}
                          => p.data[i] \in {"sent", "lost", "slow"}
  BY <1>1 DEF HelperMembers
<1> HIDE DEF d
<1>5. /\ PingReceived(p, index, latency) \in HelperMembers
      /\ PingReceived(p, index, latency).timer = p.timer
      /\ PingReceived(p, index, latency).sender = p.sender
      /\ PingReceived(p, index, latency).data = d
      /\ PingReceived(p, index, latency).of = p.of
  BY <1>1, <1>2, <1>3 DEF HelperMembers
<1> QED  BY <1>4, <1>5 DEF HelperOK

\* The reply a stopped sender may still deliver has a sequence number of the ring.
LEMMA MayBeLateType ==
    ASSUME late \in Lates, MayBeLate
    PROVE  late' \in Lates
<1>1. ASSUME NEW i \in Index PROVE SequenceOf(helper, i) \in Lates
  BY <1>1, HealthAssumption DEF SequenceOf, Lates, Index
<1> QED  BY <1>1 DEF MayBeLate

-----------------------------------------------------------------------------
\* pingSentAndReceived(): the reply is recorded and the health judged.
LEMMA ReceivedOK ==
    ASSUME Inv, NEW index \in Index, NEW latency \in {"ok", "slow", "bogus"},
           latency = "slow" => helper.data[index] = "lost",
           Received(index, latency)
    PROVE  /\ HelperOK(helper', state, tunnel)
           /\ health' \in HealthMembers
           /\ switching' \in BOOLEAN
<1>1. HelperOK(helper, state, tunnel) /\ health \in HealthMembers /\ switching \in BOOLEAN
  BY DEF Inv
<1>2. HelperOK(helper', state, tunnel)
  BY <1>1, PingReceivedOK DEF Received
<1>3. Restarted(health) \in HealthMembers
  BY <1>1, HealthTypes
<1>4. Checkup(Restarted(health), PingReceived(helper, index, latency))
  BY DEF Received
<1> QED  BY <1>1, <1>2, <1>3, <1>4, CheckupType

\* connectionStateChanged(): without a tunnel the pings stop.
LEMMA ConnectionStateChangedOK ==
    ASSUME Inv, NEW s \in ControllerState, ConnectionStateChanged(s)
    PROVE  /\ state' = s /\ getStatus' \in BOOLEAN
           /\ health' \in HealthMembers /\ late' \in Lates
           /\ s \in TunnelUp => helper' = helper
           /\ s \notin TunnelUp => \A t \in 0..1 : HelperOK(helper', s, t)
<1>1. /\ HelperOK(helper, state, tunnel) /\ health \in HealthMembers
      /\ late \in Lates /\ getStatus \in BOOLEAN
  BY DEF Inv
<1>2. CASE s \in TunnelUp
  BY <1>1, <1>2 DEF ConnectionStateChanged
<1>3. CASE s \notin TunnelUp
  <2>1. late' \in Lates
    BY <1>1, <1>3, MayBeLateType DEF ConnectionStateChanged
  <2>2. health' \in HealthMembers
    BY <1>1, <1>3, HealthTypes DEF ConnectionStateChanged
  <2>3. helper' = HelperStop(helper)
    BY <1>3 DEF ConnectionStateChanged
  <2>4. \A t \in 0..1 : HelperOK(helper', s, t)
    BY <1>1, <2>3, HelperStopOK
  <2> QED  BY <1>1, <1>3, <2>1, <2>2, <2>4 DEF ConnectionStateChanged
<1> QED  BY <1>2, <1>3

\* The constructor and initialize() leave good members.
LEMMA InitOK ==
    ASSUME Init
    PROVE  Inv
<1>1. NothingSent \in [Index -> Entries] /\ [i \in Index |-> 0] \in [Index -> 0..1]
  BY DEF NothingSent, Entries
<1>2. 0 \in 0..(2 * PING_STATS_WINDOW) /\ 0 \in 0..PING_TIME_NOSIGNAL
  BY HealthAssumption
<1>3. helper \in HelperMembers /\ helper.timer = FALSE
  BY <1>1, <1>2 DEF Init, HelperMembers
<1>4. health \in HealthMembers
  BY <1>2 DEF Init, HealthMembers
<1>5. HelperOK(helper, state, tunnel)
  BY <1>3 DEF HelperOK
<1>6. state \in ControllerState /\ tunnel \in 0..1
  BY DEF Init, ControllerState
<1>7. {dead, getStatus, switching} \subseteq BOOLEAN /\ late \in Lates
  BY DEF Init, Lates
<1> QED  BY <1>4, <1>5, <1>6, <1>7 DEF Inv

\* Every step keeps the invariant.
LEMMA StepOK ==
    ASSUME Inv, [Next]_vars
    PROVE  Inv'
<1>1. /\ state \in ControllerState /\ tunnel \in 0..1
      /\ dead \in BOOLEAN /\ getStatus \in BOOLEAN /\ switching \in BOOLEAN
      /\ health \in HealthMembers /\ late \in Lates
      /\ HelperOK(helper, state, tunnel)
  BY DEF Inv
<1>2. helper \in HelperMembers
  BY <1>1 DEF HelperOK
<1>3. ASSUME NEW s \in States, SetState(s)
      PROVE  Inv'
  <2>1. s \in ControllerState
    BY HealthAssumption
  <2>2. /\ state' = s /\ getStatus' \in BOOLEAN
        /\ health' \in HealthMembers /\ late' \in Lates
        /\ s \in TunnelUp => helper' = helper
        /\ s \notin TunnelUp => \A t \in 0..1 : HelperOK(helper', s, t)
    BY <1>3, <2>1, ConnectionStateChangedOK DEF SetState
  <2>3. tunnel' \in 0..1 /\ dead' \in BOOLEAN /\ switching' = switching
    BY <1>1, <1>3 DEF SetState
  <2>4. HelperOK(helper', s, tunnel')
    <3>1. CASE s \notin TunnelUp
      BY <3>1, <2>2, <2>3
    <3>2. CASE s \in TunnelUp /\ state \in TunnelUp
      <4>1. helper' = helper /\ tunnel' = tunnel
        BY <3>2, <2>2, <1>3 DEF SetState
      <4> QED  BY <4>1, <3>2, <1>1 DEF HelperOK
    <3>3. CASE s \in TunnelUp /\ state \notin TunnelUp
      <4>1. helper' = helper /\ ~helper.timer
        BY <3>3, <2>2, <1>1 DEF HelperOK
      <4> QED  BY <4>1, <1>2 DEF HelperOK
    <3> QED  BY <3>1, <3>2, <3>3
  <2> QED  BY <1>1, <2>1, <2>2, <2>3, <2>4 DEF Inv
<1>4. CASE SilentSwitchServers
  <2>1. tunnel' = tunnel /\ switching' = FALSE
    BY <1>4 DEF SilentSwitchServers
  <2>2. CASE ConnectionStateChanged("SilentSwitching") /\ dead' = FALSE
    <3>1. "SilentSwitching" \in ControllerState /\ "SilentSwitching" \notin TunnelUp
      BY DEF ControllerState, TunnelUp
    <3>2. /\ state' = "SilentSwitching" /\ getStatus' \in BOOLEAN
          /\ health' \in HealthMembers /\ late' \in Lates
          /\ \A t \in 0..1 : HelperOK(helper', "SilentSwitching", t)
      BY <2>2, <3>1, ConnectionStateChangedOK
    <3> QED  BY <1>1, <2>1, <2>2, <3>1, <3>2 DEF Inv
  <2>3. CASE UNCHANGED <<state, dead, health, helper, late, getStatus>>
    BY <1>1, <2>1, <2>3 DEF Inv
  <2> QED  BY <1>4, <2>2, <2>3 DEF SilentSwitchServers
<1>5. CASE StatusUpdated
  <2>1. late' \in Lates /\ getStatus' = FALSE
        /\ UNCHANGED <<state, tunnel, dead, switching>>
    BY <1>1, <1>5, MayBeLateType DEF StatusUpdated
  <2>2. Stop(health) \in HealthMembers
    BY <1>1, HealthTypes
  <2>3. Restarted(Stop(health)) \in HealthMembers
    BY <2>2, HealthTypes
  <2>4. [Restarted(Stop(health)) EXCEPT !.gateway = TRUE] \in HealthMembers
    BY <2>3 DEF HealthMembers
  <2>5. health' \in HealthMembers
    BY <1>5, <2>2, <2>4 DEF StatusUpdated
  <2>6. HelperOK(helper', state, tunnel)
    BY <1>1, <1>5, HelperStartOK, HelperStopOK DEF StatusUpdated, MayStartActive
  <2> QED  BY <1>1, <2>1, <2>5, <2>6 DEF Inv
<1>6. CASE Suspend
  <2>1. late' \in Lates /\ UNCHANGED <<state, tunnel, dead, getStatus, switching>>
    BY <1>1, <1>6, MayBeLateType DEF Suspend
  <2>2. Stop(health) \in HealthMembers
    BY <1>1, HealthTypes
  <2>3. health' \in HealthMembers
    BY <1>6, <2>2 DEF Suspend, HealthMembers
  <2>4. HelperOK(helper', state, tunnel)
    BY <1>1, <1>6, HelperStopOK DEF Suspend
  <2> QED  BY <1>1, <2>1, <2>3, <2>4 DEF Inv
<1>7. CASE Resume
  <2>1. late' \in Lates /\ UNCHANGED <<state, tunnel, dead, getStatus, switching>>
    BY <1>1, <1>7, MayBeLateType DEF Resume
  <2>2. NoDns(Restarted(health)) \in HealthMembers
    <3>1. Restarted(health) \in HealthMembers
      BY <1>1, HealthTypes
    <3> QED  BY <3>1, HealthTypes
  <2>3. CASE health.gateway /\ MayStartActive(state)
    <3>1. health' \in HealthMembers
      BY <1>7, <2>2, <2>3 DEF Resume, HealthMembers
    <3>2. HelperOK(helper', state, tunnel)
      BY <1>1, <1>7, <2>3, HelperStartOK DEF Resume, MayStartActive
    <3> QED  BY <1>1, <2>1, <3>1, <3>2 DEF Inv
  <2>4. CASE ~(health.gateway /\ MayStartActive(state))
    <3>1. health' \in HealthMembers /\ helper' = helper
      BY <1>1, <1>7, <2>4 DEF Resume, HealthMembers
    <3> QED  BY <1>1, <2>1, <3>1 DEF Inv
  <2> QED  BY <2>3, <2>4
<1>8. CASE PingReply
  <2>1. UNCHANGED <<state, tunnel, dead, late, getStatus>>
    BY <1>8 DEF PingReply
  <2>2. /\ HelperOK(helper', state, tunnel)
        /\ health' \in HealthMembers /\ switching' \in BOOLEAN
    BY <1>8, ReceivedOK DEF PingReply
  <2> QED  BY <1>1, <2>1, <2>2 DEF Inv
<1>9. CASE LateReply
  <2> DEFINE index == late % PING_STATS_WINDOW
  <2>1. UNCHANGED <<state, tunnel, dead, getStatus>> /\ late' = NoReply
    BY <1>9 DEF LateReply
  <2>2. late \in Nat
    BY <1>1, <1>9, HealthAssumption DEF LateReply, Lates
  <2>3. index \in Index
    BY <2>2, IndexOf
  <2>4. \/ Received(index, "ok") \/ Received(index, "bogus")
        \/ UNCHANGED <<helper, health, switching>>
    BY <1>9 DEF LateReply
  <2>5. /\ HelperOK(helper', state, tunnel)
        /\ health' \in HealthMembers /\ switching' \in BOOLEAN
    <3>1. CASE Received(index, "ok")
      BY <2>3, <3>1, ReceivedOK
    <3>2. CASE Received(index, "bogus")
      BY <2>3, <3>2, ReceivedOK
    <3>3. CASE UNCHANGED <<helper, health, switching>>
      BY <1>1, <3>3
    <3> QED  BY <2>4, <3>1, <3>2, <3>3
  <2> QED  BY <1>1, <2>1, <2>5 DEF Inv, Lates
<1>10. CASE Tick
  <2> DEFINE aged   == Aged(helper)
             pinged == NextPing(aged)
             waited == [health EXCEPT !.noSignal = IF @ > 0 THEN @ - 1 ELSE 0]
  <2>1. UNCHANGED <<state, tunnel, dead, late, getStatus>> /\ helper' = pinged
    BY <1>10 DEF Tick
  <2>2. HelperOK(aged, state, tunnel)
    BY <1>1, AgedOK
  <2>3. HelperOK(pinged, state, tunnel)
    BY <1>1, <2>2, NextPingOK
  <2>4. waited \in HealthMembers
    <3>1. (IF health.noSignal > 0 THEN health.noSignal - 1 ELSE 0) \in 0..PING_TIME_NOSIGNAL
      BY <1>1, HealthAssumption DEF HealthMembers
    <3> QED  BY <1>1, <3>1 DEF HealthMembers
  <2>5. \/ Checkup(waited, aged) \/ Checkup(waited, pinged)
        \/ health' = waited /\ switching' = switching
    BY <1>10 DEF Tick
  <2> HIDE DEF aged, pinged, waited
  <2>6. health' \in HealthMembers /\ switching' \in BOOLEAN
    BY <1>1, <2>4, <2>5, CheckupType
  <2> QED  BY <1>1, <2>1, <2>3, <2>6 DEF Inv
<1>11. CASE SendDnsPing \/ DnsPingError \/ DnsPingReceived
  <2>1. UNCHANGED <<state, tunnel, dead, helper, late, getStatus, switching>>
    BY <1>11 DEF SendDnsPing, DnsPingError, DnsPingReceived
  <2>2. health' \in HealthMembers
    BY <1>1, <1>11 DEF SendDnsPing, DnsPingError, DnsPingReceived, HealthMembers
  <2> QED  BY <1>1, <2>1, <2>2 DEF Inv
<1>12. CASE Dies
  BY <1>1, <1>12 DEF Dies, Inv
<1>13. CASE UNCHANGED vars
  BY <1>1, <1>13 DEF vars, Inv
<1> QED  BY <1>3, <1>4, <1>5, <1>6, <1>7, <1>8, <1>9, <1>10, <1>11, <1>12, <1>13 DEF Next

\* The invariant holds in every state the program reaches.
LEMMA AlwaysInv == Spec => []Inv
<1>1. Init => Inv
  BY InitOK
<1>2. Inv /\ [Next]_vars => Inv'
  BY StepOK
<1> QED  BY <1>1, <1>2, PTL DEF Spec

\* Every handler leaves well-typed members, and the ping timer has a sender.
THEOREM TypeCorrect == Spec => []TypeOK
<1>1. Inv => TypeOK
  BY DEF Inv, HelperOK, TypeOK, HealthMembers, HelperMembers, Lates, Entries
<1> QED  BY <1>1, AlwaysInv, PTL

\* Pings are sent only while there is a tunnel, in every order of state changes,
\* status callbacks, suspension and resumption.
THEOREM PingsOnlyThroughTunnel == Spec => []PingsNeedTunnel
<1>1. Inv => PingsNeedTunnel
  BY DEF Inv, HelperOK, PingsNeedTunnel
<1> QED  BY <1>1, AlwaysInv, PTL

\* What the statistics hold against a tunnel happened to its own pings.
THEOREM EvidenceStaysFresh == Spec => []EvidenceFresh
<1>1. Inv => EvidenceFresh
  BY DEF Inv, HelperOK, EvidenceFresh
<1> QED  BY <1>1, AlwaysInv, PTL
=============================================================================
