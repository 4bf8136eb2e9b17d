--------------------------- MODULE ServerLatency ----------------------------
(***************************************************************************)
(* ServerLatency (src/src/serverlatency.cpp): while the VPN is off every   *)
(* server of the list is pinged, a few at a time, with a timeout and       *)
(* retries, and again every half hour.                                     *)
(*                                                                         *)
(* The Controller is seen through its state, which moves along             *)
(* ControllerStates!Moves.  A record of the reply list has the age of its  *)
(* ping in ticks instead of a timestamp; latencies are in ticks too.  The  *)
(* code reads the wall clock (serverlatency.cpp:143, 276): an age only     *)
(* grows as long as nobody sets that clock.                                *)
(* A server list is a sequence, sorted by distance.  Scores, cool-downs    *)
(* and the progress bar's delay are left out.                              *)
(***************************************************************************)
EXTENDS Integers, Sequences, FiniteSets, SequencesExt, ControllerStates

CONSTANTS
    ServerLists,                    \* the lists the server may send
    SERVER_LATENCY_MAX_PARALLEL,
    SERVER_LATENCY_MAX_RETRIES,
    SERVER_LATENCY_TIMEOUT,         \* ticks
    States                          \* the states of the Controller to look at

Servers == UNION {ToSet(list) : list \in ServerLists}

ASSUME LatencyAssumption ==
    /\ ServerLists \subseteq Seq(Servers)
    /\ SERVER_LATENCY_MAX_PARALLEL \in Nat \ {0}
    /\ SERVER_LATENCY_MAX_RETRIES \in Nat
    /\ SERVER_LATENCY_TIMEOUT \in Nat \ {0}
    /\ States \subseteq ControllerState

VARIABLES
    state,       \* of the Controller
    supported,   \* Feature_serverConnectionScore
    active,      \* the application is active
    servers,     \* the server list
    m            \* the members of ServerLatency

vars == <<state, supported, active, servers, m>>

-----------------------------------------------------------------------------
\* Mutant: the next measurement is not scheduled.
StopUnscheduled(l) ==
    [l EXCEPT !.sender = FALSE, !.timeout = FALSE, !.sendQueue = <<>>,
              !.replyList = <<>>, !.total = 0]

\* stop()
Stop(l) ==
    [l EXCEPT !.sender = FALSE, !.timeout = FALSE, !.sendQueue = <<>>,
              !.replyList = <<>>, !.total = 0, !.refreshTimer = TRUE]

\* Mutant: the sum of the latencies is kept.
ClearKeepsSum(l) == [l EXCEPT !.latency = <<>>]

\* clear()
Clear(l) == [l EXCEPT !.latency = <<>>, !.sum = 0]

\* setLatency()
SetLatency(l, server, ticks) ==
    LET before == IF server \in DOMAIN l.latency THEN l.latency[server] ELSE 0
    IN  [l EXCEPT !.sum = @ - before + ticks,
                  !.latency = [x \in DOMAIN @ \cup {server} |->
                                  IF x = server THEN ticks ELSE @[x]]]

\* A ping with the next sequence number goes to the end of the reply list.
Sent(l, ping) ==
    [l EXCEPT !.replyList = Append(@, [server |-> ping.server, sequence |-> l.sequence,
                                       age |-> 0, retries |-> ping.retries]),
              !.sequence = @ + 1]

FirstPing(server) == [server |-> server, retries |-> 0]
NextPing(record) == [server |-> record.server, retries |-> record.retries + 1]

\* Mutant: a timed out ping is tried again for ever.
AgainAlways(ping) == TRUE

\* The test of a retry; it is true of every first ping.
Again(ping) == ping.retries <= SERVER_LATENCY_MAX_RETRIES

\* The pings are sent one after the other, the ones that were tried enough are not.
Send(l, pings) ==
    LET sent[i \in 0..Len(pings)] ==
            IF i = 0 THEN l
            ELSE IF Again(pings[i]) THEN Sent(sent[i - 1], pings[i])
            ELSE sent[i - 1]
    IN  sent[Len(pings)]

\* The pings at the head of the list that have timed out.
TimedOut(l) ==
    Max({n \in 0..Len(l.replyList) :
            \A i \in 1..n : l.replyList[i].age >= SERVER_LATENCY_TIMEOUT})

\* Mutant: the retries go to the head of the list.
RetriesFirst(l) ==
    LET n     == TimedOut(l)
        retry == Send([l EXCEPT !.replyList = <<>>],
                      [i \in 1..n |-> NextPing(l.replyList[i])])
    IN  [retry EXCEPT !.replyList = @ \o SubSeq(l.replyList, n + 1, Len(l.replyList))]

\* The first loop of maybeSendPings(): timed out pings are sent again, or given up.
Retries(l) ==
    LET n == TimedOut(l)
    IN  Send([l EXCEPT !.replyList = SubSeq(@, n + 1, Len(@))],
             [i \in 1..n |-> NextPing(l.replyList[i])])

\* The second loop: new pings, as many as may be in flight.
NewPings(l) ==
    LET n == Min({Len(l.sendQueue), SERVER_LATENCY_MAX_PARALLEL - Len(l.replyList)})
    IN  Send([l EXCEPT !.sendQueue = SubSeq(@, n + 1, Len(@))],
             [i \in 1..n |-> FirstPing(l.sendQueue[i])])

\* Mutant: the measurement goes on with nothing left to wait for.
MaybeSendPingsNeverStops(l) ==
    LET sent == NewPings(Retries(l))
    IN  IF ~l.sender THEN l ELSE [sent EXCEPT !.timeout = TRUE]

\* maybeSendPings()
MaybeSendPings(l) ==
    LET sent == NewPings(Retries(l))
    IN  IF ~l.sender THEN l
        ELSE IF sent.replyList = <<>> THEN Stop(sent)
        ELSE [sent EXCEPT !.timeout = TRUE]

\* Mutant: the latency is measured through the tunnel.
MayMeasureAlways(s) == TRUE

\* "Don't attempt to refresh latency when the VPN is active"
MayMeasure(s) == s = "Off"

\* start()
Start(l, s, feature, list) ==
    IF ~feature THEN Clear(l)
    ELSE IF ~MayMeasure(s) THEN [l EXCEPT !.wantRefresh = TRUE]
    ELSE IF l.sender THEN l
    ELSE MaybeSendPings([l EXCEPT !.sequence = 0, !.wantRefresh = FALSE,
                                  !.sender = TRUE, !.sendQueue = list,
                                  !.total = Len(list), !.refreshTimer = FALSE])

\* refresh()
Refresh(l, s, feature, list) ==
    IF l.sender THEN l ELSE Start(Clear(l), s, feature, list)

-----------------------------------------------------------------------------
\* initialize()
Init ==
    /\ state = "Initializing" /\ active = TRUE
    /\ supported \in BOOLEAN
    /\ servers \in ServerLists
    /\ m = [sender |-> FALSE, sendQueue |-> <<>>, replyList |-> <<>>, total |-> 0,
            sequence |-> 0, timeout |-> FALSE, refreshTimer |-> supported,
            wantRefresh |-> FALSE, latency |-> <<>>, sum |-> 0]

\* ServerCountryModel::changed()
ServersChanged ==
    /\ servers' \in ServerLists
    /\ m' = Start(m, state, supported, servers')
    /\ UNCHANGED <<state, supported, active>>

\* Feature::supportedChanged()
SupportedChanged ==
    /\ supported' = ~supported
    /\ m' = Start(m, state, supported', servers)
    /\ UNCHANGED <<state, active, servers>>

RefreshTimer ==
    /\ m.refreshTimer
    /\ m' = Start([m EXCEPT !.refreshTimer = FALSE], state, supported, servers)
    /\ UNCHANGED <<state, supported, active, servers>>

\* The user asks for it.
RefreshClicked ==
    /\ m' = Refresh(m, state, supported, servers)
    /\ UNCHANGED <<state, supported, active, servers>>

\* stateChanged()
StateChanged(s) ==
    /\ CanMove(state, s)
    /\ state' = s
    /\ m' = IF s # "Off" THEN Stop(m)
            ELSE IF m.wantRefresh THEN Start(m, s, supported, servers)
            ELSE m
    /\ UNCHANGED <<supported, active, servers>>

\* applicationStateChanged(), on iOS.
ApplicationStateChanged ==
    /\ active' = ~active
    /\ m' = IF active
            THEN IF m.sender THEN Stop([m EXCEPT !.wantRefresh = TRUE]) ELSE m
            ELSE IF m.wantRefresh THEN Refresh(m, state, supported, servers)
            ELSE m
    /\ UNCHANGED <<state, supported, servers>>

\* The ping timer: it is set to the time the first ping of the list has left.
PingTimeout ==
    /\ m.timeout
    /\ TimedOut(m) > 0
    /\ m' = MaybeSendPings(m)
    /\ UNCHANGED <<state, supported, active, servers>>

\* recvPing()
RecvPing ==
    /\ \E i \in DOMAIN m.replyList :
          LET record == m.replyList[i]
          IN  m' = MaybeSendPings(
                      [SetLatency(m, record.server, record.age) EXCEPT
                          !.replyList = RemoveAt(@, i)])
    /\ UNCHANGED <<state, supported, active, servers>>

Older(record) == [record EXCEPT !.age = @ + 1]

\* Time passes, and no further than the timeout of a ping: its timer is due first.
Tick ==
    /\ m.replyList # <<>>
    /\ TimedOut(m) = 0
    /\ m' = [m EXCEPT !.replyList = [i \in DOMAIN @ |-> Older(@[i])]]
    /\ UNCHANGED <<state, supported, active, servers>>

Next ==
    \/ ServersChanged \/ SupportedChanged \/ RefreshTimer \/ RefreshClicked
    \/ \E s \in States : StateChanged(s)
    \/ ApplicationStateChanged \/ PingTimeout \/ RecvPing \/ Tick

Spec == Init /\ [][Next]_vars

\* Time passes; no ping is ever sure to be answered.
FairSpec == Spec /\ WF_vars(Tick \/ PingTimeout)

-----------------------------------------------------------------------------
\* Properties

\* Types; no more pings in flight than the limit, none of them more than the
\* retries allow, and progress() stays between 0 and 1.
TypeOK ==
    /\ state \in ControllerState /\ servers \in ServerLists
    /\ {supported, active, m.sender, m.timeout, m.refreshTimer, m.wantRefresh}
           \subseteq BOOLEAN
    /\ Len(m.replyList) <= SERVER_LATENCY_MAX_PARALLEL
    /\ \A i \in DOMAIN m.replyList :
          /\ m.replyList[i].server \in Servers
          /\ m.replyList[i].retries \in 0..SERVER_LATENCY_MAX_RETRIES
          /\ m.replyList[i].age \in 0..SERVER_LATENCY_TIMEOUT
    /\ Len(m.replyList) + Len(m.sendQueue) <= m.total

\* "or we could get misleading results" (serverlatency.cpp:81): whatever asks for
\* a measurement and however long it takes, none is under way with the VPN active.
MeasuresOnlyOff == m.sender => state = "Off"

\* A measurement that was cut short or put off is not forgotten: with the feature
\* on, one is under way, scheduled, or wanted for when the VPN is off.
RefreshNotLost == supported => m.sender \/ m.refreshTimer \/ m.wantRefresh

\* "the list should be sorted by transmit time" (serverlatency.cpp:199), which the
\* timer relies on: replies, retries and new pings keep the oldest first.
SortedByTransmitTime ==
    \A i, j \in DOMAIN m.replyList :
        i < j => /\ m.replyList[i].age >= m.replyList[j].age
                 /\ m.replyList[i].sequence < m.replyList[j].sequence

\* The running sum that avgLatency() divides is the sum of the latencies, however
\* often servers are measured again or the data is cleared.
SumOfLatencies ==
    m.sum = FoldFunction(LAMBDA x, y : x + y, 0, m.latency)

\* A measurement ends, even if no server answers and the list changes meanwhile.
MeasurementEnds == m.sender ~> ~m.sender
=============================================================================
