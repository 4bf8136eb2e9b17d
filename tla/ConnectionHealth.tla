-------------------------- MODULE ConnectionHealth --------------------------
(***************************************************************************)
(* ConnectionHealth with its PingHelper and DnsPingSender                  *)
(* (src/src/connectionhealth.cpp, pinghelper.cpp, dnspingsender.cpp): the  *)
(* pings that tell whether the tunnel works, and the silent switch to      *)
(* another server when it does not.                                        *)
(*                                                                         *)
(* The Controller is seen through its state, whose announcements are       *)
(* ControllerStates!Moves, and through getStatus(), whose callback comes   *)
(* when the back end answers, if it does.  Time passes in seconds, the period of the   *)
(* ping timer and of the health check timer.  An entry of the ring of the  *)
(* last pings is                                                           *)
(*                                                                         *)
(*   "unsent"   "sent", less than a second ago   "lost", so far            *)
(*   "ok"       "slow", beyond what the baseline explains                  *)
(*   "bogus"    answered and never sent                                    *)
(*                                                                         *)
(* Telemetry, the settling timer of the tooltip and the inspector's        *)
(* overwrite are left out.                                                 *)
(***************************************************************************)
EXTENDS Integers, FiniteSets, ControllerStates

CONSTANTS
    PING_STATS_WINDOW,    \* the pings the statistics are about
    LossThreshold,        \* the losses among them that are still fine
    PING_TIME_NOSIGNAL,   \* seconds
    States                \* the states of the Controller to look at

ASSUME HealthAssumption ==
    /\ PING_STATS_WINDOW \in Nat \ {0}
    /\ LossThreshold \in 0..(PING_STATS_WINDOW - 1)
    /\ PING_TIME_NOSIGNAL \in Nat \ {0}
    /\ States \subseteq ControllerState

Index == 0..(PING_STATS_WINDOW - 1)

VARIABLES
    state,       \* of the Controller
    tunnel,      \* tells a tunnel from the one before
    dead,        \* the gateway answers no more
    health,      \* the members of ConnectionHealth
    helper,      \* the members of PingHelper
    late,        \* the queued reply of a ping sender that was stopped
    getStatus,   \* a callback of ours waits for the status
    switching    \* TaskControllerAction::eSilentSwitch is queued

vars == <<state, tunnel, dead, health, helper, late, getStatus, switching>>

-----------------------------------------------------------------------------
\* PingHelper

\* The next sequence number, a quint16 in the code: what counts is its index, and
\* whether it is 0, the number of the entries before they are used.
Successor(sequence) ==
    IF sequence = 2 * PING_STATS_WINDOW THEN PING_STATS_WINDOW + 1 ELSE sequence + 1

NothingSent == [i \in Index |-> "unsent"]

\* Mutant: the statistics of the last tunnel are kept.
HelperStartKeepsData(p) == [p EXCEPT !.sender = TRUE, !.timer = TRUE]

\* start()
HelperStart(p) ==
    [p EXCEPT !.sender = TRUE, !.timer = TRUE, !.sequence = 0, !.data = NothingSent]

\* Mutant: the timer goes on.
HelperStopKeepsTimer(p) == [p EXCEPT !.sender = FALSE]

\* stop()
HelperStop(p) == [p EXCEPT !.sender = FALSE, !.timer = FALSE]

\* nextPing()
NextPing(p) ==
    LET index == p.sequence % PING_STATS_WINDOW
    IN  IF ~p.timer THEN p
        ELSE [p EXCEPT !.data[index] = "sent", !.of[index] = tunnel,
                       !.sequence = Successor(p.sequence)]

\* pingReceived() for a ping in the ring.
PingReceived(p, index, latency) == [p EXCEPT !.data[index] = latency]

\* A second later no ping is young.
Aged(p) == [p EXCEPT !.data = [i \in Index |-> IF p.data[i] = "sent" THEN "lost"
                                               ELSE p.data[i]]]

Count(p, what) == Cardinality({i \in Index : p.data[i] = what})

\* loss() against PING_LOSS_UNSTABLE_THRESHOLD, and maximum() against the baseline.
LossTooHigh(p) == Count(p, "lost") > LossThreshold
TooSlow(p) == Count(p, "slow") > 0

-----------------------------------------------------------------------------
\* ConnectionHealth

NoTimers(h) == [h EXCEPT !.noSignal = 0, !.check = FALSE]

NoDns(h) == [h EXCEPT !.dnsTimer = FALSE, !.dnsSocket = FALSE]

\* stop(); DnsPingSender::stop() closes the socket, which only its constructor binds.
Stop(h) == NoDns(NoTimers(h))

Restarted(h) == [h EXCEPT !.noSignal = PING_TIME_NOSIGNAL, !.check = TRUE]

\* startIdle()
StartIdle(h) ==
    [NoTimers(h) EXCEPT !.dnsInitialized = FALSE, !.dnsTimer = @ \/ h.dnsSocket,
                        !.dnsAwaited = h.dnsSocket]

\* Mutant: the state of the Controller is not looked at.
MayStartActiveAlways(s) == TRUE

\* The early return of startActive().
MayStartActive(s) == s \in TunnelUp

\* Mutant: losses are looked at before the signal.
StabilityLossFirst(h, p) ==
    IF LossTooHigh(p) THEN "Unstable"
    ELSE IF h.noSignal = 0 THEN "NoSignal"
    ELSE IF h.dnsInitialized /\ TooSlow(p) THEN "Unstable"
    ELSE "Stable"

\* healthCheckup()
Stability(h, p) ==
    IF h.noSignal = 0 THEN "NoSignal"
    ELSE IF LossTooHigh(p) THEN "Unstable"
    ELSE IF h.dnsInitialized /\ TooSlow(p) THEN "Unstable"
    ELSE "Stable"

\* setStability(); silentSwitch() is called again for as long as it is unstable.
SetStability(h, p) == [h EXCEPT !.stability = Stability(h, p)]

Checkup(h, p) ==
    /\ health' = SetStability(h, p)
    /\ switching' = (switching \/ (Stability(h, p) = "Unstable" /\ state # "OnPartial"))

\* The ping sender is deleted later: replies it has had, and any it gets until
\* then, still reach pingReceived().
SequenceOf(p, index) ==
    IF p.sequence > PING_STATS_WINDOW THEN PING_STATS_WINDOW + index ELSE index

MayBeLate ==
    IF helper.sender
    THEN late' \in {late} \cup {SequenceOf(helper, i) : i \in
                                {j \in Index : helper.data[j] \in {"sent", "lost"}}}
    ELSE UNCHANGED late

-----------------------------------------------------------------------------
NoReply == -1

Init ==
    /\ state = "Initializing" /\ tunnel = 0 /\ dead = FALSE
    /\ health = [stability |-> "Stable", noSignal |-> 0, check |-> FALSE,
                 dnsTimer |-> FALSE, dnsSocket |-> TRUE, dnsInitialized |-> FALSE,
                 dnsAwaited |-> FALSE, gateway |-> FALSE, suspended |-> FALSE]
    /\ helper = [sender |-> FALSE, timer |-> FALSE, sequence |-> 0,
                 data |-> NothingSent, of |-> [i \in Index |-> 0]]
    /\ late = NoReply /\ getStatus = FALSE /\ switching = FALSE

\* connectionStateChanged()
ConnectionStateChanged(s) ==
    /\ state' = s
    /\ IF s \in TunnelUp
       THEN getStatus' = TRUE /\ UNCHANGED <<health, helper, late>>
       ELSE /\ health' = IF s = "Off" THEN StartIdle(health) ELSE Stop(health)
            /\ helper' = HelperStop(helper) /\ MayBeLate
            /\ UNCHANGED getStatus

\* Controller::setState().  A tunnel is another one when the last was gone.
SetState(s) ==
    /\ CanMove(state, s) /\ s # "SilentSwitching"
    /\ ConnectionStateChanged(s)
    /\ tunnel' = IF s \in TunnelUp /\ state \notin TunnelUp THEN 1 - tunnel ELSE tunnel
    /\ dead' = (dead /\ s \in TunnelUp)
    /\ UNCHANGED switching

\* TaskControllerAction runs Controller::silentSwitchServers(), which does nothing
\* when the location has one server only.
SilentSwitchServers ==
    /\ switching
    /\ switching' = FALSE
    /\ \/ state = "On" /\ ConnectionStateChanged("SilentSwitching") /\ dead' = FALSE
       \/ UNCHANGED <<state, dead, health, helper, late, getStatus>>
    /\ UNCHANGED tunnel

\* The callback of getStatus(): stop(), then startActive().
StatusUpdated ==
    /\ getStatus
    /\ getStatus' = FALSE
    /\ MayBeLate
    /\ IF MayStartActive(state)
       THEN /\ helper' = HelperStart(helper)
            /\ health' = [Restarted(Stop(health)) EXCEPT !.gateway = TRUE]
       ELSE /\ helper' = HelperStop(helper)
            /\ health' = Stop(health)
    /\ UNCHANGED <<state, tunnel, dead, switching>>

\* applicationStateChanged(), on mobile.
Suspend ==
    /\ ~health.suspended
    /\ health' = [Stop(health) EXCEPT !.suspended = TRUE]
    /\ helper' = HelperStop(helper) /\ MayBeLate
    /\ UNCHANGED <<state, tunnel, dead, getStatus, switching>>

Resume ==
    /\ health.suspended
    /\ IF health.gateway /\ MayStartActive(state)
       THEN /\ helper' = HelperStart(helper)
            /\ health' = [NoDns(Restarted(health)) EXCEPT !.suspended = FALSE]
       ELSE health' = [health EXCEPT !.suspended = FALSE] /\ UNCHANGED helper
    /\ MayBeLate
    /\ UNCHANGED <<state, tunnel, dead, getStatus, switching>>

\* pingSentAndReceived()
Received(index, latency) ==
    LET p == PingReceived(helper, index, latency)
    IN  /\ helper' = p
        /\ Checkup(Restarted(health), p)

PingReply ==
    /\ helper.sender /\ ~dead
    /\ \E index \in Index :
          \/ helper.data[index] = "sent" /\ Received(index, "ok")
          \/ helper.data[index] = "lost" /\ \E l \in {"ok", "slow"} : Received(index, l)
    /\ UNCHANGED <<state, tunnel, dead, late, getStatus>>

\* The reply of a stopped sender.  Before the first ping of a new one every entry
\* of the ring has the sequence number 0.
LateReply ==
    /\ late # NoReply
    /\ late' = NoReply
    /\ LET index == late % PING_STATS_WINDOW
       IN  CASE helper.data[index] \in {"sent", "lost"} -> Received(index, "ok")
             [] helper.data[index] = "unsent" /\ late = 0 -> Received(index, "bogus")
             [] OTHER -> UNCHANGED <<helper, health, switching>>
    /\ UNCHANGED <<state, tunnel, dead, getStatus>>

\* A second passes: the timers fire, the health check before or after the others.
Tick ==
    LET aged   == Aged(helper)
        pinged == NextPing(aged)
        waited == [health EXCEPT !.noSignal = IF @ > 0 THEN @ - 1 ELSE 0]
    IN  /\ late = NoReply
        /\ helper' = pinged
        /\ IF health.check
           THEN \/ Checkup(waited, aged)
                \/ Checkup(waited, pinged)
           ELSE health' = waited /\ UNCHANGED switching
        /\ UNCHANGED <<state, tunnel, dead, late, getStatus>>

\* The timer of the DNS pings.
SendDnsPing ==
    /\ health.dnsTimer
    /\ health' = [health EXCEPT !.dnsAwaited = TRUE]
    /\ UNCHANGED <<state, tunnel, dead, helper, late, getStatus, switching>>

\* criticalPingError()
DnsPingError ==
    /\ health.dnsTimer
    /\ health' = [health EXCEPT !.dnsInitialized = FALSE, !.dnsTimer = FALSE,
                                !.dnsSocket = FALSE]
    /\ UNCHANGED <<state, tunnel, dead, helper, late, getStatus, switching>>

\* dnsPingReceived() and updateDnsPingLatency()
DnsPingReceived ==
    /\ health.dnsAwaited
    /\ health' = [health EXCEPT !.dnsAwaited = FALSE, !.dnsInitialized = TRUE]
    /\ UNCHANGED <<state, tunnel, dead, helper, late, getStatus, switching>>

\* The gateway of the tunnel stops to answer.
Dies ==
    /\ state \in TunnelUp /\ ~dead
    /\ dead' = TRUE
    /\ UNCHANGED <<state, tunnel, health, helper, late, getStatus, switching>>

Next ==
    \/ \E s \in States : SetState(s)
    \/ SilentSwitchServers \/ StatusUpdated \/ Suspend \/ Resume
    \/ PingReply \/ LateReply \/ Tick
    \/ SendDnsPing \/ DnsPingError \/ DnsPingReceived \/ Dies

Spec == Init /\ [][Next]_vars

\* Time passes, and a queued reply is delivered.  That a status comes is not fair to
\* assume: Controller::getStatus() sends a request for the first waiting callback only
\* (controller.cpp:869), and one lost with the socket is not repeated.
FairSpec == Spec /\ WF_vars(LateReply) /\ WF_vars(Tick)

-----------------------------------------------------------------------------
\* Properties

\* Types; and the ping timer never fires without a sender, which nextPing() uses
\* without a look.
TypeOK ==
    /\ state \in ControllerState /\ tunnel \in 0..1
    /\ {dead, getStatus, switching} \subseteq BOOLEAN
    /\ health \in [stability : {"Stable", "Unstable", "NoSignal"},
                   noSignal : 0..PING_TIME_NOSIGNAL,
                   check : BOOLEAN, dnsTimer : BOOLEAN, dnsSocket : BOOLEAN,
                   dnsInitialized : BOOLEAN, dnsAwaited : BOOLEAN,
                   gateway : BOOLEAN, suspended : BOOLEAN]
    /\ helper \in [sender : BOOLEAN, timer : BOOLEAN,
                   sequence : 0..(2 * PING_STATS_WINDOW),
                   data : [Index -> {"unsent", "sent", "lost", "ok", "slow", "bogus"}],
                   of : [Index -> 0..1]]
    /\ late \in {NoReply} \cup 0..(2 * PING_STATS_WINDOW)
    /\ helper.timer => helper.sender

\* No ping is sent once the tunnel is gone: whatever the order of state changes,
\* status callbacks, suspension and resumption, the helper runs only with a tunnel.
PingsNeedTunnel == helper.timer => state \in TunnelUp

\* While the pings run, nothing that happened to the pings of an earlier tunnel
\* counts against this one.
EvidenceFresh ==
    helper.timer =>
        \A i \in Index : helper.data[i] \in {"sent", "lost", "slow"} => helper.of[i] = tunnel

\* A gateway that answers no more is reported as "no signal", unless the tunnel
\* goes away or the application sleeps: late replies, losses and refused silent
\* switches do not hide it.  The one exception is a status that never comes: as long
\* as a callback of getStatus() waits for good, so do the pings it would start.
Unanswered == dead /\ state = "On" /\ ~health.suspended
StatusesCome == []<>~getStatus
SignalLossReported ==
    StatusesCome => (Unanswered ~> (~Unanswered \/ health.stability = "NoSignal"))
=============================================================================
