-------------------------- MODULE ControllerStates --------------------------
(***************************************************************************)
(* The states of the Controller as its observers see them: what            *)
(* Controller::stateChanged() announces.  Modules that follow the          *)
(* Controller without its details move along `Moves'; the Controller       *)
(* announces no other move (Controller!FollowsMoves, proved in             *)
(* ControllerProofs).                                                      *)
(***************************************************************************)

ControllerState ==
    {"Initializing", "Off", "Connecting", "Confirming", "On", "OnPartial",
     "Switching", "SilentSwitching", "Disconnecting"}

TunnelUp == {"On", "OnPartial"}

\* The calls of setState() that announce something: the state they are made in and the
\* one they set.  switchServers() is refused in Off alone, silentSwitchServers() outside
\* On, and deactivate() announces itself only for a connection or an attempt at one.
Moves ==
    [ from : ControllerState, to : {"Off", "Connecting", "Confirming", "On"} ] \cup
    [ from : ControllerState \ {"Initializing"}, to : {"OnPartial"} ] \cup
    [ from : TunnelUp \cup {"Connecting", "Confirming"}, to : {"Disconnecting"} ] \cup
    [ from : ControllerState \ {"Off"}, to : {"Switching"} ] \cup
    [ from : {"On"}, to : {"SilentSwitching"} ]

\* The state can become `s' next.
CanMove(state, s) == s # state /\ [from |-> state, to |-> s] \in Moves
=============================================================================
