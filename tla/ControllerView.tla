---------------------------- MODULE ControllerView ----------------------------
(***************************************************************************)
(* What the Controller promises to the objects that follow it through      *)
(* stateChanged() (src/src/controller.h): a state that starts in           *)
(* Initializing, and announcements of which each is a move of              *)
(* ControllerStates!Moves from the one before.  A handler announces any    *)
(* number of them before the event loop goes on, and leaves the state it   *)
(* has announced last.                                                     *)
(*                                                                         *)
(* Controller implements this specification.  ConnectionHealth and         *)
(* ServerLatency are composed with its moves instead of with the           *)
(* Controller: each of their StateChanged actions is one announcement.     *)
(***************************************************************************)
EXTENDS Naturals, Sequences, ControllerStates

VARIABLES
    state,       \* Controller::state()
    announced    \* what the last handler announced, in its order

Init == state = "Initializing" /\ announced = <<>>

\* Where the i-th announcement starts, and where all of them end.
Before(s, steps, i) == IF i = 1 THEN s ELSE steps[i - 1]
Last(s, steps) == IF steps = <<>> THEN s ELSE steps[Len(steps)]

\* From state `s' the announcements `steps' are moves, one after the other.
Walk(s, steps) == \A i \in 1..Len(steps) : CanMove(Before(s, steps, i), steps[i])

Next ==
    /\ announced' \in Seq(ControllerState)
    /\ Walk(state, announced')
    /\ state' = Last(state, announced')

Spec == Init /\ [][Next]_<<state, announced>>
=============================================================================
