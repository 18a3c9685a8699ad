-------------------------- MODULE SidecarLifecycle --------------------------
(***************************************************************************)
(* The lifecycle of the Python sidecar as sidecar-core/src/state.rs        *)
(* declares it: eight states and the twelve transitions the supervisor     *)
(* accepts.  Every other module that moves the lifecycle is shown to       *)
(* implement this one.                                                     *)
(***************************************************************************)

VARIABLE state

LifecycleStates ==
  { "NotStarted", "Starting", "Running", "Stopping",
    "Stopped", "Failed", "Timeout", "Crashed" }

IsTerminal(s) == s \in { "Stopped", "Failed", "Timeout", "Crashed" }

(* can_transition_to: a terminal state leads nowhere but back to NotStarted. *)
CanTransitionTo(from, to) ==
  \/ from = "NotStarted" /\ to = "Starting"
  \/ from = "Starting"   /\ to \in { "Running", "Failed", "Timeout" }
  \/ from = "Running"    /\ to \in { "Stopping", "Crashed" }
  \/ from = "Stopping"   /\ to \in { "Stopped", "Failed" }
  \/ IsTerminal(from)    /\ to = "NotStarted"

Init == state = "NotStarted"

Transition(to) ==
  /\ CanTransitionTo(state, to)
  /\ state' = to

Next == \E to \in LifecycleStates : Transition(to)

Spec == Init /\ [][Next]_state
=============================================================================
