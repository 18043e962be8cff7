--------------------------- MODULE SandboxStates ---------------------------
(***************************************************************************)
(* The states of a sandbox record and the actions that move it between     *)
(* them: packages/api/internal/sandbox/states.go.  Every storage backend   *)
(* of the API consults this table before it starts a transition.           *)
(***************************************************************************)

\* The values of type State.
States == {"running", "pausing", "killing", "snapshotting"}

\* The three StateActions, by name.
Actions == {"pause", "kill", "snapshot"}

\* StateAction.TargetState.
TargetState(a) ==
    CASE a = "pause"    -> "pausing"
      [] a = "kill"     -> "killing"
      [] a = "snapshot" -> "snapshotting"

\* StateAction.Effect = TransitionTransient: the record goes back to running
\* when the action completes.  The others are TransitionExpires.
Transient(a) == a = "snapshot"

\* AllowedTransitions[s][t].
Allowed(s, t) ==
    \/ s = "running"      /\ t \in {"pausing", "killing", "snapshotting"}
    \/ s = "pausing"      /\ t = "killing"
    \/ s = "snapshotting" /\ t \in {"running", "killing", "pausing"}
=============================================================================
