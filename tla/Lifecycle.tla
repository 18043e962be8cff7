------------------------------ MODULE Lifecycle ------------------------------
(***************************************************************************)
(* What every sandbox storage of the API promises about the records it     *)
(* keeps, whatever its locks, keys and callbacks: the Storage interface of *)
(* packages/api/internal/sandbox/store.go read with AllowedTransitions.    *)
(*                                                                         *)
(* A record is stored running.  It leaves a state only by starting a       *)
(* transition, and it starts one only when none is in progress; while one  *)
(* is in progress the only change of state is the restoration of a         *)
(* snapshot to running.  Several records may move in one step (one is      *)
(* stored over another), so Next says of each what it may do.              *)
(*                                                                         *)
(* A storage whose Add does not exclude StartRemoving promises less: the   *)
(* record that StartRemoving has read may be stored over before it writes  *)
(* the target state, and then its write brings that record back.           *)
(***************************************************************************)
EXTENDS SandboxStates

CONSTANTS
    Records,  \* the identities of records
    Revives   \* may StartRemoving bring back a record that was stored over?

VARIABLES
    st,    \* the state of each record, "absent" when it is not stored
    busy   \* is a transition of the record in progress?

Init ==
    /\ st \in [Records -> {"absent", "running"}]
    /\ busy = [r \in Records |-> FALSE]

\* Add.
Store(r) == st[r] = "absent" /\ st'[r] = "running"

\* StartRemoving that returns a callback.
Start(r) ==
    /\ ~busy[r] /\ busy'[r]
    /\ st'[r] \in {TargetState(a) : a \in Actions}
    /\ Allowed(st[r], st'[r])

\* StartRemoving, on a record that has been stored over since it was read.
Revive(r) ==
    /\ Revives
    /\ st[r] = "absent" /\ busy'[r]
    /\ st'[r] \in {TargetState(a) : a \in Actions}

\* The callback of a transient action that succeeded; it may also finish it.
Restore(r) == busy[r] /\ st[r] = "snapshotting" /\ st'[r] = "running"

\* The callback, or the expiry of a transition nobody drives any more.
Finish(r) == busy[r] /\ ~busy'[r] /\ st'[r] = st[r]

\* Remove, or replacement by a record stored later.
Drop(r) == st'[r] = "absent" /\ ~busy'[r]

Same(r) == st'[r] = st[r] /\ busy'[r] = busy[r]

Next ==
    \A r \in Records :
        \/ Same(r) \/ Store(r) \/ Start(r) \/ Revive(r) \/ Restore(r)
        \/ Finish(r) \/ Drop(r)

Spec == Init /\ [][Next]_<<st, busy>>
=============================================================================
