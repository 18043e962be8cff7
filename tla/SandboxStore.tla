---------------------------- MODULE SandboxStore ----------------------------
(***************************************************************************)
(* The life of one sandbox ID in the API's Redis-backed sandbox store:     *)
(* the storage operations (StartRemoving and its callback, Update, Remove, *)
(* Add, ExpiredItems), the reservation that guards a creation, and the     *)
(* request flows that call them (RemoveSandbox, CreateSnapshotTemplate,    *)
(* KeepAliveFor, resume + CreateSandbox, the evictor).                     *)
(*                                                                         *)
(* Every key the storage touches is a key of one sandbox, so one sandbox   *)
(* ID shows all interleavings.  A process is one request goroutine of some *)
(* API instance; one action is one Redis command or Lua script, one gRPC   *)
(* call to the node, or one database call, with the Go code up to the next *)
(* one.                                                                    *)
(***************************************************************************)
EXTENDS SandboxStates, Integers, FiniteSets

CONSTANTS
    Users,             \* goroutines that serve API requests
    Evictors,          \* goroutines of the evictor loops
    None,              \* no lock holder
    Requests,          \* the requests users may issue
    MaxRequests,       \* bound: requests per user
    MaxTime,           \* bound: the clock
    Timeouts,          \* sandbox timeouts a request may ask for
    MaxInstanceLength, \* the team's limit on EndTime - StartTime
    StaleCutoff,       \* staleCutoff of ExpiredItems
    AutoPauses,        \* values of Sandbox.AutoPause at creation
    Crashable,         \* processes whose API instance may crash
    Cancellable,       \* users whose request context may be cancelled
    NodeFails,         \* may calls to the node or the database fail?
    RedisFails,        \* may a Redis command (or a snapshot query) fail, without effect?
    TTLCovers          \* do the key TTLs outlast every live holder?

Procs == Users \cup Evictors

RequestKinds == {"kill", "pause", "snapshot", "keepalive", "resume"}

ASSUME ConstantsAssumption ==
    /\ None \notin Procs
    /\ Users \cap Evictors = {}
    /\ Requests \subseteq RequestKinds
    /\ MaxRequests \in Nat
    /\ MaxTime \in Nat
    /\ Timeouts \subseteq Nat
    /\ MaxInstanceLength \in Nat
    /\ StaleCutoff \in Nat
    /\ AutoPauses \subseteq BOOLEAN
    /\ Crashable \subseteq Procs
    /\ Cancellable \subseteq Users
    /\ NodeFails \in BOOLEAN
    /\ RedisFails \in BOOLEAN
    /\ TTLCovers \in BOOLEAN

ASSUME UsersAssumption == IsFiniteSet(Users)

VARIABLES
    \* Redis
    rec,      \* the sandbox key (and the team index entry: one Lua script)
    exp,      \* the member's score in globalExpirationSet, NoScore if absent
    tkey,     \* the transition key: the ID of the ongoing transition, 0 if none
    failed,   \* the transitions whose result key holds an error
    lock,     \* the redislock on the sandbox key
    tlock,    \* the redislock on the transition key
    pending,  \* is the sandbox in the team's pending reservations?
    \* the node and the database
    live,     \* the executions whose VM runs
    addr,     \* the execution the node's map holds under the sandbox ID, 0 if none
    hasSnap,  \* has the database a snapshot of the sandbox?
    snaps,    \* the executions whose pause has completed (history)
    lost,     \* the executions whose pause did not complete, and whose owner could
              \* not remove the record or leave a result (history)
    \* clock and fresh names
    now, nextTid, nextEx,
    \* processes
    pc,       \* where each process is
    loc       \* its local variables

redisVars == <<rec, exp, tkey, failed, lock, tlock, pending>>
nodeVars  == <<live, addr, hasSnap, snaps, lost>>
vars == <<rec, exp, tkey, failed, lock, tlock, pending, live, addr, hasSnap,
          snaps, lost, now, nextTid, nextEx, pc, loc>>

-----------------------------------------------------------------------------
(* Types and the initial state.                                            *)

Sandboxes == [st : States \cup {"absent"}, start : Nat, end : Nat,
              ex : Nat, ap : BOOLEAN]

NoRec   == [st |-> "absent", start |-> 0, end |-> 0, ex |-> 0, ap |-> FALSE]
NoScore == -1

\* Holding the sandbox lock, owning a transition, waiting for one, creating.
Locked   == {"sr_check", "sr_start", "rm_index", "upd_set", "upd_index",
             "restore_set"}
Owning   == {"node", "rm", "rm_index", "rm_release", "restore", "restore_set",
             "cb", "cb_del"}
Waiting  == {"wait_same", "wait_diff", "wait_resume"}
Creating == {"cr_place", "cr_index", "cr_set", "cr_finish"}
Labels   == Locked \cup Owning \cup Waiting \cup Creating \cup
            {"idle", "crashed", "sr_lock", "del_snap", "upd_lock", "ev_mget",
             "ev_zrem", "res_get", "res_wait", "res_snap", "cr_reserve",
             "cr_wait", "cr_undo"}

Locals == [req : RequestKinds \cup {"evict", "none"},
           act : Actions,
           sbx : Sandboxes,
           tid : Nat,
           err : {"nil", "failed", "restore"},
           ctx : {"live", "cancelled"},
           at  : Nat,
           old : Nat,
           out : {"none", "ok", "error"},
           budget : Nat]

IdleLocals(b) == [req |-> "none", act |-> "kill", sbx |-> NoRec, tid |-> 0,
                  err |-> "nil", ctx |-> "live", at |-> 0, old |-> 0,
                  out |-> "none", budget |-> b]

\* A sandbox that has just been created and stored.
Init ==
    /\ \E t \in Timeouts, ap \in AutoPauses :
          /\ t <= MaxInstanceLength
          /\ rec = [st |-> "running", start |-> 0, end |-> t, ex |-> 1, ap |-> ap]
          /\ exp = t
    /\ tkey = 0 /\ failed = {} /\ lock = None /\ tlock = None /\ pending = FALSE
    /\ live = {1} /\ addr = 1 /\ hasSnap = FALSE /\ snaps = {}
    /\ lost = {}
    /\ now = 0 /\ nextTid = 1 /\ nextEx = 2
    /\ pc  = [p \in Procs |-> "idle"]
    /\ loc = [p \in Procs |-> IdleLocals(MaxRequests)]

-----------------------------------------------------------------------------
(* Helpers.                                                                *)

Present(r) == r.st # "absent"

\* Sandbox.IsExpired.
Expired(r, t) == t > r.end

Goto(p, l) == pc' = [pc EXCEPT ![p] = l]

\* The request returns; its locals die with it.
Return(p, o) ==
    /\ pc'  = [pc EXCEPT ![p] = "idle"]
    /\ loc' = [loc EXCEPT ![p] =
                 [IdleLocals(@.budget) EXCEPT !.out = o]]

Live(p) == loc[p].ctx = "live"

\* The next command of p may fail: its context is done, or Redis is in trouble.
CommandFails(p) == ~Live(p) \/ RedisFails

\* The owner p leaves and nobody will learn that its pause did not complete.
LoseOutcome(p) ==
    lost' = IF /\ pc[p] \in Owning /\ loc[p].act = "pause"
               /\ loc[p].sbx.ex \notin snaps
            THEN lost \cup {loc[p].sbx.ex} ELSE lost

\* What follows when RemoveSandbox returns nil or ErrSandboxNotFound: the kill
\* handler also deletes the snapshot.
Removed(p, o) ==
    IF loc[p].req = "kill" THEN /\ Goto(p, "del_snap")
                                /\ UNCHANGED loc
                           ELSE Return(p, o)

-----------------------------------------------------------------------------
(* A user sends a request; the clock moves; requests are cancelled.        *)

FirstLabel(r) == CASE r \in Actions     -> "sr_lock"
                   [] r = "keepalive"   -> "upd_lock"
                   [] r = "resume"      -> "res_get"

Begin(p) ==
    /\ p \in Users /\ pc[p] = "idle" /\ loc[p].budget > 0
    /\ \E r \in Requests :
          /\ Goto(p, FirstLabel(r))
          /\ loc' = [loc EXCEPT ![p] =
                       [IdleLocals(@.budget - 1) EXCEPT
                          !.req = r,
                          !.act = IF r \in Actions THEN r ELSE "kill",
                          !.at  = now]]
    /\ UNCHANGED <<redisVars, nodeVars, now, nextTid, nextEx>>

Tick ==
    /\ now < MaxTime
    /\ now' = now + 1
    /\ UNCHANGED <<redisVars, nodeVars, nextTid, nextEx, pc, loc>>

\* The client disconnects or the 60 s deadline of RequestTimeout passes.
Cancel(p) ==
    /\ p \in Cancellable /\ pc[p] \notin {"idle", "crashed"} /\ Live(p)
    /\ loc' = [loc EXCEPT ![p].ctx = "cancelled"]
    /\ UNCHANGED <<redisVars, nodeVars, now, nextTid, nextEx, pc>>

-----------------------------------------------------------------------------
(* StartRemoving.                                                          *)

\* Seeded fault: the sandbox is read without the lock.
StartRemovingReadUnlocked(p) ==
    /\ pc[p] = "sr_lock" /\ Live(p)
    /\ IF Present(rec)
       THEN loc' = [loc EXCEPT ![p].sbx = rec] /\ Goto(p, "sr_check")
       ELSE Removed(p, "error")
    /\ UNCHANGED <<redisVars, nodeVars, now, nextTid, nextEx>>

\* Obtain the sandbox lock, GET the sandbox.
StartRemovingRead(p) ==
    /\ pc[p] = "sr_lock" /\ Live(p) /\ lock = None
    /\ IF Present(rec)
       THEN /\ lock' = p
            /\ loc'  = [loc EXCEPT ![p].sbx = rec]
            /\ Goto(p, "sr_check")
       ELSE /\ Removed(p, "error")
            /\ UNCHANGED lock
    /\ UNCHANGED <<rec, exp, tkey, failed, tlock, pending, nodeVars, now,
                   nextTid, nextEx>>

\* Seeded fault: eviction trusts the evictor's earlier look at EndTime.
EvictableNoRecheck(s) == tkey = 0

\* "Resolve eviction under the lock + re-check expiry".
Evictable(s) == tkey = 0 /\ Expired(s, now)

\* GET the transition key and decide.
StartRemovingCheck(p) ==
    LET s == loc[p].sbx
        t == TargetState(loc[p].act)
    IN
    /\ pc[p] = "sr_check" /\ Live(p)
    /\ \/ \* ErrNotEvictable
          /\ loc[p].req = "evict" /\ ~Evictable(s)
          /\ lock' = None
          /\ Return(p, "error")
       \/ /\ loc[p].req = "evict" => Evictable(s)
          /\ tkey # 0
          /\ lock' = None
          /\ IF s.st = t \/ Allowed(s.st, t)
             THEN /\ loc' = [loc EXCEPT ![p].tid = tkey]
                  /\ Goto(p, IF s.st = t THEN "wait_same" ELSE "wait_diff")
             ELSE Return(p, "error")
       \/ /\ loc[p].req = "evict" => Evictable(s)
          /\ tkey = 0
          /\ IF s.st # t /\ Allowed(s.st, t)
             THEN /\ Goto(p, "sr_start")
                  /\ UNCHANGED <<lock, loc>>
             ELSE /\ lock' = None
                  /\ IF s.st = t THEN \* alreadyDone
                          IF loc[p].act = "snapshot" THEN Return(p, "error")
                                                     ELSE Removed(p, "ok")
                     ELSE Return(p, "error")
    /\ UNCHANGED <<rec, exp, tkey, failed, tlock, pending, nodeVars, now,
                   nextTid, nextEx>>

\* startTransitionScript: SET sandbox, SET transition key; unlock.
StartTransition(p) ==
    LET s == loc[p].sbx
        u == [s EXCEPT !.st  = TargetState(loc[p].act),
                       !.end = IF Transient(loc[p].act) \/ Expired(s, now)
                               THEN @ ELSE now]
    IN
    /\ pc[p] = "sr_start" /\ Live(p)
    /\ rec'  = u
    /\ tkey' = nextTid /\ nextTid' = nextTid + 1
    /\ lock' = None
    /\ loc'  = [loc EXCEPT ![p] = [@ EXCEPT !.sbx = u, !.tid = nextTid]]
    /\ Goto(p, "node")
    /\ UNCHANGED <<exp, failed, tlock, pending, nodeVars, now, nextEx>>

\* waitForTransition, checkTransitionResult and the rest of
\* handleExistingTransition.  A poll that fails counts as "key gone", and a
\* missing result key counts as success; a result that cannot be read is an error.
WaitTransition(p) ==
    /\ pc[p] \in Waiting /\ Live(p)
    /\ tkey # loc[p].tid \/ RedisFails
    /\ \/ /\ loc[p].tid \in failed \/ RedisFails
          \* RemoveSandbox takes a failed kill for "already killed"
          /\ IF pc[p] = "wait_same" /\ loc[p].act = "kill" THEN Removed(p, "ok")
                                                          ELSE Return(p, "error")
       \/ /\ loc[p].tid \notin failed
          /\ CASE pc[p] = "wait_same" ->
                    IF loc[p].act = "snapshot" THEN Return(p, "error")
                                               ELSE Removed(p, "ok")
               [] pc[p] = "wait_diff" ->
                    Goto(p, "sr_lock") /\ UNCHANGED loc
               [] pc[p] = "wait_resume" ->
                    Goto(p, "res_snap") /\ UNCHANGED loc
    /\ UNCHANGED <<redisVars, nodeVars, now, nextTid, nextEx>>

\* Has StartRemoving read a sandbox that is being killed?  RemoveSandbox then takes
\* any error for "already killed".
SeenKilled(p) ==
    /\ pc[p] = "sr_check" /\ loc[p].act = "kill" /\ loc[p].req # "evict"
    /\ loc[p].sbx.st = "killing"

\* The next Redis or database call fails and with it the request; the lock is
\* released with context.WithoutCancel.
FailedReturn(p) ==
    /\ CommandFails(p)
    /\ \/ pc[p] \in {"sr_lock", "sr_check", "sr_start", "del_snap", "upd_lock",
                     "upd_set", "upd_index", "res_get", "res_wait", "res_snap",
                     "cr_reserve", "cr_wait", "ev_mget", "ev_zrem"}
       \/ ~Live(p) /\ pc[p] \in Waiting
    /\ lock' = IF pc[p] \in Locked THEN None ELSE lock
    /\ IF Live(p) /\ SeenKilled(p) THEN Removed(p, "ok") ELSE Return(p, "error")
    /\ UNCHANGED <<rec, exp, tkey, failed, tlock, pending, nodeVars, now,
                   nextTid, nextEx>>

-----------------------------------------------------------------------------
(* The work of the transition's owner.                                     *)

\* The node takes the sandbox ID out of its map and stops the VM found there.
StopOnNode ==
    /\ live' = live \ {addr}
    /\ addr' = 0

\* A call that may not have reached the node.
MayStopOnNode == StopOnNode \/ UNCHANGED <<live, addr>>

CanFail(p) == NodeFails \/ ~Live(p)

\* killSandboxOnNode: Delete is by sandbox ID and fails when the node has none.
KillOnNode(p) ==
    /\ pc[p] = "node" /\ loc[p].act = "kill"
    /\ \/ /\ Live(p) /\ addr # 0
          /\ StopOnNode
          /\ UNCHANGED loc
       \/ /\ CanFail(p) \/ addr = 0
          /\ MayStopOnNode
          /\ loc' = [loc EXCEPT ![p].err = "failed"]
    /\ Goto(p, "rm")
    /\ UNCHANGED <<redisVars, hasSnap, snaps, lost, now, nextTid, nextEx>>

\* pauseSandbox: upsert the snapshot row, Pause on the node, mark it built.
\* A failure may come before or after the node stopped the VM; a foreign key
\* violation falls back to a kill and is an error too.
PauseOnNode(p) ==
    /\ pc[p] = "node" /\ loc[p].act = "pause"
    /\ \/ /\ Live(p) /\ addr # 0
          /\ StopOnNode
          /\ hasSnap' = TRUE
          /\ snaps' = snaps \cup {loc[p].sbx.ex}
          /\ UNCHANGED loc
       \/ /\ CanFail(p) \/ addr = 0
          /\ MayStopOnNode
          /\ loc' = [loc EXCEPT ![p].err = "failed"]
          /\ UNCHANGED <<hasSnap, snaps>>
    /\ Goto(p, "rm")
    /\ UNCHANGED <<redisVars, lost, now, nextTid, nextEx>>

\* CreateSnapshotTemplate between StartRemoving and finish.  The call fails
\* before the checkpoint (finish(nil)), succeeds (finish(nil)), or Checkpoint
\* itself fails, after which the node may or may not have the sandbox.
CheckpointOnNode(p) ==
    /\ pc[p] = "node" /\ loc[p].act = "snapshot"
    /\ \/ /\ CanFail(p)
          /\ Goto(p, "restore")
          /\ UNCHANGED <<nodeVars, loc>>
       \/ /\ Live(p) /\ addr # 0
          /\ hasSnap' = TRUE
          /\ Goto(p, "restore")
          /\ UNCHANGED <<live, addr, snaps, lost, loc>>
       \/ /\ CanFail(p) \/ addr = 0
          /\ \/ MayStopOnNode
             \/ addr' = 0 /\ UNCHANGED live
          /\ loc' = [loc EXCEPT ![p].err = "failed"]
          /\ Goto(p, "cb")
          /\ UNCHANGED <<hasSnap, snaps, lost>>
    /\ UNCHANGED <<redisVars, now, nextTid, nextEx>>

\* Store.Remove, storage part: obtain the lock, removeSandboxScript.
RemoveRecord(p) ==
    /\ pc[p] = "rm" /\ Live(p) /\ lock = None
    /\ lock' = p
    /\ rec'  = NoRec
    /\ Goto(p, "rm_index")
    /\ UNCHANGED <<exp, tkey, failed, tlock, pending, nodeVars, now, nextTid,
                   nextEx, loc>>

\* ZREM from the expiration index; unlock.
RemoveIndex(p) ==
    /\ pc[p] = "rm_index" /\ Live(p)
    /\ exp'  = NoScore
    /\ lock' = None
    /\ Goto(p, "rm_release")
    /\ UNCHANGED <<rec, tkey, failed, tlock, pending, nodeVars, now, nextTid,
                   nextEx, loc>>

\* Store.Remove, reservations.Release: releaseScript.
ReleaseReservation(p) ==
    /\ pc[p] = "rm_release" /\ Live(p)
    /\ pending' = FALSE
    /\ Goto(p, "cb")
    /\ UNCHANGED <<rec, exp, tkey, failed, lock, tlock, nodeVars, now, nextTid,
                   nextEx, loc>>

\* Every remaining step of RemoveSandbox uses the request's context: once it
\* is cancelled none of them takes effect (their errors are logged).
CancelledRemoval(p) ==
    /\ ~Live(p) /\ loc[p].act # "snapshot"
    /\ pc[p] \in {"rm", "rm_index", "rm_release", "cb", "cb_del"}
    /\ lock'  = IF pc[p] = "rm_index" THEN None ELSE lock
    /\ tlock' = IF pc[p] = "cb_del" THEN None ELSE tlock
    /\ Return(p, IF loc[p].err = "nil" THEN "ok" ELSE "error")
    /\ LoseOutcome(p)
    /\ UNCHANGED <<rec, exp, tkey, failed, pending, live, addr, hasSnap, snaps,
                   now, nextTid, nextEx>>

-----------------------------------------------------------------------------
(* The callback.  A snapshot's finish runs under context.WithoutCancel.    *)

\* Seeded fault: the state is reset to the zero value.
RestoredUnset(s) == IF s.st = "snapshotting" THEN [s EXCEPT !.st = ""] ELSE s

\* Seeded fault: whatever state is found is overwritten.
RestoredAlways(s) == [s EXCEPT !.st = "running"]

\* restoreToRunning: only from the transient state.
Restored(s) == IF s.st = "snapshotting" THEN [s EXCEPT !.st = "running"] ELSE s

\* restoreToRunning, Update: obtain the lock, GET, apply.
RestoreRead(p) ==
    /\ pc[p] = "restore" /\ lock = None
    /\ IF Present(rec)
       THEN /\ lock' = p
            /\ loc'  = [loc EXCEPT ![p].sbx = Restored(rec)]
            /\ Goto(p, "restore_set")
       ELSE /\ loc'  = [loc EXCEPT ![p].err = "restore"]
            /\ Goto(p, "cb")
            /\ UNCHANGED lock
    /\ UNCHANGED <<rec, exp, tkey, failed, tlock, pending, nodeVars, now,
                   nextTid, nextEx>>

\* SET the sandbox (EndTime is unchanged: no re-score); unlock.
RestoreWrite(p) ==
    /\ pc[p] = "restore_set"
    /\ rec'  = loc[p].sbx
    /\ lock' = None
    /\ Goto(p, "cb")
    /\ UNCHANGED <<exp, tkey, failed, tlock, pending, nodeVars, now, nextTid,
                   nextEx, loc>>

\* Does the callback store an error for the waiters?
ResultIsError(l) == l.err = "restore" \/ (l.err = "failed" /\ ~Transient(l.act))

\* Seeded fault: a failed transition is reported as a success.
CallbackResultAlwaysOk(p) ==
    /\ pc[p] = "cb" /\ (Live(p) \/ loc[p].act = "snapshot") /\ tlock = None
    /\ tlock' = p
    /\ Goto(p, "cb_del")
    /\ UNCHANGED <<rec, exp, tkey, failed, lock, pending, nodeVars, now,
                   nextTid, nextEx, loc>>

\* Obtain the lock on the transition key, SET the result key: a SET that fails is
\* only logged.
CallbackResult(p) ==
    /\ pc[p] = "cb" /\ (Live(p) \/ loc[p].act = "snapshot") /\ tlock = None
    /\ tlock' = p
    /\ \/ /\ failed' = IF ResultIsError(loc[p]) THEN failed \cup {loc[p].tid}
                                                 ELSE failed
          /\ UNCHANGED lost
       \/ /\ RedisFails
          /\ LoseOutcome(p)
          /\ UNCHANGED failed
    /\ Goto(p, "cb_del")
    /\ UNCHANGED <<rec, exp, tkey, lock, pending, live, addr, hasSnap, snaps, now,
                   nextTid, nextEx, loc>>

\* The callback is over: RemoveSandbox returns, or CreateSnapshotTemplate goes on
\* to kill after a failed checkpoint.
CallbackReturns(p) ==
    IF loc[p].act = "snapshot" /\ loc[p].err = "failed"
    THEN /\ loc' = [loc EXCEPT ![p] = [@ EXCEPT !.act = "kill", !.err = "nil"]]
         /\ Goto(p, "sr_lock")
    ELSE IF loc[p].err = "nil" THEN Removed(p, "ok") ELSE Return(p, "error")

\* DEL the transition key, whatever it holds; unlock.
CallbackDelete(p) ==
    /\ pc[p] = "cb_del" /\ (Live(p) \/ loc[p].act = "snapshot")
    /\ tkey'  = 0
    /\ tlock' = None
    /\ CallbackReturns(p)
    /\ UNCHANGED <<rec, exp, failed, lock, pending, nodeVars, now, nextTid,
                   nextEx>>

\* A Redis command of the owner fails; every such error is only logged.  Without
\* the lock or with a failed removeSandboxScript the record stays, without the
\* lock on the transition key there is no result, and without its DEL the key
\* stays until its TTL runs out.
OwnerCommandFails(p) ==
    /\ RedisFails /\ (Live(p) \/ loc[p].act = "snapshot")
    /\ \/ /\ pc[p] \in {"rm", "rm_index"}
          /\ Goto(p, "rm_release") /\ UNCHANGED loc
       \/ /\ pc[p] = "rm_release"
          /\ Goto(p, "cb") /\ UNCHANGED loc
       \/ /\ pc[p] \in {"restore", "restore_set"}
          /\ loc' = [loc EXCEPT ![p].err = "restore"]
          /\ Goto(p, "cb")
       \/ /\ pc[p] \in {"cb", "cb_del"}
          /\ CallbackReturns(p)
    /\ IF pc[p] \in {"rm", "cb"} THEN LoseOutcome(p) ELSE UNCHANGED lost
    /\ lock'  = IF pc[p] \in Locked THEN None ELSE lock
    /\ tlock' = IF pc[p] = "cb_del" THEN None ELSE tlock
    /\ UNCHANGED <<rec, exp, tkey, failed, pending, live, addr, hasSnap, snaps,
                   now, nextTid, nextEx>>

\* The kill handler's deleteSnapshot.
DeleteSnapshot(p) ==
    /\ pc[p] = "del_snap" /\ Live(p)
    /\ hasSnap' = FALSE
    /\ Return(p, "ok")
    /\ UNCHANGED <<redisVars, live, addr, snaps, lost, now, nextTid, nextEx>>

-----------------------------------------------------------------------------
(* KeepAliveFor: Update with an end time computed from the request's start. *)

\* getMaxAllowedTTL.
MaxAllowedTTL(t, start, d) ==
    LET left == MaxInstanceLength - (t - start)
    IN  IF left <= 0 THEN 0 ELSE IF left < d THEN left ELSE d

\* Update: obtain the lock, GET, apply updateFunc.
KeepAliveRead(p) ==
    /\ pc[p] = "upd_lock" /\ Live(p) /\ lock = None
    /\ IF /\ rec.st = "running"
          /\ now - rec.start <= MaxInstanceLength
       THEN \E d \in Timeouts, allowShorter \in BOOLEAN :
               LET e == loc[p].at + MaxAllowedTTL(loc[p].at, rec.start, d)
               IN  /\ lock' = p
                   /\ loc'  = [loc EXCEPT ![p] = [@ EXCEPT
                                 !.sbx = IF ~allowShorter /\ e < rec.end THEN rec
                                         ELSE [rec EXCEPT !.end = e],
                                 !.old = rec.end]]
                   /\ Goto(p, "upd_set")
       ELSE /\ Return(p, "error")
            /\ UNCHANGED lock
    /\ UNCHANGED <<rec, exp, tkey, failed, tlock, pending, nodeVars, now,
                   nextTid, nextEx>>

\* SET the sandbox; re-score when EndTime differs from that of the copy read.
KeepAliveWrite(p) ==
    /\ pc[p] = "upd_set" /\ Live(p)
    /\ rec' = loc[p].sbx
    /\ IF loc[p].sbx.end # loc[p].old
       THEN Goto(p, "upd_index") /\ UNCHANGED <<lock, loc>>
       ELSE lock' = None /\ Return(p, "ok")
    /\ UNCHANGED <<exp, tkey, failed, tlock, pending, nodeVars, now, nextTid,
                   nextEx>>

\* ZADD the new score; unlock.  (The node's own copy of EndTime, which
\* UpdateSandbox then sets, is not part of this module.)
KeepAliveIndex(p) ==
    /\ pc[p] = "upd_index" /\ Live(p)
    /\ exp'  = loc[p].sbx.end
    /\ lock' = None
    /\ Return(p, "ok")
    /\ UNCHANGED <<rec, tkey, failed, tlock, pending, nodeVars, now, nextTid,
                   nextEx>>

-----------------------------------------------------------------------------
(* Resume: look at the record, wait for a pause, find the snapshot, create. *)

ResumeGet(p) ==
    /\ pc[p] = "res_get" /\ Live(p)
    /\ CASE ~Present(rec)      -> Goto(p, "res_snap") /\ UNCHANGED loc
         [] rec.st = "pausing" -> Goto(p, "res_wait") /\ UNCHANGED loc
         [] OTHER              -> Return(p, "error")
    /\ UNCHANGED <<redisVars, nodeVars, now, nextTid, nextEx>>

\* WaitForStateChange.
ResumeWait(p) ==
    /\ pc[p] = "res_wait" /\ Live(p)
    /\ loc' = [loc EXCEPT ![p].tid = tkey]
    /\ Goto(p, IF tkey = 0 THEN "res_snap" ELSE "wait_resume")
    /\ UNCHANGED <<redisVars, nodeVars, now, nextTid, nextEx>>

\* The snapshot lookup.
ResumeSnapshot(p) ==
    /\ pc[p] = "res_snap" /\ Live(p)
    /\ IF hasSnap THEN Goto(p, "cr_reserve") /\ UNCHANGED loc
                  ELSE Return(p, "error")
    /\ UNCHANGED <<redisVars, nodeVars, now, nextTid, nextEx>>

\* reserveScript: in the index, pending, or reserved.  (The team limit is the
\* subject of module Reservations.)
Reserve(p) ==
    /\ pc[p] = "cr_reserve" /\ Live(p)
    /\ IF Present(rec) THEN Return(p, "ok") /\ UNCHANGED pending
       ELSE IF pending THEN Goto(p, "cr_wait") /\ UNCHANGED <<loc, pending>>
       ELSE /\ pending' = TRUE
            /\ Goto(p, "cr_place")
            /\ UNCHANGED loc
    /\ UNCHANGED <<rec, exp, tkey, failed, lock, tlock, nodeVars, now, nextTid,
                   nextEx>>

\* waitForStart: until the reservation is gone; the stored result, or its
\* absence, decides.
WaitForStart(p) ==
    /\ pc[p] = "cr_wait" /\ Live(p) /\ ~pending
    /\ \E o \in {"ok", "error"} : Return(p, o)
    /\ UNCHANGED <<redisVars, nodeVars, now, nextTid, nextEx>>

\* Seeded fault: Store.Add stores the end time it is given.
CappedEndUncut(start, e) == e

\* Store.Add: EndTime is cut to StartTime + MaxInstanceLength.
CappedEnd(start, e) ==
    IF e - start > MaxInstanceLength THEN start + MaxInstanceLength ELSE e

\* PlaceSandbox and NewSandbox.
Place(p) ==
    /\ pc[p] = "cr_place"
    /\ \/ /\ Live(p)
          /\ \E d \in Timeouts, ap \in AutoPauses :
                loc' = [loc EXCEPT ![p].sbx =
                          [st |-> "running", start |-> now,
                           end |-> CappedEnd(now, now + d), ex |-> nextEx,
                           ap |-> ap]]
          /\ live' = live \cup {nextEx} /\ addr' = nextEx
          /\ nextEx' = nextEx + 1
          /\ Goto(p, "cr_index")
       \/ /\ CanFail(p)
          /\ loc' = [loc EXCEPT ![p].err = "failed"]
          /\ Goto(p, "cr_finish")
          /\ UNCHANGED <<live, addr, nextEx>>
    /\ UNCHANGED <<redisVars, hasSnap, snaps, lost, now, nextTid>>

\* Add: ZADD the expiration index first.
AddIndex(p) ==
    /\ pc[p] = "cr_index" /\ Live(p)
    /\ exp' = loc[p].sbx.end
    /\ Goto(p, "cr_set")
    /\ UNCHANGED <<rec, tkey, failed, lock, tlock, pending, nodeVars, now,
                   nextTid, nextEx, loc>>

\* Add: addSandboxScript, without the sandbox lock.
AddRecord(p) ==
    /\ pc[p] = "cr_set" /\ Live(p)
    /\ rec' = loc[p].sbx
    /\ Goto(p, "cr_finish")
    /\ UNCHANGED <<exp, tkey, failed, lock, tlock, pending, nodeVars, now,
                   nextTid, nextEx, loc>>

\* ZADD or addSandboxScript fails.
FailedAdd(p) ==
    /\ pc[p] \in {"cr_index", "cr_set"} /\ CommandFails(p)
    /\ loc' = [loc EXCEPT ![p].err = "failed"]
    /\ Goto(p, "cr_finish")
    /\ UNCHANGED <<redisVars, nodeVars, now, nextTid, nextEx>>

MustUndo(p) == loc[p].err = "failed" /\ Present(loc[p].sbx)

\* The deferred finishStart: finishStartScript under context.WithoutCancel; its
\* failure is only logged.
FinishStart(p) ==
    /\ pc[p] = "cr_finish"
    /\ pending' = FALSE \/ (RedisFails /\ UNCHANGED pending)
    /\ IF MustUndo(p) THEN Goto(p, "cr_undo") /\ UNCHANGED loc
       ELSE Return(p, IF loc[p].err = "nil" THEN "ok" ELSE "error")
    /\ UNCHANGED <<rec, exp, tkey, failed, lock, tlock, nodeVars, now, nextTid,
                   nextEx>>

\* The goroutine that removes a placed sandbox that could not be stored; it
\* runs beside finishStart.
UndoPlace(p) ==
    /\ pc[p] \in {"cr_finish", "cr_undo"} /\ MustUndo(p)
    /\ IF NodeFails THEN MayStopOnNode ELSE StopOnNode
    /\ IF pc[p] = "cr_undo" THEN Return(p, "error")
       ELSE /\ loc' = [loc EXCEPT ![p].sbx = NoRec]
            /\ UNCHANGED pc
    /\ UNCHANGED <<redisVars, hasSnap, snaps, lost, now, nextTid, nextEx>>

-----------------------------------------------------------------------------
(* The evictor: ExpiredItems, then RemoveSandbox with Eviction set.        *)

\* ZRANGEBYSCORE -inf now.
EvictScan(p) ==
    /\ p \in Evictors /\ pc[p] = "idle"
    /\ exp # NoScore /\ exp <= now
    /\ loc' = [loc EXCEPT ![p].at = now]
    /\ Goto(p, "ev_mget")
    /\ UNCHANGED <<redisVars, nodeVars, now, nextTid, nextEx>>

\* Seeded fault: an entry that is not due yet is taken for an orphan.
OrphanOrEarly(r, t) == ~Present(r) \/ ~Expired(r, t)

\* An index entry without a sandbox key.
Orphan(r, t) == ~Present(r)

\* MGET and the filter.
EvictGet(p) ==
    /\ pc[p] = "ev_mget"
    /\ CASE Orphan(rec, loc[p].at) ->
              Goto(p, "ev_zrem") /\ UNCHANGED loc
         [] /\ Present(rec)
            /\ Expired(rec, loc[p].at)
            /\ rec.st = "running" \/ now - rec.end > StaleCutoff ->
              /\ loc' = [loc EXCEPT ![p] =
                           [@ EXCEPT !.req = "evict",
                                     !.act = IF rec.ap THEN "pause" ELSE "kill"]]
              /\ Goto(p, "sr_lock")
         [] OTHER -> Return(p, "none")
    /\ UNCHANGED <<redisVars, nodeVars, now, nextTid, nextEx>>

\* ZREM of an index entry whose sandbox key was missing.
EvictOrphan(p) ==
    /\ pc[p] = "ev_zrem"
    /\ exp' = NoScore
    /\ Return(p, "none")
    /\ UNCHANGED <<rec, tkey, failed, lock, tlock, pending, nodeVars, now,
                   nextTid, nextEx>>

-----------------------------------------------------------------------------
(* Crashes and the expiry of what a crashed process leaves in Redis.       *)

\* The API instance of p dies.
Crash(p) ==
    /\ p \in Crashable /\ pc[p] \notin {"idle", "crashed"}
    /\ Goto(p, "crashed")
    /\ LoseOutcome(p)
    /\ UNCHANGED <<redisVars, live, addr, hasSnap, snaps, now, nextTid, nextEx, loc>>

\* A lock's TTL (lockTimeout) runs out only after its holder is gone.
LockExpires ==
    /\ \/ /\ lock # None /\ pc[lock] = "crashed"
          /\ lock' = None /\ UNCHANGED tlock
       \/ /\ tlock # None /\ pc[tlock] = "crashed"
          /\ tlock' = None /\ UNCHANGED lock
    /\ UNCHANGED <<rec, exp, tkey, failed, pending, nodeVars, now, nextTid,
                   nextEx, pc, loc>>

OwnerLives == \E p \in Procs : pc[p] \in Owning /\ loc[p].tid = tkey

\* Seeded fault: transitionKeyTTL is shorter than a transition may take.
TransitionKeyExpiresEarly ==
    /\ tkey # 0
    /\ tkey' = 0
    /\ UNCHANGED <<rec, exp, failed, lock, tlock, pending, nodeVars, now,
                   nextTid, nextEx, pc, loc>>


\* The transition key's TTL (transitionKeyTTL, "longer than the longest
\* expected state transition time") runs out.
TransitionKeyExpires ==
    /\ tkey # 0
    /\ TTLCovers => ~OwnerLives
    /\ tkey' = 0
    /\ UNCHANGED <<rec, exp, failed, lock, tlock, pending, nodeVars, now,
                   nextTid, nextEx, pc, loc>>

\* A result key's TTL (transitionResultKeyTTL) runs out.
ResultKeyExpires ==
    /\ \E t \in failed :
          /\ TTLCovers => \A p \in Procs : ~(pc[p] \in Waiting /\ loc[p].tid = t)
          /\ t # tkey
          /\ failed' = failed \ {t}
    /\ UNCHANGED <<rec, exp, tkey, lock, tlock, pending, nodeVars, now, nextTid,
                   nextEx, pc, loc>>

\* A pending reservation older than staleTTL is dropped by the next reserve.
PendingExpires ==
    /\ pending
    /\ TTLCovers => \A p \in Procs : pc[p] \notin Creating
    /\ pending' = FALSE
    /\ UNCHANGED <<rec, exp, tkey, failed, lock, tlock, nodeVars, now, nextTid,
                   nextEx, pc, loc>>

\* All requests are served: nothing is left to do but wait for the next one.
Quiescent ==
    /\ \A p \in Procs : pc[p] \in {"idle", "crashed"}
    /\ UNCHANGED vars

-----------------------------------------------------------------------------
StorageStep(p) ==
    \/ StartRemovingRead(p) \/ StartRemovingCheck(p) \/ StartTransition(p)
    \/ WaitTransition(p) \/ FailedReturn(p)
    \/ KillOnNode(p) \/ PauseOnNode(p) \/ CheckpointOnNode(p)
    \/ RemoveRecord(p) \/ RemoveIndex(p) \/ ReleaseReservation(p)
    \/ CancelledRemoval(p)
    \/ RestoreRead(p) \/ RestoreWrite(p)
    \/ CallbackResult(p) \/ CallbackDelete(p) \/ OwnerCommandFails(p)
    \/ DeleteSnapshot(p)
    \/ KeepAliveRead(p) \/ KeepAliveWrite(p) \/ KeepAliveIndex(p)
    \/ ResumeGet(p) \/ ResumeWait(p) \/ ResumeSnapshot(p)
    \/ Reserve(p) \/ WaitForStart(p) \/ Place(p)
    \/ AddIndex(p) \/ AddRecord(p) \/ FailedAdd(p)
    \/ FinishStart(p) \/ UndoPlace(p)
    \/ EvictScan(p) \/ EvictGet(p) \/ EvictOrphan(p)

Expiry == LockExpires \/ TransitionKeyExpires \/ ResultKeyExpires \/ PendingExpires

Next ==
    \/ \E p \in Procs : Begin(p) \/ StorageStep(p) \/ Cancel(p) \/ Crash(p)
    \/ Tick \/ Expiry \/ Quiescent

Spec == Init /\ [][Next]_vars

\* Goroutines run on; a lock or key whose TTL has run out disappears.  The
\* jittered retries of redislock (backoff.go) give every process that keeps
\* asking for a lock a turn, hence strong fairness.
FairSpec ==
    /\ Spec
    /\ \A p \in Procs : SF_vars(StorageStep(p))
    /\ WF_vars(LockExpires) /\ WF_vars(TransitionKeyExpires)
    /\ WF_vars(PendingExpires)

-----------------------------------------------------------------------------
(* Properties.                                                             *)

\* The executions the requests of a behaviour can create.
Executions == 1 .. (1 + Cardinality(Users) * MaxRequests)

TypeOK ==
    /\ rec \in Sandboxes
    /\ exp \in Nat \cup {NoScore}
    /\ tkey \in Nat /\ failed \subseteq Nat
    /\ lock \in Procs \cup {None} /\ tlock \in Procs \cup {None}
    /\ pending \in BOOLEAN
    /\ live \subseteq Nat /\ addr \in Nat
    /\ hasSnap \in BOOLEAN /\ snaps \subseteq Nat /\ lost \subseteq Nat
    /\ now \in Nat /\ nextTid \in Nat /\ nextEx \in Nat
    /\ pc \in [Procs -> Labels]
    /\ loc \in [Procs -> Locals]

\* Two requests never drive a transition of the same sandbox at the same time:
\* from startTransitionScript to the callback's DEL a live process is alone
\* (StartRemoving, state_change.go).
AtMostOneTransition ==
    \A p, q \in Procs : pc[p] \in Owning /\ pc[q] \in Owning => p = q

\* While a transition runs, its key is the one in Redis: no callback, expiry
\* or removal of another transition takes it away, so waiters keep waiting.
OwnerKeepsKey ==
    \A p \in Procs : pc[p] \in Owning => tkey = loc[p].tid

\* The sandbox lock is exclusive: who reads and writes the record under it is
\* its holder, also when other requests are cancelled or their instances crash.
LockHeld == \A p \in Procs : pc[p] \in Locked => lock = p

\* What the steps of StartRemoving, the removal and the callback preserve
\* together: a transition starts only under the lock and only when no key is
\* there, and from then on its own key stays (inductive; needs TTLCovers).
TransitionInv ==
    /\ TypeOK
    /\ nextTid > 0
    /\ LockHeld
    /\ \A p \in Procs : pc[p] = "sr_start" => tkey = 0
    /\ \A p \in Procs : pc[p] \in Owning => loc[p].tid # 0
    /\ OwnerKeepsKey
    /\ AtMostOneTransition

\* The state of one execution changes only along AllowedTransitions, whatever
\* stale copy a process writes back: a killed sandbox never runs again.
StateChangesAllowed ==
    [][Present(rec) /\ Present(rec') /\ rec'.ex = rec.ex /\ rec'.st # rec.st
         => Allowed(rec.st, rec'.st)]_vars

\* The storage implements Lifecycle: a record is the sandbox key while it holds
\* one execution, and it is busy while the transition key is there.  Locks,
\* cancelled requests and crashed instances are not visible through the
\* interface; the unlocked Add is, in that an execution may be brought back
\* (needs TTLCovers).
Abstract == INSTANCE Lifecycle WITH
    Records <- Executions,
    Revives <- TRUE,
    st   <- [e \in Executions |-> IF rec.ex = e THEN rec.st ELSE "absent"],
    busy <- [e \in Executions |-> rec.ex = e /\ tkey # 0]

Implements == Abstract!Spec

\* A pause that is answered with success has completed: also when the answer
\* comes from waiting for somebody else's pause, and when that pause fails.  There
\* are two ways to be told wrong, both of checkTransitionResult's "assume success":
\* the pause's owner left without an outcome (its instance crashed or its context
\* was done before the callback, or Redis failed its removal or its result), or
\* Redis failed the waiter's poll while the transition was still going on.
PauseAnswerIsTrue ==
    [][\A p \in Procs :
          /\ loc[p].req = "pause" /\ pc[p] # "idle" /\ pc'[p] = "idle"
          /\ loc'[p].out = "ok"
          => \/ loc[p].sbx.ex \in snaps \cup lost
             \/ RedisFails /\ pc[p] = "wait_same" /\ tkey = loc[p].tid]_vars

\* No request sequence extends a sandbox beyond the team's maximum length
\* (Store.Add and KeepAliveFor with a stale "now").
EndWithinMaxLength ==
    Present(rec) => rec.end <= rec.start + MaxInstanceLength

\* An eviction that starts hits a sandbox that is expired at that moment,
\* however long ago the evictor looked (race with SetTimeout); unless the
\* execution it read has been stored over since, by an Add without the lock.
EvictsOnlyExpired ==
    [][\A p \in Procs :
          /\ loc[p].req = "evict" /\ pc[p] = "sr_start" /\ pc'[p] = "node"
          /\ rec.ex = loc[p].sbx.ex
          => Expired(rec, now)]_vars

\* Of several requests that create the same sandbox only one gets to place it;
\* the others are told to wait (TestReservation_ConcurrentSameSandbox).
OneCreator ==
    \A p, q \in Procs :
        pc[p] \in Creating /\ pc[q] \in Creating => p = q

\* Every request is answered, or its instance crashed: no waiter waits for a
\* transition whose owner is gone, nobody waits for a dead holder's lock.
RequestsReturn ==
    \A p \in Users : pc[p] # "idle" ~> pc[p] \in {"idle", "crashed"}

\* A running sandbox past its end time is removed, extended or replaced.
ExpiredRemoved ==
    \A e \in Executions :
        (rec.st = "running" /\ rec.ex = e /\ Expired(rec, now))
            ~> ~(Present(rec) /\ rec.ex = e /\ Expired(rec, now))
=============================================================================
