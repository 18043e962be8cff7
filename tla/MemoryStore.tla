---------------------------- MODULE MemoryStore ----------------------------
(***************************************************************************)
(* The life of one sandbox ID in the API's in-memory sandbox store, the    *)
(* default backend: packages/api/internal/sandbox/storage/memory with the  *)
(* in-memory reservations, Store.Add / Remove / Sync, the periodic node    *)
(* synchronisation and the request flows that call them.                   *)
(*                                                                         *)
(* All of it is state of one API process.  A map lookup returns a pointer, *)
(* so a goroutine may hold an item that has meanwhile been removed from    *)
(* the map or replaced: items are objects here, and a goroutine's item is  *)
(* one of its locals.  One action is one critical section (item.mu, a map  *)
(* shard's lock) or one call to the node, with the Go code up to the next. *)
(*                                                                         *)
(* Time is abstracted to what the code compares: whether an item's EndTime *)
(* has passed and whether it outlived the grace period of Sync.            *)
(***************************************************************************)
EXTENDS SandboxStates, Integers, FiniteSets

CONSTANTS
    Users,        \* goroutines that serve API requests
    Evictors,     \* goroutines of the evictor loop
    Syncers,      \* the goroutine that synchronises the sandbox's node, if any
    MaxItems,     \* bound: memorySandbox objects alive at the same time
    None,         \* nil
    Requests,     \* the requests users may issue
    MaxRequests,  \* bound: requests per user
    MaxExec,      \* bound: executions
    NodeFails     \* may calls to the node or the database fail?

Procs == Users \cup Evictors \cup Syncers

\* Identities of memorySandbox objects.
Items == 1 .. MaxItems

RequestKinds == {"kill", "pause", "snapshot", "keepalive", "resume"}

ASSUME MemoryAssumption ==
    /\ Users \cap Evictors = {} /\ Syncers \cap (Users \cup Evictors) = {}
    /\ None \notin Procs /\ MaxItems \in Nat \ {0}
    /\ Requests \subseteq RequestKinds
    /\ MaxRequests \in Nat /\ MaxExec \in Nat \ {0}
    /\ NodeFails \in BOOLEAN

VARIABLES
    items,    \* the memorySandbox objects
    cur,      \* the object Storage.items holds under the sandbox ID, 0 if none
    old,      \* is that object past the grace period of Sync?
    res,      \* its reservation: none, done, or the goroutine that starts it
    addr,     \* the execution the node has under the sandbox ID, 0 if none
    hasSnap,  \* has the database a snapshot of the sandbox?
    nextEx,   \* the next execution ID
    pc, loc

vars == <<items, cur, old, res, addr, hasSnap, nextEx, pc, loc>>
storeVars == <<items, cur, old, res>>
worldVars == <<addr, hasSnap, nextEx>>

-----------------------------------------------------------------------------
(* Types and the initial state.                                            *)

\* tr is the field transition: nil, an ErrorOnce not yet set, or one that keeps
\* its error.
MemorySandbox == [st : States \cup {"absent"}, tr : {"nil", "open", "failed"},
                  ex : 0 .. MaxExec, expired : BOOLEAN]

Free == [st |-> "absent", tr |-> "nil", ex |-> 0, expired |-> FALSE]

\* Seeded fault: the state is left at its zero value.
FreshUnset(e) == [Free EXCEPT !.ex = e]

\* NewSandbox, newMemorySandbox: no transition, end time ahead.
Fresh(e) == [Free EXCEPT !.st = "running", !.ex = e]

\* Driving a transition; between Reserve and finishStart.
Owning   == {"node", "rm_item", "rm_release", "cb"}
Creating == {"place", "add_item", "add_reserve", "finish"}
Labels   == Owning \cup Creating \cup
            {"idle", "sr_get", "sr_lock", "wait", "del_snap", "upd_get",
             "upd_lock", "res_get", "res_wait", "res_read", "wait_res",
             "res_snap", "reserve", "wait_start", "sy_expire", "sy_check"}

Locals == [req : RequestKinds \cup {"evict", "none"}, act : Actions,
           it : 0 .. MaxItems, seen : States, got : {"unset", "nil", "err"},
           on : Procs \cup {None}, err : BOOLEAN, ex : 0 .. MaxExec, budget : Nat]

IdleLocals(b) == [req |-> "none", act |-> "kill", it |-> 0, seen |-> "running",
                  got |-> "unset", on |-> None, err |-> FALSE, ex |-> 0,
                  budget |-> b]

\* The sandbox is stored and runs, or the API has just started with an empty
\* store: the node may have the sandbox from before, or it has been paused.
Init ==
    /\ \E known, runs \in BOOLEAN :
          /\ items = [i \in Items |-> IF known /\ i = 1 THEN Fresh(1) ELSE Free]
          /\ cur  = IF known THEN 1 ELSE 0
          /\ res  = IF known THEN "done" ELSE "none"
          /\ addr = IF known \/ runs THEN 1 ELSE 0
    /\ old = FALSE
    /\ hasSnap \in BOOLEAN /\ nextEx = 2
    /\ pc  = [p \in Procs |-> "idle"]
    /\ loc = [p \in Procs |-> IdleLocals(MaxRequests)]

-----------------------------------------------------------------------------
(* Helpers.                                                                *)

Goto(p, l) == pc' = [pc EXCEPT ![p] = l]

Return(p) ==
    /\ Goto(p, "idle")
    /\ loc' = [loc EXCEPT ![p] = IdleLocals(@.budget)]

\* RemoveSandbox returned nil or ErrSandboxNotFound: the kill handler goes on to
\* delete the snapshot.
Removed(p) ==
    IF loc[p].req = "kill"
    THEN /\ Goto(p, "del_snap")
         /\ loc' = [loc EXCEPT ![p] = [IdleLocals(@.budget) EXCEPT !.req = "kill"]]
    ELSE Return(p)

\* What holds the pointer to an object: the map or a goroutine.
Referenced(o) == o = cur \/ \E p \in Procs : loc[p].it = o

Garbage == {o \in Items : ~Referenced(o) /\ items[o] # Free}

\* External: Go's garbage collector; the identities can be used again.
Collect ==
    /\ Garbage # {}
    /\ items' = [o \in Items |-> IF o \in Garbage THEN Free ELSE items[o]]
    /\ UNCHANGED <<cur, old, res, worldVars, pc, loc>>

-----------------------------------------------------------------------------
(* Requests arrive; time passes; a VM dies.                                *)

Begin(p) ==
    /\ p \in Users /\ pc[p] = "idle" /\ loc[p].budget > 0
    /\ \E r \in Requests :
          /\ Goto(p, CASE r \in Actions   -> "sr_get"
                       [] r = "keepalive" -> "upd_get"
                       [] r = "resume"    -> "res_get")
          /\ loc' = [loc EXCEPT ![p] =
                       [IdleLocals(@.budget - 1) EXCEPT
                          !.req = r, !.act = IF r \in Actions THEN r ELSE "kill"]]
    /\ UNCHANGED <<storeVars, worldVars>>

\* EndTime passes; only for an item somebody may still ask for it.
Expire(o) ==
    /\ o = cur \/ \E e \in Evictors : loc[e].it = o
    /\ ~items[o].expired
    /\ items' = [items EXCEPT ![o].expired = TRUE]
    /\ UNCHANGED <<cur, old, res, worldVars, pc, loc>>

\* syncSandboxRemoveGracePeriod after StartTime.  The grace period (10 s) is
\* longer than a synchronisation takes from the node's answer to its use.
Age ==
    /\ Syncers # {} /\ cur # 0 /\ ~old
    /\ \A s \in Syncers : pc[s] # "sy_expire"
    /\ old' = TRUE
    /\ UNCHANGED <<items, cur, res, worldVars, pc, loc>>

VMDies ==
    /\ addr # 0
    /\ addr' = 0
    /\ UNCHANGED <<storeVars, hasSnap, nextEx, pc, loc>>

-----------------------------------------------------------------------------
(* StartRemoving.                                                          *)

\* Storage.get: the pointer, or ErrNotFound.
StartRemovingGet(p) ==
    /\ pc[p] = "sr_get"
    /\ IF cur = 0 THEN Removed(p)
       ELSE /\ loc' = [loc EXCEPT ![p].it = cur]
            /\ Goto(p, "sr_lock")
    /\ UNCHANGED <<storeVars, worldVars>>

\* setExpired, unless the action is transient; State; a new ErrorOnce.
Started(i, a) ==
    [i EXCEPT !.st = TargetState(a), !.tr = "open", !.expired = @ \/ ~Transient(a)]

\* Seeded fault: a finished transition's result is not consulted.
MayStartBusy(i, t) == i.st # t /\ Allowed(i.st, t)

\* No transition in place and AllowedTransitions.
MayStart(i, t) == i.tr = "nil" /\ i.st # t /\ Allowed(i.st, t)

\* startRemoving, under item.mu.
StartRemovingLocked(p) ==
    LET o == loc[p].it
        i == items[o]
        t == TargetState(loc[p].act)
        evictable == loc[p].req # "evict" \/ (i.tr = "nil" /\ i.expired)
    IN
    /\ pc[p] = "sr_lock"
    /\ \/ \* ErrNotEvictable
          /\ ~evictable
          /\ Return(p) /\ UNCHANGED items
       \/ /\ evictable /\ MayStart(i, t)
          /\ items' = [items EXCEPT ![o] = Started(i, loc[p].act)]
          /\ Goto(p, "node") /\ UNCHANGED loc
       \/ /\ evictable /\ ~MayStart(i, t)
          /\ UNCHANGED items
          /\ CASE i.tr # "nil" /\ (i.st = t \/ Allowed(i.st, t)) ->
                     /\ loc' = [loc EXCEPT ![p] =
                                  [@ EXCEPT !.seen = i.st,
                                            !.got = IF i.tr = "failed" THEN "err"
                                                                       ELSE "unset"]]
                     /\ Goto(p, "wait")
               [] i.tr = "nil" /\ i.st = t /\ loc[p].act # "snapshot" -> Removed(p)
               [] OTHER -> Return(p)
    /\ UNCHANGED <<cur, old, res, worldVars>>

\* RemoveSandbox takes an error for "already killed" if the item is killing.
RemoveFailed(p) ==
    IF loc[p].act = "kill" /\ items[loc[p].it].st = "killing"
    THEN Removed(p) ELSE Return(p)

\* transition.WaitWithContext and what follows.  (An eviction never waits.)
WaitTransition(p) ==
    /\ pc[p] = "wait" /\ loc[p].got # "unset"
    /\ CASE loc[p].got = "err" -> RemoveFailed(p)
         [] loc[p].got = "nil" /\ loc[p].seen = TargetState(loc[p].act) ->
              IF loc[p].act = "snapshot" THEN Return(p) ELSE Removed(p)
         [] OTHER -> /\ Goto(p, "sr_lock")
                     /\ loc' = [loc EXCEPT ![p] = [@ EXCEPT !.got = "unset",
                                                            !.seen = "running"]]
    /\ UNCHANGED <<storeVars, worldVars>>

\* The context of a request ends while it waits: the client disconnects or the
\* deadline of RequestTimeout passes.
CancelWait(p) ==
    /\ p \in Users /\ pc[p] \in {"wait", "wait_res", "wait_start"}
    /\ loc[p].got = "unset"
    /\ IF pc[p] = "wait" THEN RemoveFailed(p) ELSE Return(p)
    /\ UNCHANGED <<storeVars, worldVars>>

-----------------------------------------------------------------------------
(* The work of the transition's owner: RemoveSandbox, CreateSnapshotTemplate. *)

\* killSandboxOnNode: by sandbox ID, an error when the node has none.  A call
\* that fails may or may not have stopped the VM.
KillOnNode(p) ==
    /\ pc[p] = "node" /\ loc[p].act = "kill"
    /\ \/ addr # 0 /\ addr' = 0 /\ UNCHANGED loc
       \/ /\ NodeFails \/ addr = 0
          /\ addr' \in {0, addr}
          /\ loc' = [loc EXCEPT ![p].err = TRUE]
    /\ Goto(p, "rm_item")
    /\ UNCHANGED <<storeVars, hasSnap, nextEx>>

PauseOnNode(p) ==
    /\ pc[p] = "node" /\ loc[p].act = "pause"
    /\ \/ addr # 0 /\ addr' = 0 /\ hasSnap' = TRUE /\ UNCHANGED loc
       \/ /\ NodeFails \/ addr = 0
          /\ addr' \in {0, addr}
          /\ loc' = [loc EXCEPT ![p].err = TRUE]
          /\ UNCHANGED hasSnap
    /\ Goto(p, "rm_item")
    /\ UNCHANGED <<storeVars, nextEx>>

\* A failure before Checkpoint finishes the transition with nil.
CheckpointOnNode(p) ==
    /\ pc[p] = "node" /\ loc[p].act = "snapshot"
    /\ \/ NodeFails /\ UNCHANGED <<addr, hasSnap, loc>>
       \/ addr # 0 /\ hasSnap' = TRUE /\ UNCHANGED <<addr, loc>>
       \/ /\ NodeFails \/ addr = 0
          /\ addr' \in {0, addr}
          /\ loc' = [loc EXCEPT ![p].err = TRUE]
          /\ UNCHANGED hasSnap
    /\ Goto(p, "cb")
    /\ UNCHANGED <<storeVars, nextEx>>

\* Store.Remove: whatever is under the ID leaves the map ...
RemoveItem(p) ==
    /\ pc[p] = "rm_item"
    /\ cur' = 0 /\ old' = FALSE
    /\ Goto(p, "rm_release")
    /\ UNCHANGED <<items, res, worldVars, loc>>

\* ... and the reservation is released.
RemoveRelease(p) ==
    /\ pc[p] = "rm_release"
    /\ res' = "none"
    /\ Goto(p, "cb")
    /\ UNCHANGED <<items, cur, old, worldVars, loc>>

\* Seeded fault: the ErrorOnce of a failed transition is never set.
WokenUnlessFailed(p, o, r) ==
    [q \in Procs |->
       IF /\ q # p /\ loc[q].it = o /\ loc[q].got = "unset"
          /\ pc[q] \in {"wait", "wait_res"} /\ r = "nil"
       THEN [loc[q] EXCEPT !.got = r] ELSE loc[q]]

\* ErrorOnce.SetError: everybody who waits on the object's transition.
Woken(p, o, r) ==
    [q \in Procs |->
       IF /\ q # p /\ loc[q].it = o /\ loc[q].got = "unset"
          /\ pc[q] \in {"wait", "wait_res"}
       THEN [loc[q] EXCEPT !.got = r] ELSE loc[q]]

\* The item once its transition is over: a transient one is restored on success
\* and never reports an error; a failed one keeps its transition.
Completed(i, a, err) ==
    [i EXCEPT !.st = IF Transient(a) /\ ~err /\ @ = TargetState(a) THEN "running" ELSE @,
              !.tr = IF err /\ ~Transient(a) THEN "failed" ELSE "nil"]

\* The callback; after a failed checkpoint CreateSnapshotTemplate goes on to kill.
Callback(p) ==
    LET o == loc[p].it
        a == loc[p].act
        err == loc[p].err
        woken == Woken(p, o, IF err /\ ~Transient(a) THEN "err" ELSE "nil")
    IN
    /\ pc[p] = "cb"
    /\ items' = [items EXCEPT ![o] = Completed(@, a, err)]
    /\ IF Transient(a) /\ err
       THEN /\ Goto(p, "sr_get")
            /\ loc' = [woken EXCEPT ![p] = [IdleLocals(@.budget) EXCEPT
                                              !.req = "snapshot", !.act = "kill"]]
       ELSE IF loc[p].req = "kill" /\ ~err
       THEN /\ Goto(p, "del_snap")
            /\ loc' = [woken EXCEPT ![p] = [IdleLocals(@.budget) EXCEPT !.req = "kill"]]
       ELSE Goto(p, "idle") /\ loc' = [woken EXCEPT ![p] = IdleLocals(@.budget)]
    /\ UNCHANGED <<cur, old, res, worldVars>>

\* The kill handler's deleteSnapshot.
DeleteSnapshot(p) ==
    /\ pc[p] = "del_snap"
    /\ hasSnap' = FALSE
    /\ Return(p)
    /\ UNCHANGED <<storeVars, addr, nextEx>>

-----------------------------------------------------------------------------
(* KeepAliveFor.                                                           *)

UpdateGet(p) ==
    /\ pc[p] = "upd_get"
    /\ IF cur = 0 THEN Return(p)
       ELSE loc' = [loc EXCEPT ![p].it = cur] /\ Goto(p, "upd_lock")
    /\ UNCHANGED <<storeVars, worldVars>>

\* updateFunc: refused unless running; the end time moves into the future, or
\* stays because it would be shorter or the maximum length is exceeded.
Update(p) ==
    /\ pc[p] = "upd_lock"
    /\ \/ /\ items[loc[p].it].st = "running"
          /\ items' = [items EXCEPT ![loc[p].it].expired = FALSE]
       \/ UNCHANGED items
    /\ Return(p)
    /\ UNCHANGED <<cur, old, res, worldVars>>

-----------------------------------------------------------------------------
(* Resume and CreateSandbox.                                               *)

\* On to the snapshot lookup; the item is not needed any more.
ToSnapshot(p) ==
    /\ Goto(p, "res_snap")
    /\ loc' = [loc EXCEPT ![p] = [IdleLocals(@.budget) EXCEPT !.req = "resume"]]

\* GetSandbox and the handler's switch on the state.
ResumeGet(p) ==
    /\ pc[p] = "res_get"
    /\ CASE cur = 0                -> ToSnapshot(p)
         [] cur # 0 /\ items[cur].st = "pausing"
                                      -> Goto(p, "res_wait") /\ UNCHANGED loc
         [] OTHER                     -> Return(p)
    /\ UNCHANGED <<storeVars, worldVars>>

\* WaitForStateChange: the lookup fails if the item has been removed meanwhile.
ResumeLookup(p) ==
    /\ pc[p] = "res_wait"
    /\ IF cur = 0 THEN Return(p)
       ELSE loc' = [loc EXCEPT ![p].it = cur] /\ Goto(p, "res_read")
    /\ UNCHANGED <<storeVars, worldVars>>

\* waitForStateChange reads the transition.
ResumeRead(p) ==
    /\ pc[p] = "res_read"
    /\ CASE items[loc[p].it].tr = "nil"    -> ToSnapshot(p)
         [] items[loc[p].it].tr = "open"   -> Goto(p, "wait_res") /\ UNCHANGED loc
         [] items[loc[p].it].tr = "failed" -> Return(p)
    /\ UNCHANGED <<storeVars, worldVars>>

\* ... and waits for it.
ResumeWait(p) ==
    /\ pc[p] = "wait_res" /\ loc[p].got # "unset"
    /\ IF loc[p].got = "nil" THEN ToSnapshot(p) ELSE Return(p)
    /\ UNCHANGED <<storeVars, worldVars>>

ResumeSnapshot(p) ==
    /\ pc[p] = "res_snap"
    /\ IF hasSnap
       THEN Goto(p, "reserve") /\ UNCHANGED loc
       ELSE Return(p)
    /\ UNCHANGED <<storeVars, worldVars>>

\* ReservationStorage.Reserve: reserved; refused, when the team's other sandboxes
\* (not modelled) are as many as it may have; or the reservation's waitForStart.
Reserve(p) ==
    /\ pc[p] = "reserve"
    /\ \/ res = "none" /\ res' = p /\ Goto(p, "place") /\ UNCHANGED loc
       \/ res = "none" /\ Return(p) /\ UNCHANGED res
       \/ res = "done" /\ Return(p) /\ UNCHANGED res
       \/ /\ res \notin {"none", "done"}
          /\ loc' = [loc EXCEPT ![p].on = res]
          /\ Goto(p, "wait_start")
          /\ UNCHANGED res
    /\ UNCHANGED <<items, cur, old, worldVars>>

\* startResult.WaitWithContext.
WaitForStart(p) ==
    /\ pc[p] = "wait_start" /\ loc[p].got # "unset"
    /\ Return(p)
    /\ UNCHANGED <<storeVars, worldVars>>

\* PlaceSandbox.
Place(p) ==
    /\ pc[p] = "place"
    /\ \/ /\ nextEx <= MaxExec
          /\ addr' = nextEx /\ nextEx' = nextEx + 1
          /\ loc' = [loc EXCEPT ![p].ex = nextEx]
          /\ Goto(p, "add_item")
       \/ /\ NodeFails \/ nextEx > MaxExec
          /\ loc' = [loc EXCEPT ![p].err = TRUE]
          /\ Goto(p, "finish")
          /\ UNCHANGED <<addr, nextEx>>
    /\ UNCHANGED <<storeVars, hasSnap>>

\* Store.Add, storage part: SetIfAbsent; ErrAlreadyExists is only logged.  What a
\* synchronisation adds may be past its end time or its grace period already.
AddItem(p) ==
    /\ pc[p] = "add_item"
    /\ IF cur = 0
       THEN LET unused == {o \in Items : items[o] = Free}
                o == CHOOSE u \in unused : \A v \in unused : u <= v
            IN /\ unused # {}
               /\ cur' = o
               /\ \E late, expired \in IF p \in Syncers THEN BOOLEAN ELSE {FALSE} :
                     /\ items' = [items EXCEPT ![o] =
                                    [Fresh(loc[p].ex) EXCEPT !.expired = expired]]
                     /\ old' = late
       ELSE UNCHANGED <<items, cur, old>>
    /\ Goto(p, "add_reserve")
    /\ UNCHANGED <<res, worldVars, loc>>

\* "Ensure the team reservation is set - no limit."  A reservation made here is
\* finished at once.
AddReserve(p) ==
    /\ pc[p] = "add_reserve"
    /\ res' = IF res = "none" THEN "done" ELSE res
    /\ IF p \in Syncers THEN Return(p) ELSE Goto(p, "finish") /\ UNCHANGED loc
    /\ UNCHANGED <<items, cur, old, worldVars>>

\* The deferred finishStart: the result for the waiters; on error Release, by ID.
FinishStart(p) ==
    /\ pc[p] = "finish"
    /\ res' = IF loc[p].err THEN "none" ELSE IF res = p THEN "done" ELSE res
    /\ Goto(p, "idle")
    /\ loc' = [q \in Procs |->
                 IF q = p THEN IdleLocals(loc[q].budget)
                 ELSE IF pc[q] = "wait_start" /\ loc[q].on = p
                 THEN [loc[q] EXCEPT !.on = None, !.got = "nil"] ELSE loc[q]]
    /\ UNCHANGED <<items, cur, old, worldVars>>

-----------------------------------------------------------------------------
(* The evictor: ExpiredItems, then RemoveSandbox with Eviction set.        *)

EvictScan(p) ==
    /\ p \in Evictors /\ pc[p] = "idle"
    /\ cur # 0 /\ items[cur].st = "running" /\ items[cur].expired
    /\ \E a \in {"kill", "pause"} :
          loc' = [loc EXCEPT ![p] = [@ EXCEPT !.req = "evict", !.act = a]]
    /\ Goto(p, "sr_get")
    /\ UNCHANGED <<storeVars, worldVars>>

-----------------------------------------------------------------------------
(* Node.Sync and Store.Sync.                                               *)

\* GetSandboxes: the node's list; the sandboxes are stored later.
SyncList(p) ==
    /\ p \in Syncers /\ pc[p] = "idle"
    /\ loc' = [loc EXCEPT ![p].ex = addr]
    /\ Goto(p, "sy_expire")
    /\ UNCHANGED <<storeVars, worldVars>>

\* Seeded fault: an item in its grace period may be expired too.
GoneEarly(i) == ~i.expired

\* Seeded fault: the grace period compared the wrong way round.
GoneYoung(i) == ~i.expired /\ ~old

\* An item the node should have listed: not expired, past its grace period.
Gone(i) == ~i.expired /\ old

\* Storage.Sync: an item whose sandbox ID is not in the list expires.
SyncExpire(p) ==
    /\ pc[p] = "sy_expire"
    /\ items' = IF cur # 0 /\ loc[p].ex = 0 /\ Gone(items[cur])
                THEN [items EXCEPT ![cur].expired = TRUE] ELSE items
    /\ Goto(p, "sy_check")
    /\ UNCHANGED <<cur, old, res, worldVars, loc>>

\* Seeded fault: what the node lists is not added to the store.
ToBeAddedNever(e) == FALSE

\* In the list and not in the store.
ToBeAdded(e) == e # 0 /\ cur = 0

\* Storage.Sync: what is to be added.
SyncCheck(p) ==
    /\ pc[p] = "sy_check"
    /\ IF ToBeAdded(loc[p].ex) THEN Goto(p, "add_item") /\ UNCHANGED loc
       ELSE Return(p)
    /\ UNCHANGED <<storeVars, worldVars>>

-----------------------------------------------------------------------------
\* A step of a goroutine's code, as opposed to what happens to it.
Step(p) ==
    \/ StartRemovingGet(p) \/ StartRemovingLocked(p) \/ WaitTransition(p)
    \/ KillOnNode(p) \/ PauseOnNode(p) \/ CheckpointOnNode(p)
    \/ RemoveItem(p) \/ RemoveRelease(p) \/ Callback(p) \/ DeleteSnapshot(p)
    \/ UpdateGet(p) \/ Update(p)
    \/ ResumeGet(p) \/ ResumeLookup(p) \/ ResumeRead(p) \/ ResumeWait(p)
    \/ ResumeSnapshot(p) \/ Reserve(p) \/ WaitForStart(p) \/ Place(p)
    \/ AddItem(p) \/ AddReserve(p) \/ FinishStart(p)
    \/ EvictScan(p)
    \/ SyncList(p) \/ SyncExpire(p) \/ SyncCheck(p)

Next ==
    \/ Collect
    \/ /\ Garbage = {}
       /\ \/ \E p \in Procs : Begin(p) \/ Step(p) \/ CancelWait(p)
          \/ \E o \in Items : Expire(o)
          \/ Age \/ VMDies

Spec == Init /\ [][Next]_vars

\* Goroutines run on, the sync ticker fires, and a grace period ends (strongly
\* fair: it is as long as the pause between two synchronisations).  End times,
\* disconnects and VM deaths may come or not.  (That garbage is collected before
\* the next step costs no behaviour: nobody can see it.)
FairSpec ==
    /\ Spec
    /\ \A p \in Procs : WF_vars(Step(p))
    /\ SF_vars(Age) /\ WF_vars(Collect)

-----------------------------------------------------------------------------
(* Properties.                                                             *)

TypeOK ==
    /\ items \in [Items -> MemorySandbox]
    /\ cur \in 0 .. MaxItems /\ old \in BOOLEAN
    /\ cur # 0 => items[cur].st \in States
    /\ res \in {"none", "done"} \cup Procs
    /\ addr \in 0 .. MaxExec /\ hasSnap \in BOOLEAN
    /\ nextEx \in 1 .. MaxExec + 1
    /\ pc \in [Procs -> Labels] /\ loc \in [Procs -> Locals]

\* Transitions of one item exclude each other: two goroutines between
\* startRemoving and their callback never hold the same memorySandbox, also
\* when one of them got its pointer before the item left the map.
OneOwner ==
    \A p, q \in Procs :
        pc[p] \in Owning /\ pc[q] \in Owning /\ loc[p].it = loc[q].it => p = q

\* Nobody waits for a signal that cannot come any more: behind every waiter on
\* an ErrorOnce stands the goroutine that will set it, and behind every waiter
\* on a reservation the goroutine that starts the sandbox.
WaitersHaveOwners ==
    \A p \in Procs : loc[p].got = "unset" =>
        /\ pc[p] \in {"wait", "wait_res"} =>
              \E q \in Procs : pc[q] \in Owning /\ loc[q].it = loc[p].it
        /\ pc[p] = "wait_start" => pc[loc[p].on] \in Creating

\* The storage implements Lifecycle with one record per memorySandbox; its Add
\* stores over nothing.
Abstract == INSTANCE Lifecycle WITH
    Records <- Items,
    Revives <- FALSE,
    st   <- [o \in Items |-> items[o].st],
    busy <- [o \in Items |-> items[o].tr # "nil"]

Implements == Abstract!Spec

\* A synchronisation never expires a sandbox that runs: one that was placed after
\* the node answered is missing in its list but is still in its grace period.
SyncSparesNew ==
    [][\A s \in Syncers, o \in Items :
         pc[s] = "sy_expire" /\ pc'[s] = "sy_check" /\ items[o].ex = addr
           => items'[o].expired = items[o].expired]_vars

\* A sandbox the node runs is in the store again after a synchronisation, after
\* a failed removal, a removal of the wrong item or a restart of the API lost it.
ListedIsStored == (addr # 0 /\ cur = 0) ~> (addr = 0 \/ cur # 0)

\* A record of a sandbox its node no longer has is removed, long before its end
\* time (keepInSync: "to handle instances that died").
DeadIsRemoved == (cur # 0 /\ addr = 0) ~> (cur = 0 \/ addr # 0)

\* Every request is answered.
RequestsReturn == \A p \in Users : pc[p] # "idle" ~> pc[p] = "idle"
=============================================================================
