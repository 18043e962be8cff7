----------------------------- MODULE NodeServer -----------------------------
(***************************************************************************)
(* The sandbox service of one orchestrator node: the gRPC handlers Create, *)
(* Delete, Pause and Checkpoint (packages/orchestrator/internal/server),   *)
(* the map of sandboxes, the semaphore of starting sandboxes, and the life *)
(* of each instance: its VM, the goroutine that watches the VM, the        *)
(* lifecycle goroutine and the cleanup (internal/sandbox).                 *)
(*                                                                         *)
(* An instance is one value of type *Sandbox; its number stands for the    *)
(* LifecycleID.  A checkpoint replaces the instance of a sandbox by a new  *)
(* one under the same sandbox ID.                                          *)
(***************************************************************************)
EXTENDS Integers, FiniteSets

CONSTANTS
    Handlers,        \* goroutines that serve gRPC calls
    Sids,            \* sandbox IDs
    None,            \* no holder of pauseMu, no sandbox
    Ops,             \* the calls the API may send
    MaxCalls,        \* bound: calls per handler
    MaxInstances,    \* bound: instances ever made
    MaxRunning,      \* MaxSandboxesPerNode
    MaxStarting,     \* maxStartingInstancesPerNode
    AcquireTimesOut, \* may waitForAcquire give up?
    ExportTimesOut,  \* may a snapshot's context end while ExportDiff waits?
    LaunchFails,     \* may the Firecracker process fail to start?
    Crashes,         \* may a VM, or its page fault handler, exit by itself?
    SerialAPI        \* does the API send one call per sandbox at a time, and
                     \* create only what the node does not run?

OpKinds == {"create", "resume", "delete", "pause", "checkpoint"}

ASSUME NodeAssumption ==
    /\ IsFiniteSet(Handlers)
    /\ None \notin Handlers \cup Sids
    /\ Ops \subseteq OpKinds
    /\ MaxCalls \in Nat
    /\ MaxInstances \in Nat
    /\ MaxRunning \in Nat
    /\ MaxStarting \in Nat
    /\ AcquireTimesOut \in BOOLEAN
    /\ ExportTimesOut \in BOOLEAN
    /\ LaunchFails \in BOOLEAN
    /\ Crashes \in BOOLEAN
    /\ SerialAPI \in BOOLEAN

VARIABLES
    map,    \* Sandboxes: the instance under each sandbox ID, 0 if none
    inst,   \* the instances
    nextI,  \* the next instance
    free,   \* free permits of startingSandboxes
    mu,     \* the holder of pauseMu
    pc,     \* where each handler is
    call    \* its call

vars == <<map, inst, nextI, free, mu, pc, call>>

-----------------------------------------------------------------------------
InstanceIds == 1 .. MaxInstances

\* started: MarkRunning was called.  vm: the Firecracker process is not started,
\* runs or is gone.  stop: Stop was called, or the goroutine that calls it was
\* started.  exit: the watcher has set the exit error.  life: the lifecycle
\* goroutine waits.  hook: the close hook of a snapshot was started.  clean: the
\* cleanup has run, from RemoveByLifecycleID to the last file.
Instances == [sid : Sids \cup {None}, started : BOOLEAN, vm : {"none", "runs", "gone"},
              stop : BOOLEAN, exit : BOOLEAN, life : BOOLEAN, hook : BOOLEAN,
              clean : BOOLEAN]

NewInstance(s) == [sid |-> s, started |-> FALSE, vm |-> "none", stop |-> FALSE,
                   exit |-> FALSE, life |-> FALSE, hook |-> FALSE,
                   clean |-> FALSE]

Labels == {"idle", "count", "acquire", "build", "launch", "start", "abort", "life",
           "upload", "del_get", "del_remove", "snap_get", "snap_remove",
           "snap", "export"}

Calls == [op : OpKinds \cup {"none"}, sid : Sids \cup {None}, old : 0 .. MaxInstances,
          new : 0 .. MaxInstances, permit : BOOLEAN, left : 0 .. MaxCalls]

NoCall(n) == [op |-> "none", sid |-> None, old |-> 0, new |-> 0,
              permit |-> FALSE, left |-> n]

Made == {i \in InstanceIds : i < nextI}

\* Nobody runs yet.
Init ==
    /\ map = [s \in Sids |-> 0]
    /\ inst = [i \in InstanceIds |-> NewInstance(None)]
    /\ nextI = 1
    /\ free = MaxStarting
    /\ mu = None
    /\ pc = [h \in Handlers |-> "idle"]
    /\ call = [h \in Handlers |-> NoCall(MaxCalls)]

-----------------------------------------------------------------------------
(* The map of sandboxes.                                                   *)

\* Map.Get: only instances that have been marked running.
Found(s) == map[s] # 0 /\ inst[map[s]].started

\* Map.Count.
Count == Cardinality({s \in Sids : Found(s)})

\* Map.Remove: whatever is under the ID.
Unmap(s) == [map EXCEPT ![s] = 0]

\* Seeded fault: the cleanup removes by sandbox ID.
UnmapBySandbox(i) == Unmap(inst[i].sid)

\* Map.RemoveByLifecycleID.
UnmapLifecycle(i) == IF map[inst[i].sid] = i THEN Unmap(inst[i].sid) ELSE map

-----------------------------------------------------------------------------
(* Handlers: the common steps.                                             *)

Goto(h, l) == pc' = [pc EXCEPT ![h] = l]

\* The deferred stopSandboxAsync of Pause and Checkpoint.  Checkpoint defers
\* it only after waitForAcquire.
StopsOld(c) == c.op = "pause" \/ (c.op = "checkpoint" /\ c.permit)

\* The instances after Stop of those in S (Stop runs once, in a goroutine).
Stopping(I, S) == [i \in InstanceIds |-> IF i \in S THEN [I[i] EXCEPT !.stop = TRUE]
                                                    ELSE I[i]]

\* Seeded faults: a permit released whether or not it was acquired, or never.
ReleasedAlways(c) == free + 1
ReleasedNever(c) == free

\* The deferred Release of the semaphore.
Released(c) == IF c.permit THEN free + 1 ELSE free

\* The handler returns: the deferred stop, the deferred Release.  I is what
\* the step itself makes of the instances.
Return(h, I) ==
    /\ inst' = IF StopsOld(call[h]) THEN Stopping(I, {call[h].old}) ELSE I
    /\ free' = Released(call[h])
    /\ pc'   = [pc EXCEPT ![h] = "idle"]
    /\ call' = [call EXCEPT ![h] = NoCall(@.left)]

FirstLabel(o) == CASE o \in {"create", "resume"}    -> "count"
                   [] o = "delete"                  -> "del_get"
                   [] o \in {"pause", "checkpoint"} -> "snap_get"

\* What the API knows when it keeps to one call per sandbox.
APISends(o, s) ==
    /\ \A g \in Handlers : pc[g] # "idle" => call[g].sid # s
    /\ o \in {"create", "resume"} => map[s] = 0

Begin(h) ==
    /\ pc[h] = "idle" /\ call[h].left > 0
    /\ \E o \in Ops, s \in Sids :
          /\ SerialAPI => APISends(o, s)
          /\ Goto(h, FirstLabel(o))
          /\ call' = [call EXCEPT ![h] = [call[h] EXCEPT !.op = o, !.sid = s,
                                                 !.left = call[h].left - 1]]
    /\ UNCHANGED <<map, inst, nextI, free, mu>>

-----------------------------------------------------------------------------
(* Create.                                                                 *)

\* The limit on running sandboxes, checked before anything else.
CheckCount(h) ==
    /\ pc[h] = "count"
    /\ IF Count >= MaxRunning
       THEN Return(h, inst)
       ELSE Goto(h, "acquire") /\ UNCHANGED <<inst, free, call>>
    /\ UNCHANGED <<map, nextI, mu>>

\* TryAcquire for a new sandbox, waitForAcquire for a resume or a checkpoint.
\* The wait ends without a permit when its context does; the select may then take
\* that branch whether or not a permit is free.
Acquire(h) ==
    /\ pc[h] = "acquire"
    /\ \/ /\ free > 0
          /\ free' = free - 1
          /\ call' = [call EXCEPT ![h].permit = TRUE]
          /\ Goto(h, IF call[h].op = "checkpoint" THEN "snap" ELSE "build")
          /\ UNCHANGED inst
       \/ /\ IF call[h].op = "create" THEN free = 0 ELSE AcquireTimesOut
          /\ Return(h, inst)
    /\ UNCHANGED <<map, nextI, mu>>

\* GetTemplate and ResumeSandbox up to Insert, or a failure before it.
Build(h) ==
    /\ pc[h] = "build"
    /\ \/ /\ nextI \in InstanceIds
          /\ inst' = [inst EXCEPT ![nextI] = NewInstance(call[h].sid)]
          /\ map'  = [map EXCEPT ![call[h].sid] = nextI]
          /\ call' = [call EXCEPT ![h].new = nextI]
          /\ nextI' = nextI + 1
          /\ Goto(h, "launch")
          /\ UNCHANGED free
       \/ /\ Return(h, inst)
          /\ UNCHANGED <<map, nextI>>
    /\ UNCHANGED mu

\* Process.Resume as far as cmd.Start, or a failure before it.  Then Stop finds
\* no process to stop.
Launch(h) ==
    LET n == call[h].new
    IN
    /\ pc[h] = "launch"
    /\ \/ /\ inst' = [inst EXCEPT ![n].vm = "runs"]
          /\ Goto(h, "start")
       \/ /\ LaunchFails
          /\ inst' = Stopping(inst, {n})
          /\ Goto(h, "abort")
    /\ UNCHANGED <<map, nextI, free, mu, call>>

\* The VM resumes and envd answers: MarkRunning and the watcher; or not.
Start(h) ==
    LET n == call[h].new
    IN
    /\ pc[h] = "start"
    /\ \/ /\ inst[n].vm = "runs"
          /\ inst' = [inst EXCEPT ![n].started = TRUE]
          /\ Goto(h, "life")
       \/ /\ inst' = Stopping(inst, {n})
          /\ Goto(h, "abort")
    /\ UNCHANGED <<map, nextI, free, mu, call>>

\* Seeded fault: the cleanup does not wait for the process to exit.
AbortNoWait(h) ==
    /\ pc[h] = "abort"
    /\ map' = UnmapLifecycle(call[h].new)
    /\ Return(h, [inst EXCEPT ![call[h].new].clean = TRUE])
    /\ UNCHANGED <<nextI, mu>>

\* The deferred cleanup of a failed ResumeSandbox: doStop waits for the process
\* to exit.
Abort(h) ==
    LET n == call[h].new
    IN
    /\ pc[h] = "abort" /\ inst[n].vm = "gone"
    /\ map' = UnmapLifecycle(n)
    /\ Return(h, [inst EXCEPT ![n].clean = TRUE])
    /\ UNCHANGED <<nextI, mu>>

\* Seeded fault: the lifecycle goroutine is set up for new sandboxes only.
SetupLifecycleOnCreate(h) ==
    /\ pc[h] = "life"
    /\ IF call[h].op = "checkpoint"
       THEN Goto(h, "upload") /\ UNCHANGED <<inst, free, call>>
       ELSE Return(h, [inst EXCEPT ![call[h].new].life = TRUE])
    /\ UNCHANGED <<map, nextI, mu>>

\* setupSandboxLifecycle.
SetupLifecycle(h) ==
    LET I == [inst EXCEPT ![call[h].new].life = TRUE]
    IN
    /\ pc[h] = "life"
    /\ IF call[h].op = "checkpoint"
       THEN inst' = I /\ Goto(h, "upload") /\ UNCHANGED <<free, call>>
       ELSE Return(h, I)
    /\ UNCHANGED <<map, nextI, mu>>

-----------------------------------------------------------------------------
(* Delete: by sandbox ID and without pauseMu.                              *)

DeleteGet(h) ==
    /\ pc[h] = "del_get"
    /\ IF Found(call[h].sid)
       THEN /\ call' = [call EXCEPT ![h].old = map[call[h].sid]]
            /\ Goto(h, "del_remove")
            /\ UNCHANGED <<inst, free>>
       ELSE Return(h, inst)
    /\ UNCHANGED <<map, nextI, mu>>

DeleteRemove(h) ==
    /\ pc[h] = "del_remove"
    /\ map' = Unmap(call[h].sid)
    /\ Return(h, Stopping(inst, {call[h].old}))
    /\ UNCHANGED <<nextI, mu>>

-----------------------------------------------------------------------------
(* Pause and Checkpoint.                                                   *)

\* acquireSandboxForSnapshot: lock, Get.
SnapshotGet(h) ==
    /\ pc[h] = "snap_get" /\ mu = None
    /\ IF Found(call[h].sid)
       THEN /\ mu' = h
            /\ call' = [call EXCEPT ![h].old = map[call[h].sid]]
            /\ Goto(h, "snap_remove")
            /\ UNCHANGED <<inst, free>>
       ELSE Return(h, inst) /\ UNCHANGED mu
    /\ UNCHANGED <<map, nextI>>

\* Remove, unlock.
SnapshotRemove(h) ==
    /\ pc[h] = "snap_remove"
    /\ map' = Unmap(call[h].sid)
    /\ mu' = None
    /\ Goto(h, IF call[h].op = "pause" THEN "snap" ELSE "acquire")
    /\ UNCHANGED <<inst, nextI, free, call>>

\* Seeded fault: the snapshot does not close the sandbox.
SnapshotNoClose(h) ==
    /\ pc[h] = "snap"
    /\ \/ /\ inst[call[h].old].vm = "runs"
          /\ Goto(h, "export")
          /\ UNCHANGED <<inst, free, call>>
       \/ Return(h, inst)
    /\ UNCHANGED <<map, nextI, mu>>

\* Sandbox.Pause as far as ExportDiff, which closes the sandbox in a goroutine;
\* or a failure.
Snapshot(h) ==
    LET o == call[h].old
    IN
    /\ pc[h] = "snap"
    /\ \/ /\ inst[o].vm = "runs"
          /\ inst' = [Stopping(inst, {o}) EXCEPT ![o].hook = TRUE]
          /\ Goto(h, "export")
          /\ UNCHANGED <<free, call>>
       \/ Return(h, inst)
    /\ UNCHANGED <<map, nextI, mu>>

\* ExportDiff waits until the cleanup has released the device, or its context ends
\* while the close hook runs on.  The pause is then done, and a checkpoint goes on
\* to resume, unless the rest of the snapshot fails.
Export(h) ==
    /\ pc[h] = "export"
    /\ \/ /\ inst[call[h].old].clean \/ ExportTimesOut
          /\ Return(h, inst)
       \/ /\ call[h].op = "checkpoint" /\ inst[call[h].old].clean
          /\ Goto(h, "build")
          /\ UNCHANGED <<inst, free, call>>
    /\ UNCHANGED <<map, nextI, mu>>

\* The upload of the checkpoint: in the background or with success; or it
\* fails and the resumed sandbox is taken down.
Upload(h) ==
    /\ pc[h] = "upload"
    /\ \/ Return(h, inst) /\ UNCHANGED map
       \/ /\ map' = Unmap(call[h].sid)
          /\ Return(h, Stopping(inst, {call[h].new}))
    /\ UNCHANGED <<nextI, mu>>

-----------------------------------------------------------------------------
(* The life of an instance.                                                *)

\* The VM process exits: after Stop, or by itself.
Exit(i) ==
    /\ i \in Made /\ inst[i].vm = "runs"
    /\ inst[i].stop \/ Crashes
    /\ inst' = [inst EXCEPT ![i].vm = "gone"]
    /\ UNCHANGED <<map, nextI, free, mu, pc, call>>

\* The page fault handler exits by itself: the watcher stops the VM.
UffdExit(i) ==
    /\ i \in Made /\ inst[i].started /\ inst[i].vm = "runs" /\ ~inst[i].stop
    /\ Crashes
    /\ inst' = Stopping(inst, {i})
    /\ UNCHANGED <<map, nextI, free, mu, pc, call>>

\* The watcher once the process is gone: Stop, set the exit error.
Watch(i) ==
    /\ i \in Made /\ inst[i].started /\ inst[i].vm = "gone" /\ ~inst[i].exit
    /\ inst' = [inst EXCEPT ![i] = [@ EXCEPT !.stop = TRUE, !.exit = TRUE]]
    /\ UNCHANGED <<map, nextI, free, mu, pc, call>>

\* Close by the lifecycle goroutine after Wait, or by the close hook, which waits
\* for the process in Stop.  The cleanup runs once.
Close(i) ==
    /\ i \in Made /\ ~inst[i].clean
    /\ \/ inst[i].life /\ inst[i].exit
       \/ inst[i].hook /\ inst[i].vm = "gone"
    /\ map'  = UnmapLifecycle(i)
    /\ inst' = [inst EXCEPT ![i].clean = TRUE]
    /\ UNCHANGED <<nextI, free, mu, pc, call>>

\* No call is under way.
Quiescent ==
    /\ \A h \in Handlers : pc[h] = "idle"
    /\ UNCHANGED vars

-----------------------------------------------------------------------------
HandlerStep(h) ==
    \/ CheckCount(h) \/ Acquire(h) \/ Build(h) \/ Launch(h) \/ Start(h)
    \/ Abort(h) \/ SetupLifecycle(h)
    \/ DeleteGet(h) \/ DeleteRemove(h)
    \/ SnapshotGet(h) \/ SnapshotRemove(h) \/ Snapshot(h) \/ Export(h)
    \/ Upload(h)

Background(i) == Watch(i) \/ Close(i)

Next ==
    \/ \E h \in Handlers : Begin(h) \/ HandlerStep(h)
    \/ \E i \in InstanceIds : Exit(i) \/ UffdExit(i) \/ Background(i)
    \/ Quiescent

Spec == Init /\ [][Next]_vars

\* Goroutines run on; a process that was told to stop exits (SIGTERM, then
\* SIGKILL); the semaphore serves its waiters in order and pauseMu is fair,
\* hence strong fairness for the handlers.
FairSpec ==
    /\ Spec
    /\ \A h \in Handlers : SF_vars(HandlerStep(h))
    /\ \A i \in InstanceIds :
          /\ WF_vars(inst[i].stop /\ Exit(i))
          /\ WF_vars(Background(i))

-----------------------------------------------------------------------------
(* Properties.                                                             *)

TypeOK ==
    /\ map \in [Sids -> 0 .. MaxInstances]
    /\ inst \in [InstanceIds -> Instances]
    /\ nextI \in 1 .. MaxInstances + 1
    /\ free \in 0 .. MaxStarting
    /\ mu \in Handlers \cup {None}
    /\ pc \in [Handlers -> Labels]
    /\ call \in [Handlers -> Calls]

\* A VM that runs and is not being stopped can be reached through the map, or
\* a handler has it in hand: no step loses a running sandbox (Checkpoint:
\* "prevents a leaked sandbox that is running but no longer addressable
\* through the map").
NoLeak ==
    \A i \in Made :
        inst[i].vm = "runs" /\ ~inst[i].stop =>
            \/ map[inst[i].sid] = i
            \/ \E h \in Handlers : pc[h] # "idle" /\ i \in {call[h].old, call[h].new}

\* The resources of an instance (network slot, rootfs device, files) are given
\* back only after its VM is gone, whoever runs the cleanup first.
CleanIsDead == \A i \in Made : inst[i].clean => inst[i].vm = "gone"

\* The calls that are starting a sandbox: a creation or a resume between its
\* acquire and its return, a checkpoint already from its snapshot on.
Starting ==
    {h \in Handlers :
        \/ pc[h] \in {"build", "launch", "start", "abort", "life", "upload"}
        \/ pc[h] \in {"snap", "export"} /\ call[h].op = "checkpoint"}

\* A permit of the starting semaphore is missing exactly for each call that is
\* starting a sandbox: none stays out after a return, on any error path of Create
\* and Checkpoint, and none is given back twice or by a call that had none.  A call
\* that never returns keeps its permit; that calls return is CallsReturn.
PermitsConserved == free = MaxStarting - Cardinality(Starting)

\* An instance whose VM is gone or told to go is cleaned up in the end, and is
\* then not in the map any more: by its handler, a snapshot's close hook or
\* the lifecycle goroutine.
DeadIsCleaned ==
    \A i \in InstanceIds :
        (i \in Made /\ (inst[i].stop \/ inst[i].vm = "gone")) ~>
            (inst[i].clean /\ \A s \in Sids : map[s] # i)

\* Every call returns, however its waits interleave: a checkpoint or a resume that
\* waits for the semaphore, a snapshot that waits for the cleanup of its own VM
\* (nbd.go:93), a failed start that waits for its process.  For launches that
\* succeed and contexts that do not end: after a failed launch doStop waits for the
\* exit of a process that was never started (sandbox.go:875), and the call keeps
\* its permit.
CallsReturn == \A h \in Handlers : pc[h] # "idle" ~> pc[h] = "idle"
=============================================================================
