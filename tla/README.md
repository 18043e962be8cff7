# The life of a sandbox, specified

This directory holds a TLA+ development of the core of the E2B infrastructure:
what happens to a sandbox from its creation to its removal. It covers the API's
two sandbox stores (in Redis and in memory) with the requests that work on them,
the team's limit on concurrent sandboxes, the service of the orchestrator node
that runs the VMs, and the network slots and block devices a VM needs. An
abstract specification says what both stores promise, and both are shown to
implement it. TLC checks small instances of the modules. TLAPS proves the most
important properties for every value of the constants.

Run a check with `tlc -config MCNode.cfg MCNodeServer`, a proof with
`tlapm NodeServerProofs.tla`. `PROJECT.json` lists the runs, the source lines
behind every definition, the hazards, the findings and the theorems.

## Inventory

A client talks to the **API**. Every API instance runs the same stateless
handlers over a shared **Redis** and a Postgres database. The API places
sandboxes on **orchestrator** nodes over gRPC. A node runs each sandbox as a
Firecracker VM. A **client proxy** finds the node of a sandbox in a routing
catalog (Redis) and forwards traffic to the node's own proxy. Several API
instances, several goroutines per instance, and the evictor loop of each of them
act on the same sandbox at the same time, with no coordination but Redis.

| Component | State | Operations | Hard behaviour | What makes it correct |
|---|---|---|---|---|
| Sandbox states (`api/internal/sandbox/states.go`) | state of an execution | kill, pause, snapshot | which transition may follow which | only allowed transitions are taken |
| Redis storage (`sandbox/storage/redis`) | sandbox key, team index, expiration index, transition key, result key, locks | Add, Update, Remove, StartRemoving and its callback, WaitForStateChange, ExpiredItems | several commands per operation, some without the lock; TTLs; crashes between commands | one transition at a time; waiters learn the truth; no stale write undoes a transition; what is stored is indexed |
| Reservations (`sandbox/reservations`) | pending and stored IDs of a team, start results | Reserve, finishStart, waitForStart, Release | a release racing a reservation; stale pendings; results of earlier attempts | the team stays within its limit; one creator per sandbox; waiters learn the truth |
| Request flows (`orchestrator/*.go`, `handlers/*.go`) | locals of a request | kill, pause, snapshot template, keep-alive, resume and create, evict | cancelled contexts; node and database failures between storage steps | answers are true; expired sandboxes go, others stay; the team's length limit holds |
| Node sandbox service (`orchestrator/internal/server`, `internal/sandbox`) | map of sandboxes, starting semaphore, pauseMu, per VM: process, exit, stop, cleanup | Create, Delete, Pause, Checkpoint, watcher, lifecycle goroutine, close hook, cleanup | replacement of an instance under the same ID, VM crashes at any time, several goroutines that clean up | no running VM is lost; resources go back after the process is gone; permits come back |
| Memory storage (`sandbox/storage/memory`, `reservations/reservation.go`) | a map of items, each with a mutex and a transition; reservations | the same interface, and Sync | goroutines that hold items already removed or replaced; results nobody sets | transitions of an item exclude each other; nobody waits for a signal that cannot come |
| Node synchronisation (`orchestrator/cache.go`, `nodemanager/sync.go`) | the list a node sent | list, expire what is missing, add what is new | the list is old when it is used | the store converges to what the node runs, and a new sandbox is spared |
| Network slot pool (`sandbox/network`) | two channels of slots, slots taken from a storage, firewall rules | Populate, Get, Return, Close | returns that meet a full or closed channel, failing configuration | a slot has one user, is not lost, carries no foreign rules |
| NBD device pool (`sandbox/nbd`, `rootfs/nbd.go`) | bitset, channel, the kernel's connections | Populate, GetDevice, Open, Close, ReleaseDevice | two views of a device that change in two steps; disconnects that fail | a device has one user |
| Start-up and cleanup of a sandbox (`sandbox/sandbox.go`, `cleanup.go`) | promises, list of clean-up functions | ResumeSandbox, Cleanup.Add and Run | a start given up while its promises still run; Add racing Run | what was acquired is given back |
| Node manager, placement | nodes, sandboxes in progress | best-of-K placement with retries | counts that drift, ambiguous failures | in the plan |
| Routing catalog, client proxy | sandbox to node, with execution ID | store, delete if the execution matches, auto-resume | a store or delete of an old execution hitting a new one | in the plan |
| Template cache, peer transfer, template builds | cached templates, uploads, build status | get, add snapshot, upload, build | eviction under use, cancellation of builds | low priority |
| Block devices, uffd, envd, tcp firewall, ClickHouse, auth, db, dashboard, iac | data paths and I/O | | | not modelled |

The components interact as follows. A request flow calls the storage, which
talks to Redis one command at a time; while it owns a transition it calls the
node over gRPC; the node answers by sandbox ID. The transition key tells other
requests that a transition runs, the result key how it ended. The callback that
StartRemoving returns ends the transition. The evictor finds expired sandboxes
through the expiration index and then goes through the same StartRemoving as
everybody else. On the node, the handlers and the goroutines of an instance share
the map and the instance's stop, exit and cleanup, each guarded by a once. Below
them, the start of a sandbox runs promises for its slot and its root file system
against the two pools of the node, and registers with the cleanup how to give
them back.

The hazards that follow from this are listed in `PROJECT.json` at the lines where
they bite, each with the properties that would catch it.

## Modules

| Module | Models | Role |
|---|---|---|
| `SandboxStates` | `states.go` | states, actions, allowed transitions |
| `Lifecycle` | the `Storage` interface of `store.go` | abstract specification |
| `SandboxStore` | Redis storage, reservation and request flows for one sandbox ID | specification and properties; implements `Lifecycle` |
| `MemoryStore` | memory storage and reservations, node sync and request flows for one sandbox ID | specification and properties; implements `Lifecycle` |
| `TeamLimit` | Redis reservations of one team, many sandbox IDs | specification and properties |
| `NodeServer` | the sandbox service of one node | specification and properties |
| `NodeSandboxes` | | constants and channel helper of the next three |
| `NetworkPool`, `DevicePool` | the pools of a node | components |
| `SandboxResources` | start-up and cleanup of sandboxes | composes the two pools; properties |
| `MC*` + cfg files | | instances for TLC |
| `SandboxStoreProofs`, `SandboxTransitionProofs`, `SandboxWriteProofs` | | proofs: types, exclusion, allowed state changes; each extends the one before |
| `SandboxPromiseProofs` | | proofs: end times, evictions, the refinements of `Lifecycle`, answers to a pause; extends those |
| `MemoryStoreProofs` | | proofs: types, owners and waiters, the synchronisation, the refinement |
| `TeamLimitProofs` | | proofs: types, creators and their slots, the limit, the waiters |
| `NodeServerProofs` | | proofs: types, permits, cleanup after exit, no lost VM |
| `SandboxResourcesProofs` | | proofs: types, slots, firewall rules, devices |

### Lifecycle

What a caller of any storage may rely on: a record is stored running, changes its
state only along the table, has at most one transition in progress, and while one
is in progress changes state only by the restoration of a snapshot. `Implements`
in `SandboxStore` maps a record to the sandbox key while it holds one execution
and `busy` to the presence of the transition key. In `MemoryStore` a record is one
`memorySandbox` object and `busy` is its `transition` field. Locks, scripts,
crashes and cancellations are thus invisible through the interface. For Redis
this needs `TTLCovers`: a key that runs out under a live owner is visible.

`Revives` says whether a record that was stored over may come back. In memory it
may not: StartRemoving works under the item's mutex. In Redis it may: StartRemoving
reads the record and writes it back under the sandbox lock, but Add takes no lock.
When the late Release of a removal lets two requests create the same sandbox (the
finding `one_creator`), the evictor can read the first execution, the second Add
replaces it, and the evictor's write brings the first one back, as killing. This
takes a sandbox that is expired when it is stored, hence the timeout 0 among the
bounds, which the API accepts (`spec/openapi.yml`, `minimum: 0`). `StrictRefinement`
says that this is the only way: with one creator at a time the Redis storage
implements the `Lifecycle` without `Revive`. For the same reason `EvictsOnlyExpired`
speaks of an execution that is still the stored one.

### SandboxStore

All keys the storage touches belong to one sandbox, except the two indexes, of
which the model keeps this sandbox's entries. One sandbox ID therefore shows
every interleaving. A process is a request goroutine or an evictor goroutine of
some API instance. An action is one Redis command or Lua script, one gRPC call or
one database call, together with the Go code up to the next one.

State. `rec` is the sandbox key with its team index entry (one Lua script writes
both). `exp` is its score in the expiration index. `tkey` is the transition key.
`failed` is the set of transitions whose result key holds an error. `lock` and
`tlock` are the two redislocks. `pending` is the reservation. `live`, `addr`,
`hasSnap` and `snaps` are what node and database know. `lost` is a history
variable: the executions whose pause did not complete and whose owner left without
saying so. `loc[p]` holds the locals a
request carries from one command to the next: the copy of the record, its action
and transition ID, its error, whether its context is cancelled, and its "now".

Operations. `StartRemoving` is `StartRemovingRead` (obtain the lock, GET),
`StartRemovingCheck` (transition key, eviction re-check, the table of allowed
transitions) and `StartTransition` (the script that sets record and key). Its
callback is `RestoreRead`/`RestoreWrite` for snapshots, `CallbackResult` and
`CallbackDelete`. `Update` is `KeepAliveRead`, `KeepAliveWrite` and
`KeepAliveIndex`. `Remove` is `RemoveRecord`, `RemoveIndex` and, in the store
above it, `ReleaseReservation`. A resume runs `ResumeGet`, `ResumeWait`,
`ResumeSnapshot`, `Reserve`, `WaitForStart`, `Place`, `AddIndex`, `AddRecord`,
`FinishStart` and, when storing failed, `UndoPlace`. The evictor runs `EvictScan`,
`EvictGet`, `EvictOrphan` and then the removal.

Failures. `NodeFails` lets node and database calls fail. A crashable process may
stop for good at any step; its locks then expire by their TTL. A cancellable
user's context may be cancelled at any step; the steps that use the request's
context fail from then on, those under `context.WithoutCancel` go on. `RedisFails`
lets every Redis command fail without effect: most errors end the request
(`FailedReturn`, `FailedAdd`), those of a transition's owner are only logged and it
goes on (`OwnerCommandFails`, the second disjuncts of `CallbackResult` and
`FinishStart`), and a waiter takes a failed poll for the end of the transition
(`WaitTransition`). `TTLCovers` says whether transition and result keys outlast their
live holders. The code intends so ("longer than the longest expected state transition
time") and does not enforce it. The properties that do not need it are proved without
it; `eviction` also checks `StateChangesAllowed` and `ExpiredRemoved` without it, the
other runs set it. A lock's TTL is assumed to outlast its live holder.

Not modelled: a command that takes effect although its reply is an error, and a lock
whose Release fails (its TTL frees it).

The routing catalog that Add and the removals also write is not part of this
module (see the plan); `Place` stands for the whole placement.

### MemoryStore

State. `items` are the `memorySandbox` objects, `cur` the one the map holds under
the ID, `res` the reservation, `addr` the execution on the node. Objects are
explicit because a lookup returns a pointer: a goroutine may work on an item that
has left the map. `Collect` reuses identities nobody can reach. Time is what the
code compares: `expired` (EndTime has passed) and `old` (past the grace period of
Sync).

Operations. `StartRemovingGet` is the lookup, `StartRemovingLocked` the critical
section, `WaitTransition` the wait on the ErrorOnce, `KillOnNode`, `PauseOnNode`
and `CheckpointOnNode` the work, `RemoveItem` and `RemoveRelease` Store.Remove,
`Callback` the callback. `UpdateGet`/`Update` are the keep-alive; `ResumeGet` to
`FinishStart` the resume; `SyncList`, `SyncExpire`, `SyncCheck`, `AddItem` and
`AddReserve` one round of the synchronisation; `EvictScan` the evictor. `VMDies`
and a start with an empty store while the node has the sandbox are the faults.

Abstractions. A node call that fails may or may not have done its work. `Reserve`
may be refused at any time, because the team's other sandboxes are not modelled. The
evictor's choice of kill or pause is open. `Age` is blocked while a
synchronisation is between the node's answer and its use, because the grace
period (10 s) is longer than that.

### TeamLimit

State. `index` is the team's storage index, `pending` the zset of reservations
(fresh or older than staleTTL), `result` the result keys, `removing` the removals
between the storage's and the reservations' part of Store.Remove. `latest` and
`robbed` are history variables: who reserved an ID last (nobody once it was removed),
and the IDs whose entry or result was since deleted or overwritten on behalf of an
earlier creation or removal.

Operations. `Reserve` is reserveScript with the switch on its result, `Add` the
placement and Store.Add, `FinishStart` the deferred finishStart, `WaitGet` and
`WaitScore` the commands of waitForStart (`Answer` is what it would tell now),
`Remove` and `Release` Store.Remove. Any ID may be created, resumed and removed at
any time. Reservations and results age by `GrowsStale` and `ResultExpires`; a
crashable user may stop for good at any step.

finishStart and Release go by sandbox ID and do not look at who holds the entry. A
late one therefore deletes the reservation of the next creation of the same sandbox
(the finding of `one_creator`), after which the team can exceed its limit, the sandbox
have two creators and a waiter be told of a failure. `WithinLimit`,
`CreatorHoldsSlot` and `WaitersToldTruth` say that this is the only way: they hold
for every sandbox that is not `robbed`, and a sandbox stops being so with the next
reservation that finds no other creator.

### NodeServer

State. `map` is the node's map of sandboxes; `inst` are the instances ever made,
each standing for one `*Sandbox` with its `LifecycleID`; `free` counts the permits
of `startingSandboxes`; `mu` is `pauseMu`. A handler's `call` carries the instances
it has in hand and whether it holds a permit.

Operations. Create: `CheckCount`, `Acquire`, `Build` (ResumeSandbox up to the
insertion into the map), `Launch` (`cmd.Start`), `Start` (the VM resumes, envd
answers, MarkRunning) or `Abort` (the deferred cleanup), `SetupLifecycle`. Delete:
`DeleteGet`, `DeleteRemove`. Pause and Checkpoint: `SnapshotGet`, `SnapshotRemove`
(both under `pauseMu`), for a checkpoint `Acquire`, then `Snapshot` and `Export`,
and for a checkpoint on to `Build` ... `SetupLifecycle` and `Upload`. In the
background `Exit` (the process ends, after Stop or by itself), `UffdExit`,
`Watch` (the goroutine that sets the exit error) and `Close` (the cleanup, by the
lifecycle goroutine or the snapshot's close hook). Deferred statements are part
of `Return`: the stop of the old instance and the release of the permit.

Abstractions. `stop` becomes true when the goroutine that calls Stop is started.
`clean` stands for the whole cleanup after the process has gone; its first step
there is RemoveByLifecycleID, and its later steps touch nothing the model has.
`Export` waits for `clean` where the code waits for the device, which the cleanup
releases after it has taken the instance out of the map; with `ExportTimesOut` the
call's context may end first. With `AcquireTimesOut` the wait for the semaphore may
give up also next to a free permit, a harmless widening. Snapshot data, events and
metrics are left out. Creates that have passed `CheckCount` are not counted until
they run, so the model, like the code, can exceed the maximum by what the
semaphore admits; no property forbids it.

`SerialAPI` restricts the calls to one per sandbox at a time and creates to
sandboxes the node does not hold. That is what the API's transitions arrange
(SandboxStore: `AtMostOneTransition`) while the transition key lives. Where a
property does not need it, it is off.

### NetworkPool, DevicePool and SandboxResources

`NetworkPool` has the two channels as sets (`newQ`, `reusedQ`; nobody depends on
the order), `acq` for the slots in use, and `rules` for slots
with custom firewall rules. `Create`, `SendNew`, `PopulateStops` are Populate;
`Get`, `GetNew`, `ConfigureInternet` are Get with its two selects; `ReturnReset`
and `ReturnSend` are Return; `CloseStart`, `CloseNew`, `CloseReused` are Close. A
select with several ready cases takes any of them, including the receive of a nil
slot from a closed channel and the send to one, which panic. Any storage fits that
gives a slot to one caller at a time; which free slot it gives is open. `lostSlots`
are the slots put out of use by a failure of CreateNetwork, RemoveNetwork or the
storage's Release, all of which the code only reports; what storage and kernel still
have of such a slot is not followed further.

`DevicePool` has the bitset `used`, the channel `devQ` and the kernel's view
`conn`. `TakeDevice` and `SendDevice` are Populate, `GetDevice` and `Connect` are
Open with its retries, `CloseMount` and `ReleaseDevice` are Close. A disconnect
that fails leaves the device connected until the kernel drops the dead connection
(`KernelDrops`, external). After a failed connect the device is released by a single
attempt; if that fails too its bit stays set (`lostDevs`).

`SandboxResources` runs both for the same sandboxes. `main` is the goroutine of the
request and later of the sandbox's end, `ov` the promise of the root file system,
`fns` the list of the cleanup. `AddNet`/`AddNetLocked` and
`AddProvider`/`AddProviderLocked` are Cleanup.Add, with the read of hasRun and the
append under the mutex apart, as in the code. `GiveUp` is the request's deadline or
an error between the promises and the start of the process; the promises then run
on. `RunFunction` and `CloseProvider` are the loop of Cleanup.Run.

Left out: the shutdown of the device pool, and the uffd promise, cgroups and files,
which follow the same pattern. RemoveNetwork uses `tables` also when iptables.New has
failed (`network.go:328`); the panic this may cause is left out too.

## Runs

Bounds: what matters are pairs and triples of concurrent actors on one sandbox,
so two or three processes with one request each (two or three calls each on the
node) reach every pairwise interleaving, with the evictor as a further actor. The
clock has three values, which gives a sandbox before, at and after its end time,
and timeouts on both sides of the team's limit, with 0, at which a sandbox is
expired as soon as the clock moves. Three items in memory
are one more than executions: a removed one, a current one and one to come. Two
sandbox IDs and a limit of one let a team be full, and three requests give a creator,
its successor and a waiter. Two sandboxes on the pools, with channels of one element and
fewer devices than sandboxes, make every channel overflow and every wait happen.

| Run | Instance | Checks and shows |
|---|---|---|
| `transitions` | two requests of all kinds and an evictor, node failures | `TypeOK`; `AtMostOneTransition`; `EndWithinMaxLength`: no request moves the end time past the team's limit; `PauseAnswerIsTrue`: a pause answered as done is done, also for requests that only waited for somebody else's; `EvictsOnlyExpired`: the evictor's re-check under the lock saves a sandbox that was extended; `StateChangesAllowed`; `Implements`: the Redis storage implements `Lifecycle` |
| `returns` | fair; two requests, both may be cancelled and one may crash at every step, every Redis command may fail | `OwnerKeepsKey`; `TransitionInv`, the inductive invariant of the proof; `RequestsReturn`: nobody waits for ever; `Implements` with crashes, cancellations and failures; `PauseAnswerIsTrue`: a pause is answered wrongly only where its outcome was lost or the waiter's own poll failed |
| `eviction` | fair; snapshot and keep-alive beside the evictor, keys that run out under their owners | `ExpiredRemoved`: an expired running sandbox is removed or extended; `StateChangesAllowed`: also when callbacks delete keys that are not theirs |
| `memory` | fair; two requests of all kinds and an evictor, dying VMs, empty start | `TypeOK`; `OneOwner`: transitions of one item exclude each other, also for goroutines with an old pointer; `WaitersHaveOwners`: behind every waiter stands somebody who will wake it; `Implements`; `RequestsReturn` |
| `memory_sync` | fair; kill or resume, an evictor and the synchronisation | `SyncSparesNew`: a sandbox placed after the node answered is not expired; `ListedIsStored` and `DeadIsRemoved`: store and node converge |
| `limit` | fair; three requests, one may crash, two IDs that are created, resumed and removed at any time, limit one | `TypeOK`; `WithinLimit`, `CreatorHoldsSlot` and `WaitersToldTruth` for sandboxes that were not robbed: the limit, one creator, and nobody is told a result that is not the creation's; `CrashedSlotFreed`: the slot of a crashed creator comes back |
| `node` | fair; two handlers with two calls each, two sandboxes, serial API, crashing VMs | `TypeOK`; `NoLeak`: a running VM that nobody stops is in the map or in a handler's hands; `DeadIsCleaned`: every stopped or crashed instance is cleaned up and leaves the map; `CallsReturn`: no deadlock of semaphore, snapshot, cleanup and process, for launches that succeed and contexts that do not end |
| `node_overlap` | two handlers, three calls each, any overlap, acquire and export timeouts, failed launches | `CleanIsDead`; `PermitsConserved`: a permit is out exactly for each call that is starting a sandbox |
| `resources` | two sandboxes, two interchangeable slots, one device, failures of networks, storage and firewalls, shutdown at any time | `TypeOK`; `SlotsExclusive`; `NoSlotLost`: a slot that works is in the pool or will come back, unless Add raced Run; `NoForeignRules` |
| `resources_end` | fair; two sandboxes, one slot, one device, failures of the network and of the device, no shutdown | `DevicesExclusive`; `EverythingReturned`: whatever failed on the way, slot and device come back, unless Add raced Run, no device is left to mount, or the process panicked |

Deadlock is checked except where the system may really stop. In `node_overlap` a
failed launch blocks its handler for good (below). In `memory` all requests are
served and nothing synchronises. In `resources` and `resources_end` every sandbox
has ended or a panic has ended the process.

### Disagreements between the code and its comments

Each of these runs checks what a comment, a message or a test says, and TLC finds
a behaviour of the code that contradicts it.

| Run | Property | Shows |
|---|---|---|
| `one_creator` | `OneCreator` | Release after Remove deletes the reservation of a resume that came in between, and a second creator is admitted. |
| `node_leak` | `NoLeak` | A checkpoint that times out on the semaphore returns before its deferred stop is in place; the VM runs on outside the map. |

### Known gaps without a run

The models contain these behaviours; no property that holds can be stated about
them, and they are kept as hazards.

* A record left in killing by a crash is found by every scan of the evictor, but
  StartRemoving answers "already done" for ever (`storage/redis/items.go:123`).
* The ZREM at the end of a Remove, or of the evictor's orphan check, can delete the
  index entry that a concurrent Add has just written (`storage/redis/operations.go:102`).
* If the Firecracker process never starts, the cleanup waits for an exit that nothing
  signals; the call keeps its permit and the map its entry (`sandbox.go:875`).
  `PermitsConserved` counts such a call as starting, and `CallsReturn` is checked
  without failing launches.
* A pause whose owner crashes, is cancelled or cannot reach Redis leaves the record
  pausing and no result; later pauses and waiters are told that it succeeded
  (`state_change.go:101`, `:260`). `PauseAnswerIsTrue` excludes exactly these
  executions (`lost`) and a waiter whose own poll failed (`:239`).
* Cleanup.Add reads hasRun before it takes the mutex; a release added while Run ends
  is never run (`cleanup.go:37`). `NoSlotLost` and `EverythingReturned` name this case
  as an exception (`Forgotten`); no property catches it.
* Slots and devices whose release fails are out of use until the node restarts
  (`network/pool.go:224-239`, `nbd/path_direct.go:164`); when no device is left, a mount
  waits for ever (`Starved`).
* If the cleanup has already run, Add runs the provider's Close at once, which waits
  for a path that only the Start after it would provide (`sandbox.go:582`).
* After Close of the network pool, returned slots are not released, and a Return or
  Get between its selects may panic (`network/pool.go:151`, `:211`).
* A Get in its second select does not see a slot returned meanwhile; it waits for a
  new one or its deadline (`network/pool.go:158`).

### Fairness

Goroutines are scheduled, so every step of a request that stays possible is taken.
The fairness is strong because a step that needs a lock is possible only now and
then: redislock retries with jitter, Go's semaphore serves waiters in order, and
Go's mutex hands over to a starving waiter. Keys whose TTL may have run out go
(weak fairness). In memory, the sync ticker fires, and a grace period ends even if
rounds of the synchronisation keep coming (strong fairness, the period is as long
as the pause between two rounds). For the limit, requests keep coming: only a
reserve drops stale reservations. For the resources, goroutines run, deadlines pass,
sandboxes end (the API stops them), the kernel drops dead connections, and
nbdnl.Connect, which Open repeats without bound, does not fail for ever (strong
fairness of its success). A process that was told to stop exits, because `Process.Stop`
follows SIGTERM by SIGKILL. No fairness is assumed for requests, crashes,
cancellations, failures, and VMs that nobody stops.

## Proofs

TLAPS proves these for every number of processes, handlers, items, sandboxes, slots
and devices and every value of the other constants, from the named assumptions in
the modules. Those say no more than what kind of values the constants are: that the
sets of users and of sandbox IDs are finite (for counting), that capacities are
natural numbers, that the memory has room for one item. Where a theorem needs more,
its statement says so. Every invariant and action property that a passing run checks
is the subject of a theorem; each inductive invariant was checked by TLC first.

The Redis storage (`SandboxStoreProofs` and the three modules on top of it):

* `TypeCorrect`.
* `TransitionsInvariant`, `TransitionsExclusive`, `OwnersKeepKeys` (assuming
  `TTLCovers`). "At most one owner" is not inductive. The strengthening
  `TransitionInv` says that whoever is in a locked section holds the sandbox lock,
  that a process about to start a transition has seen no transition key and nobody
  can have set one since, that owners have transition IDs, and that the key in Redis
  is the owner's own. Most steps are `Quiet`: they move one process and touch neither
  key nor ID; one lemma deals with them all.
* `StateChangesAreAllowed`, with no assumption on TTLs: the state of one execution
  moves only along the table. The invariant `WritesInv` says that every copy a
  process is about to write back is current (the lock has protected it since it was
  read) or belongs to an execution that Add has replaced, and that executions about
  to be added are new.
* `EndsWithinLimit`, with no assumption on TTLs. The limit must hold of every copy,
  because any of them may be written back, and `EndInv` adds that no request's "now"
  is ahead of the clock: KeepAliveFor adds the time that is left now to the time the
  request began.
* `OnlyExpiredAreEvicted`, with no assumption on TTLs. `EvictInv` says that the copy a
  decision is based on has the stored end time unless Add has replaced the execution,
  and that after the re-check an evictor's copy is and stays expired.
* `Refinement` (assuming `TTLCovers`): every step of the storage is for every
  execution a step of `Lifecycle` or none. It rests on `TransitionInv` and `WritesInv`.
* `StrictRefinement` (assuming `TTLCovers`): behaviours with one creator at a time
  implement the `Lifecycle` in which no record comes back. `StrictInv` says that
  nothing is stored between a reservation and its Add, so Add replaces nothing and what
  a holder of the lock has read is still stored when it writes.
* `PauseAnswersAreTrue` (assuming `TTLCovers`), with crashes, cancellations and failing
  Redis commands. `PauseInv` follows a pause from the script that starts it to its last
  waiter: a record is pausing only while its owner has not removed it or its outcome is
  lost, who read it under the lock can rely on that, after the node's answer the owner
  has an error or the pause is complete, the error is in the result key before the
  transition key goes or the outcome is lost, and so every waiter still has an owner, or
  an error, or a complete or lost pause. The two exceptions of the property are the ways
  in which the code takes a missing result for success; without them it is false.

The memory storage (`MemoryStoreProofs`):

* `TypeCorrect`. Types need `Pointers`: a goroutine's pointer leads to an item that
  has not been collected.
* `OwnersExclude` and `WaitersAreServed`. `OwnersOpen` says that an item's transition
  is open exactly while a goroutine drives it, `WaitersOpen` that who waits waits for
  an open one, `Starters` the same for reservations.
* `SyncSparesRunning` (assuming one synchronisation per node, as the code starts one
  goroutine for each). `ListOutdated` says that a sandbox that is on the node although
  the list is empty was placed later, and is in its grace period.
* `Refinement`, with no assumption. `Executions` says that executions are numbered in
  the order of their placement and what is stored has one.

The team limit (`TeamLimitProofs`; all but the types assuming `TTLCovers`):

* `LimitTypeCorrect`, `CreatorsHoldSlots` and `LimitHolds`. The limit is not inductive:
  only reserveScript counts, Add does not, so the creator must still hold the
  reservation that was counted. `SlotInv` says that the creator of a sandbox that is not
  robbed was the last to reserve it, alone, that its reservation is fresh, and that the
  sandbox is not stored yet. Whatever else deletes the entry makes the sandbox robbed.
* `WaitersAreToldTruth`. A wait reads the result, the reservation and the result again.
  `WaitInv` says that a result agrees with the storage or the sandbox was removed since,
  and that of a stored sandbox the waiters find the result, or its writer is still to
  come or has crashed.

The node's service (`NodeServerProofs`):

* `NodeTypeCorrect` and `PermitsAreConserved`, for any overlap of calls: free permits
  and holders add up to the size of the semaphore, from which its upper bound follows,
  so the two are proved together. The invariant adds which steps of a call hold a permit,
  so that the holders are the calls that are starting a sandbox; every step leaves the
  permits alone, takes one or returns.
* `CleanedInstancesAreDead`, for any overlap of calls: `CleanInv` adds that the exit
  error too comes after the process, that an instance about to be launched has no
  process, and that only one handler launches it, so no cleaned instance is launched.
* `NothingLeaks` (assuming `SerialAPI` and no timeout on the semaphore; `node_leak`
  shows that the second is needed). `LeakInv` says for every call which instances its
  handler has and what the map has under its ID: nothing, or one of these. A VM that
  the map loses is then in the hands of the call that took it out.

The resources (`SandboxResourcesProofs`), with failures and shutdown at any time:

* `TypeCorrect`, with the channels' capacities (`Bounded`) and the finitely many lists
  the Cleanup can have (`FnsInv`).
* `SlotsAreExclusive`, `SlotsAreKept`, `RulesAreOwn`. `SlotHeld` says from where to where
  a sandbox has a slot and that a return cannot start twice; `SlotInv` that all that is
  in use was given out by the storage and that rules are only in slots that sandboxes
  had and Return has not yet reset, and that slots out of use (`lostSlots`) are nobody's.
  That a slot with a sandbox still has its return to come, except through the race of
  Add and Run, follows from `SlotHeld`.
* `DevicesAreExclusive`. `DeviceInv` says when a mount has a device and that a device is
  connected only to a mount that has not yet released it; a lost device is nobody's.

Only model-checked: the liveness properties (`RequestsReturn`, `ExpiredRemoved`,
`DeadIsCleaned`, `CallsReturn`, `ListedIsStored`, `DeadIsRemoved`, `CrashedSlotFreed`,
`EverythingReturned`), which need fairness and are out of the prover's reach.

## Plan

Done: both sandbox stores with their request flows and the abstract specification,
node synchronisation, the team limit, the node's sandbox service, its resource
pools, and the proofs above. Next, in this order:

1. Proofs: the safety half of the liveness properties, for example that every process
   that waits has somebody to wait for (`WaitersHaveOwners`) also in Redis; `NoLeak`
   for semaphore timeouts of creates only.
2. The routing catalog with the client proxy: DeleteSandbox is a GET and a DEL, and
   Add stores the route after the record, so a removal in between leaves a route to
   an execution that is gone. Placement: retries after ambiguous failures, counts of
   sandboxes in progress.
3. Composition of `SandboxStore` and `NodeServer`: the node's map by execution
   behind `live` and `addr`, and what happens when a call overruns its key.
4. The evictor's batch over many entries, the shutdown of the device pool, the
   template cache.

## Not modelled

The repository has about 130,000 lines of implementation. Most of them are generated
code (protocol buffers, OpenAPI, sqlc), data paths and I/O, and have no control
state a model checker could tell apart; the development covers the part where
several actors change shared state.

* Generated code and infrastructure: protocol buffers, OpenAPI, sqlc, Terraform.
* Block devices, userfaultfd, chunk streaming and envd move data through kernel
  interfaces and have little shared control state.
* Template builds are a sequential pipeline of I/O; the template cache is a TTL cache
  over it.
* Auth, database, dashboard, registry proxy and ClickHouse are request handlers around
  I/O.
* Placement is one step that succeeds or fails; the routing catalog is not written by
  the models of the stores; see the plan.
* The copy of every write that the migration store sends to Redis while the memory
  storage is in charge is left out: nothing reads it.
* Several sandbox IDs in one store and the size of the eviction batch are not in
  `SandboxStore`. The shutdown of a node and the proxy's subscriptions to the map are
  not in `NodeServer`.
