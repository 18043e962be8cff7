-------------------------- MODULE SandboxResources --------------------------
(***************************************************************************)
(* How a sandbox gets its network slot and its root file system, and how   *)
(* it gives them back: Factory.ResumeSandbox of                            *)
(* packages/orchestrator/internal/sandbox/sandbox.go with its Cleanup      *)
(* (cleanup.go), over NetworkPool and DevicePool.                          *)
(*                                                                         *)
(* Slot and file system are prepared by two goroutines (promises) while    *)
(* the request waits; each registers the release of what it got.  When the *)
(* request fails, or the sandbox ends, the Cleanup runs what is registered *)
(* by then, last first, and holds its mutex all the while.                 *)
(***************************************************************************)
EXTENDS NetworkPool, DevicePool, Sequences, SequencesExt

CONSTANT Shutdown   \* may the pool of slots be closed?

ASSUME ShutdownAssumption == Shutdown \in BOOLEAN

VARIABLES
    main,  \* where the request, later the sandbox, is
    ov,    \* where the goroutine is that prepares the root file system
    fns    \* Cleanup.cleanup: the registered releases that Run has not passed

resVars == <<main, ov, fns>>
vars == <<netVars, devVars, resVars>>

Init ==
    /\ NetInit /\ DevInit
    /\ main = [x \in Sandboxes |-> "wait_net"]
    /\ ov   = [x \in Sandboxes |-> "new"]
    /\ fns  = [x \in Sandboxes |-> <<>>]

Starting == {"wait_net", "wait_dev", "boot"}

\* Cleanup.hasRun; Cleanup.mu is taken.
HasRun(x) == main[x] \in {"cleaning", "clean"}
Locked(x) == main[x] = "cleaning"

Goto(x, l) == main' = [main EXCEPT ![x] = l]

-----------------------------------------------------------------------------
(* Cleanup.Add.                                                            *)

\* hasRun.Load: a release that comes too late runs at once.
AddNet(x) ==
    /\ net[x] = "add"
    /\ IF HasRun(x)
       THEN net' = [net EXCEPT ![x] = "ok"] /\ ret' = [ret EXCEPT ![x] = "first"]
       ELSE net' = [net EXCEPT ![x] = "add_lock"] /\ UNCHANGED ret
    /\ UNCHANGED <<acq, lostSlots, newQ, reusedQ, rules, popNet, closer, slot, devVars, resVars>>

\* The append, under the mutex.
AddNetLocked(x) ==
    /\ net[x] = "add_lock" /\ ~Locked(x)
    /\ fns' = [fns EXCEPT ![x] = Append(@, "net")]
    /\ net' = [net EXCEPT ![x] = "ok"]
    /\ UNCHANGED <<acq, lostSlots, newQ, reusedQ, rules, popNet, closer, ret, slot, devVars,
                   main, ov>>

\* NewNBDProvider, which may fail, and the same for overlay.Close.  Run at once, it
\* waits for the path of a provider that is only started afterwards: the goroutine
\* stays there.
AddProvider(x) ==
    /\ ov[x] = "new"
    /\ \/ DevFails /\ ov' = [ov EXCEPT ![x] = "err"]
       \/ ov' = [ov EXCEPT ![x] = IF HasRun(x) THEN "stuck" ELSE "add_lock"]
    /\ UNCHANGED <<netVars, devVars, main, fns>>

\* The append, and overlay.Start.
AddProviderLocked(x) ==
    /\ ov[x] = "add_lock" /\ ~Locked(x)
    /\ fns' = [fns EXCEPT ![x] = Append(@, "dev")]
    /\ ov'  = [ov EXCEPT ![x] = "ok"]
    /\ dev' = [dev EXCEPT ![x] = "open"]
    /\ UNCHANGED <<netVars, used, lostDevs, devQ, conn, popDev, held, main>>

-----------------------------------------------------------------------------
(* ResumeSandbox and the sandbox's end.                                    *)

\* ipsPromise.Wait and overlayPromise.Wait.
WaitNet(x) ==
    /\ main[x] = "wait_net"
    /\ \/ net[x] = "ok" /\ Goto(x, "wait_dev")
       \/ net[x] = "failed" /\ Goto(x, "cleaning")
    /\ UNCHANGED <<netVars, devVars, ov, fns>>

WaitProvider(x) ==
    /\ main[x] = "wait_dev"
    /\ \/ ov[x] = "ok" /\ Goto(x, "boot")
       \/ ov[x] = "err" /\ Goto(x, "cleaning")
    /\ UNCHANGED <<netVars, devVars, ov, fns>>

\* The request's deadline, which the waits for the promises look at, or an error of
\* what comes between them and Process.Resume.
GiveUp(x) ==
    /\ main[x] \in Starting
    /\ Goto(x, "cleaning")
    /\ UNCHANGED <<netVars, devVars, ov, fns>>

\* Process.Resume, which waits for the path of the device without a deadline, and
\* everything after it; any of it may fail.
Boot(x) ==
    /\ main[x] = "boot" /\ dev[x] \in {"mounted", "failed"}
    /\ \/ dev[x] = "mounted" /\ Goto(x, "running")
       \/ Goto(x, "cleaning")
    /\ UNCHANGED <<netVars, devVars, ov, fns>>

\* Sandbox.Close; the priority functions stop the VM.
SandboxEnds(x) ==
    /\ main[x] = "running"
    /\ Goto(x, "cleaning")
    /\ UNCHANGED <<netVars, devVars, ov, fns>>

\* Seeded fault: the loop stops before the function registered first.
LoopOver(f) == Len(f) <= 1

LoopDone(f) == f = <<>>

\* The loop, from the end of the list.  The slot is returned by a goroutine of its
\* own; the provider's Close is waited for.
RunFunction(x) ==
    /\ main[x] = "cleaning"
    /\ \/ /\ LoopDone(fns[x])
          /\ Goto(x, "clean")
          /\ fns' = [fns EXCEPT ![x] = <<>>]
          /\ UNCHANGED ret
       \/ /\ ~LoopDone(fns[x]) /\ Last(fns[x]) = "net"
          /\ ret' = [ret EXCEPT ![x] = "first"]
          /\ fns' = [fns EXCEPT ![x] = Front(@)]
          /\ UNCHANGED main
       \/ /\ ~LoopDone(fns[x]) /\ Last(fns[x]) = "dev" /\ dev[x] = "closed"
          /\ fns' = [fns EXCEPT ![x] = Front(@)]
          /\ UNCHANGED <<main, ret>>
    /\ UNCHANGED <<acq, lostSlots, newQ, reusedQ, rules, popNet, closer, net, slot, devVars, ov>>

CloseProvider(x) ==
    /\ main[x] = "cleaning" /\ fns[x] # <<>> /\ Last(fns[x]) = "dev"
    /\ CloseMount(x)
    /\ UNCHANGED <<netVars, resVars>>

-----------------------------------------------------------------------------
\* The goroutines of sandbox x: the request and later the sandbox's end, the two
\* promises, the return of the slot, the mount.
Request(x) ==
    \/ WaitNet(x) \/ WaitProvider(x) \/ Boot(x) \/ SandboxEnds(x)
    \/ RunFunction(x) \/ CloseProvider(x)

IpsPromise(x) ==
    \/ (Get(x) \/ GetNew(x) \/ ConfigureInternet(x)) /\ UNCHANGED <<devVars, resVars>>
    \/ AddNet(x) \/ AddNetLocked(x)

OverlayPromise(x) == AddProvider(x) \/ AddProviderLocked(x)

Return(x) == (ReturnReset(x) \/ ReturnSend(x)) /\ UNCHANGED <<devVars, resVars>>

Mount(x) ==
    (GetDevice(x) \/ Connect(x) \/ ReleaseDevice(x)) /\ UNCHANGED <<netVars, resVars>>

Deadline(x) == GetCancelled(x) /\ UNCHANGED <<devVars, resVars>>

\* Those of the pools.
PopulateSlots   == (Create \/ SendNew \/ PopulateStops) /\ UNCHANGED <<devVars, resVars>>
PopulateDevices == (TakeDevice \/ SendDevice) /\ UNCHANGED <<netVars, resVars>>
Close           == (CloseNew \/ CloseReused) /\ UNCHANGED <<devVars, resVars>>
Kernel          == \E d \in Devs : KernelDrops(d) /\ UNCHANGED <<netVars, resVars>>

\* A panic ends the process and every goroutine of it.
Alive == \A x \in Sandboxes : net[x] # "panic" /\ ret[x] # "panic"

Next ==
    /\ Alive
    /\ \/ \E x \in Sandboxes :
             \/ Request(x) \/ IpsPromise(x) \/ OverlayPromise(x) \/ Return(x) \/ Mount(x)
             \/ GiveUp(x) \/ Deadline(x)
       \/ PopulateSlots \/ PopulateDevices \/ Close \/ Kernel
       \/ Shutdown /\ CloseStart /\ UNCHANGED <<devVars, resVars>>

Spec == Init /\ [][Next]_vars

\* Goroutines run, deadlines pass, sandboxes end (the API stops them at their end
\* time), the kernel drops dead connections, and nbdnl.Connect, which Open repeats
\* for ever, does not fail for ever.
Fairness ==
    /\ \A x \in Sandboxes :
          /\ WF_vars(Alive /\ Request(x)) /\ WF_vars(Alive /\ IpsPromise(x))
          /\ WF_vars(Alive /\ OverlayPromise(x)) /\ WF_vars(Alive /\ Return(x))
          /\ WF_vars(Alive /\ Mount(x)) /\ WF_vars(Alive /\ Deadline(x))
          /\ SF_vars(Alive /\ Mount(x) /\ dev'[x] = "mounted")
    /\ WF_vars(Alive /\ PopulateSlots) /\ WF_vars(Alive /\ PopulateDevices)
    /\ WF_vars(Alive /\ Close) /\ WF_vars(Alive /\ Kernel)

FairSpec == Spec /\ Fairness

-----------------------------------------------------------------------------
(* Properties.                                                             *)

TypeOK ==
    /\ NetTypeOK /\ DevTypeOK
    /\ main \in [Sandboxes -> Starting \cup {"running", "cleaning", "clean"}]
    /\ ov \in [Sandboxes -> {"new", "add_lock", "ok", "err", "stuck"}]
    /\ \A x \in Sandboxes : fns[x] \in {<<>>, <<"net">>, <<"dev">>, <<"net", "dev">>,
                                        <<"dev", "net">>}

\* No two sandboxes share a network slot, and no slot is handed out while the
\* pool, Populate or a return still has it.
SlotsExclusive ==
    /\ newQ \cap reusedQ = {} /\ popNet \notin newQ \cup reusedQ
    /\ \A x, y \in Sandboxes : slot[x] = slot[y] /\ slot[x] # None => x = y
    /\ \A x \in Sandboxes : slot[x] \notin newQ \cup reusedQ \cup ({popNet} \ {None})

\* Something will still return the slot of sandbox x: its promise has yet to
\* register the return, the Cleanup has yet to come to it, or it is under way.
WillReturn(x) ==
    \/ net[x] \in {"conf", "add", "add_lock"}
    \/ main[x] # "clean" /\ fns[x] \notin {<<>>, <<"dev">>}
    \/ ret[x] # "none"

\* A release that Add registered after Run had gone through the list: hasRun was
\* read before Run set it, the mutex was taken after Run gave it back.
Forgotten(x) == main[x] = "clean" /\ fns[x] # <<>>

\* While the pool is open no slot that works is lost: it is in a channel, in
\* Populate's hand or with a sandbox that something will still take it from, all but
\* the slot of a sandbox whose Add lost the race with Run (cleanup.go:37).
NoSlotLost ==
    /\ ~Done => acq = newQ \cup reusedQ \cup
                  ((({popNet} \cup {slot[x] : x \in Sandboxes}) \ {None, "stopped"}))
    /\ \A x \in Sandboxes : slot[x] # None => WillReturn(x) \/ Forgotten(x)

\* A sandbox never runs with firewall rules of the slot's last user.
NoForeignRules ==
    \A x \in Sandboxes :
        slot[x] \in rules /\ ret[x] = "none" => x \in Custom /\ net[x] # "conf"

\* A device belongs to one sandbox: the kernel connects it to the mount that
\* holds it, its bit stays set as long, and the pool does not have it.  A bit that
\* is set is a device's in use, or one that a failed release left behind.
DevicesExclusive ==
    /\ \A x, y \in Sandboxes : held[x] = held[y] /\ held[x] # None => x = y
    /\ \A d \in Devs : conn[d] # None => held[conn[d]] = d
    /\ \A x \in Sandboxes : held[x] # None =>
           held[x] \in used \ (devQ \cup {popDev})
    /\ used = lostDevs \cup devQ \cup
              (({popDev} \cup {held[x] : x \in Sandboxes}) \ {None})

\* No device can come to a mount any more: each is lost, or held by a sandbox
\* whose release of it was forgotten.
Starved == \A d \in Devs : \/ d \in lostDevs
                           \/ \E y \in Sandboxes : Forgotten(y) /\ held[y] = d

\* Once a start has failed or a sandbox has ended, its slot and its device are given
\* back, whatever failed on the way.  Three things can keep them: the race of Add
\* and Run for this very sandbox, its mount waiting for ever because no device is
\* left, and a panic of the process.
EverythingReturned ==
    \A x \in Sandboxes :
        HasRun(x) ~> \/ slot[x] = None /\ held[x] = None
                     \/ dev[x] = "open" /\ Starved
                     \/ Forgotten(x) \/ ~Alive

=============================================================================
