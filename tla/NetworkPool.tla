----------------------------- MODULE NetworkPool -----------------------------
(***************************************************************************)
(* The pool of network slots of an orchestrator node:                      *)
(* packages/orchestrator/internal/sandbox/network/pool.go over a slot      *)
(* storage, with the custom firewall rules of slot.go.                     *)
(*                                                                         *)
(* A channel is the set of slots in it: nobody depends on their order.     *)
(* Each sandbox has one goroutine that gets its slot and one that returns  *)
(* it; when the return may start is for the module that uses the pool.     *)
(***************************************************************************)
EXTENDS NodeSandboxes

CONSTANTS
    Slots,      \* the slots the storage can give
    NewCap,     \* capacity of newSlots
    ReusedCap,  \* capacity of reusedSlots
    Custom,     \* the sandboxes with firewall rules of their own
    NetFails    \* may work on firewalls and networks, and the storage, fail?

ASSUME PoolAssumption ==
    /\ None \notin Slots /\ "stopped" \notin Slots
    /\ NewCap \in Nat \ {0} /\ ReusedCap \in Nat \ {0}
    /\ Custom \subseteq Sandboxes /\ NetFails \in BOOLEAN

VARIABLES
    acq,      \* the slots acquired from the storage and in use
    lostSlots,  \* slots out of use for ever, after a failure to make or to remove
                \* their network or to release them (acquired or not)
    newQ,     \* newSlots
    reusedQ,  \* reusedSlots
    rules,    \* slots with custom rules in their firewall (and the flag set)
    popNet,   \* Populate: the slot it is about to send, None, or "stopped"
    closer,   \* Close: idle, draining newSlots or reusedSlots, at its end
    net,      \* where the goroutine is that gets the sandbox's slot
    ret,      \* where the goroutine is that returns it
    slot      \* the sandbox's slot

netVars == <<acq, lostSlots, newQ, reusedQ, rules, popNet, closer, net, ret, slot>>

NetTypeOK ==
    /\ acq \subseteq Slots /\ lostSlots \subseteq Slots
    /\ newQ \subseteq Slots /\ reusedQ \subseteq Slots
    /\ rules \subseteq Slots
    /\ popNet \in Slots \cup {None, "stopped"}
    /\ closer \in {"idle", "new", "reused", "end"}
    /\ net \in [Sandboxes -> {"get", "get_new", "conf", "add", "add_lock", "ok",
                              "failed", "panic"}]
    /\ ret \in [Sandboxes -> {"none", "first", "second", "panic"}]
    /\ slot \in [Sandboxes -> Slots \cup {None}]
    /\ Cardinality(newQ) <= NewCap /\ Cardinality(reusedQ) <= ReusedCap

NetInit ==
    /\ acq = {} /\ lostSlots = {} /\ newQ = {} /\ reusedQ = {} /\ rules = {}
    /\ popNet = None /\ closer = "idle"
    /\ net  = [x \in Sandboxes |-> "get"]
    /\ ret  = [x \in Sandboxes |-> "none"]
    /\ slot = [x \in Sandboxes |-> None]

\* The channels done, newSlots and reusedSlots are closed.
Done         == closer # "idle"
NewClosed    == popNet = "stopped"
ReusedClosed == closer \in {"reused", "end"}

-----------------------------------------------------------------------------
(* Populate.                                                               *)

\* Seeded fault: the storage does not look at what is acquired.
AcquirableAny == Slots

\* The storage's Acquire, and CreateNetwork, which refuses a slot whose network is
\* still there.
Acquirable == Slots \ (acq \cup lostSlots)

\* createNetworkSlot.  After a failure the slot is released, if that succeeds, but
\* what there is of its network stays.
Create ==
    /\ popNet = None /\ ~Done
    /\ \E s \in Acquirable :
          \/ acq' = acq \cup {s} /\ popNet' = s /\ UNCHANGED lostSlots
          \/ /\ NetFails
             /\ lostSlots' = lostSlots \cup {s} /\ UNCHANGED <<acq, popNet>>
    /\ UNCHANGED <<newQ, reusedQ, rules, closer, net, ret, slot>>

\* The send, which waits for room and for nothing else.
SendNew ==
    /\ popNet \in Slots /\ HasRoom(newQ, NewCap)
    /\ newQ' = newQ \cup {popNet} /\ popNet' = None
    /\ UNCHANGED <<acq, lostSlots, reusedQ, rules, closer, net, ret, slot>>

\* done; the deferred close.
PopulateStops ==
    /\ popNet = None /\ Done
    /\ popNet' = "stopped"
    /\ UNCHANGED <<acq, lostSlots, newQ, reusedQ, rules, closer, net, ret, slot>>

-----------------------------------------------------------------------------
(* Get.                                                                    *)

Took(x, s) ==
    /\ slot' = [slot EXCEPT ![x] = s]
    /\ net'  = [net EXCEPT ![x] = "conf"]

\* The first select: done, a reused slot, or on to the new ones.  From the closed
\* channel comes a nil slot, whose use panics.
Get(x) ==
    /\ net[x] = "get"
    /\ \/ /\ Done
          /\ net' = [net EXCEPT ![x] = "failed"]
          /\ UNCHANGED <<reusedQ, slot>>
       \/ \E s \in reusedQ : Took(x, s) /\ reusedQ' = reusedQ \ {s}
       \/ /\ ReusedClosed /\ reusedQ = {}
          /\ net' = [net EXCEPT ![x] = "panic"]
          /\ UNCHANGED <<reusedQ, slot>>
       \/ /\ ~Done /\ reusedQ = {}
          /\ net' = [net EXCEPT ![x] = "get_new"]
          /\ UNCHANGED <<reusedQ, slot>>
    /\ UNCHANGED <<acq, lostSlots, newQ, rules, popNet, closer, ret>>

\* The second select.  It does not look at the reused slots again.
GetNew(x) ==
    /\ net[x] = "get_new"
    /\ \/ /\ Done
          /\ net' = [net EXCEPT ![x] = "failed"]
          /\ UNCHANGED <<newQ, slot>>
       \/ \E s \in newQ : Took(x, s) /\ newQ' = newQ \ {s}
       \/ /\ NewClosed /\ newQ = {}
          /\ net' = [net EXCEPT ![x] = "panic"]
          /\ UNCHANGED <<newQ, slot>>
    /\ UNCHANGED <<acq, lostSlots, reusedQ, rules, popNet, closer, ret>>

\* ctx.Done in the second select.
GetCancelled(x) ==
    /\ net[x] = "get_new"
    /\ net' = [net EXCEPT ![x] = "failed"]
    /\ UNCHANGED <<acq, lostSlots, newQ, reusedQ, rules, popNet, closer, ret, slot>>

\* ConfigureInternet: the flag and the rules, perhaps only some of them; after an
\* error the slot is returned by a goroutine of its own.
ConfigureInternet(x) ==
    /\ net[x] = "conf"
    /\ rules' = IF x \in Custom THEN rules \cup {slot[x]} ELSE rules
    /\ \/ /\ net' = [net EXCEPT ![x] = "add"] /\ UNCHANGED ret
       \/ /\ NetFails /\ x \in Custom
          /\ net' = [net EXCEPT ![x] = "failed"]
          /\ ret' = [ret EXCEPT ![x] = "first"]
    /\ UNCHANGED <<acq, lostSlots, newQ, reusedQ, popNet, closer, slot>>

-----------------------------------------------------------------------------
(* Return.                                                                 *)

Finished(x) ==
    /\ ret'  = [ret EXCEPT ![x] = "none"]
    /\ slot' = [slot EXCEPT ![x] = None]

\* cleanup: RemoveNetwork, then the storage's Release, whatever became of the first.
\* Errors are only reported: a network that stays, or a slot the storage still has
\* as acquired, puts the slot out of use.
CleanedUp(s) ==
    /\ acq' = acq \ {s} /\ rules' = rules \ {s}
    /\ lostSlots' = lostSlots \/ (NetFails /\ lostSlots' = lostSlots \cup {s})

\* Seeded fault: the rules of the last sandbox are left in place.
ResetSkipped(s) == rules

\* ResetInternet of a slot with custom rules.
Reset(s) == rules \ {s}

\* The first select and ResetInternet.  A closed pool does not take the slot back.
ReturnReset(x) ==
    /\ ret[x] = "first"
    /\ \/ Done /\ Finished(x) /\ UNCHANGED <<acq, lostSlots, rules>>
       \/ /\ ~Done
          /\ rules' = Reset(slot[x])
          /\ ret' = [ret EXCEPT ![x] = "second"]
          /\ UNCHANGED <<acq, lostSlots, slot>>
       \/ /\ ~Done /\ NetFails /\ slot[x] \in rules
          /\ CleanedUp(slot[x]) /\ Finished(x)
    /\ UNCHANGED <<newQ, reusedQ, popNet, closer, net>>

\* Seeded fault: a slot that does not fit is forgotten.
OverflowDropped(x) == Finished(x) /\ UNCHANGED <<acq, lostSlots, rules>>

\* The default case: no room in reusedSlots.
Overflow(x) == CleanedUp(slot[x]) /\ Finished(x)

\* The second select.  A send to the closed channel panics, unless the select
\* picks done.
ReturnSend(x) ==
    /\ ret[x] = "second"
    /\ \/ Done /\ Finished(x) /\ UNCHANGED <<acq, lostSlots, rules, reusedQ>>
       \/ /\ ~ReusedClosed /\ HasRoom(reusedQ, ReusedCap)
          /\ reusedQ' = reusedQ \cup {slot[x]}
          /\ Finished(x) /\ UNCHANGED <<acq, lostSlots, rules>>
       \/ /\ ReusedClosed
          /\ ret' = [ret EXCEPT ![x] = "panic"]
          /\ UNCHANGED <<acq, lostSlots, rules, reusedQ, slot>>
       \/ /\ ~Done /\ ~HasRoom(reusedQ, ReusedCap)
          /\ Overflow(x) /\ UNCHANGED reusedQ
    /\ UNCHANGED <<newQ, popNet, closer, net>>

-----------------------------------------------------------------------------
(* Close, once, at shutdown.                                               *)

CloseStart ==
    /\ closer = "idle"
    /\ closer' = "new"
    /\ UNCHANGED <<acq, lostSlots, newQ, reusedQ, rules, popNet, net, ret, slot>>

\* range newSlots, until Populate has closed it.
CloseNew ==
    /\ closer = "new"
    /\ \/ \E s \in newQ : newQ' = newQ \ {s} /\ CleanedUp(s) /\ UNCHANGED closer
       \/ newQ = {} /\ NewClosed /\ closer' = "reused" /\ UNCHANGED <<newQ, acq, lostSlots, rules>>
    /\ UNCHANGED <<reusedQ, popNet, net, ret, slot>>

\* range reusedSlots, which Close has closed itself.
CloseReused ==
    /\ closer = "reused"
    /\ \/ \E s \in reusedQ : reusedQ' = reusedQ \ {s} /\ CleanedUp(s) /\ UNCHANGED closer
       \/ reusedQ = {} /\ closer' = "end" /\ UNCHANGED <<reusedQ, acq, lostSlots, rules>>
    /\ UNCHANGED <<newQ, popNet, net, ret, slot>>
=============================================================================
