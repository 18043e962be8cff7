----------------------------- MODULE DevicePool -----------------------------
(***************************************************************************)
(* The pool of NBD devices of an orchestrator node (nbd/pool.go) and the   *)
(* mount of one sandbox's root file system on a device: DirectPathMount    *)
(* (nbd/path_direct.go) under NBDProvider (rootfs/nbd.go).                 *)
(*                                                                         *)
(* conn is the kernel's view: the sandbox whose sockets the device is      *)
(* connected to, which is what isDeviceFree looks at.                      *)
(***************************************************************************)
EXTENDS NodeSandboxes

CONSTANTS
    Devs,      \* the devices of the kernel module
    DevCap,    \* capacity of the channel slots
    DevFails   \* may connects, disconnects and releases fail?

ASSUME DeviceAssumption ==
    /\ Devs \subseteq Nat /\ None \notin Devs
    /\ DevCap \in Nat \ {0} /\ DevFails \in BOOLEAN

VARIABLES
    used,    \* usedSlots, the bitset
    lostDevs,  \* devices whose release failed after a failed connect
    devQ,    \* the channel slots
    conn,    \* the kernel: the sandbox each device is connected to
    popDev,  \* Populate: the device it is about to send
    dev,     \* where the mount of each sandbox is
    held     \* its device

devVars == <<used, lostDevs, devQ, conn, popDev, dev, held>>

DevTypeOK ==
    /\ used \subseteq Devs /\ lostDevs \subseteq Devs /\ devQ \subseteq Devs
    /\ conn \in [Devs -> Sandboxes \cup {None}]
    /\ popDev \in Devs \cup {None}
    /\ dev \in [Sandboxes -> {"none", "open", "connect", "mounted", "failed",
                              "release", "closed"}]
    /\ held \in [Sandboxes -> Devs \cup {None}]
    /\ Cardinality(devQ) <= DevCap

DevInit ==
    /\ used = {} /\ lostDevs = {} /\ devQ = {} /\ popDev = None
    /\ conn = [d \in Devs |-> None]
    /\ dev  = [x \in Sandboxes |-> "none"]
    /\ held = [x \in Sandboxes |-> None]

-----------------------------------------------------------------------------
(* Populate.                                                               *)

\* getMaybeEmptySlot and isDeviceFree.
Candidate(d) == d \notin used /\ conn[d] = None

\* getFreeDeviceSlot: the lowest.
TakeDevice ==
    /\ popDev = None
    /\ \E d \in Devs :
          /\ Candidate(d) /\ \A e \in Devs : Candidate(e) => d <= e
          /\ used' = used \cup {d} /\ popDev' = d
    /\ UNCHANGED <<lostDevs, devQ, conn, dev, held>>

SendDevice ==
    /\ popDev # None /\ HasRoom(devQ, DevCap)
    /\ devQ' = devQ \cup {popDev} /\ popDev' = None
    /\ UNCHANGED <<used, lostDevs, conn, dev, held>>

-----------------------------------------------------------------------------
(* Open, on the sandbox's execution context, which is never cancelled.     *)

\* An error before it, of the backend's size, ends Open with no device.
GetDevice(x) ==
    /\ dev[x] = "open"
    /\ \/ \E d \in devQ :
             /\ devQ' = devQ \ {d}
             /\ held' = [held EXCEPT ![x] = d]
             /\ dev'  = [dev EXCEPT ![x] = "connect"]
       \/ /\ DevFails
          /\ dev' = [dev EXCEPT ![x] = "failed"]
          /\ UNCHANGED <<devQ, held>>
    /\ UNCHANGED <<used, lostDevs, conn, popDev>>

\* nbdnl.Connect and the wait for its status; after an error the device goes back,
\* by one attempt whose own error is only logged, and Open tries the next one or
\* gives up.
Connect(x) ==
    /\ dev[x] = "connect"
    /\ \/ /\ conn[held[x]] = None
          /\ conn' = [conn EXCEPT ![held[x]] = x]
          /\ dev'  = [dev EXCEPT ![x] = "mounted"]
          /\ UNCHANGED <<used, lostDevs, held>>
       \/ /\ DevFails \/ conn[held[x]] # None
          /\ \/ /\ conn[held[x]] = None
                /\ used' = used \ {held[x]} /\ UNCHANGED lostDevs
             \/ lostDevs' = lostDevs \cup {held[x]} /\ UNCHANGED used
          /\ held' = [held EXCEPT ![x] = None]
          /\ \E next \in {"open", "failed"} : dev' = [dev EXCEPT ![x] = next]
          /\ UNCHANGED conn
    /\ UNCHANGED <<devQ, popDev>>

-----------------------------------------------------------------------------
(* NBDProvider.Close.                                                      *)

\* sync waits for the path, that is until Open is over; then disconnect.  One
\* that fails leaves the device to the kernel's timeout for dead connections.
CloseMount(x) ==
    /\ \/ /\ dev[x] = "failed"
          /\ dev' = [dev EXCEPT ![x] = "closed"]
          /\ UNCHANGED conn
       \/ /\ dev[x] = "mounted"
          /\ dev' = [dev EXCEPT ![x] = "release"]
          /\ \/ conn' = [conn EXCEPT ![held[x]] = None]
             \/ DevFails /\ UNCHANGED conn
    /\ UNCHANGED <<used, lostDevs, devQ, popDev, held>>

\* External: the kernel drops a connection whose sockets are closed.
KernelDrops(d) ==
    /\ conn[d] # None /\ dev[conn[d]] = "release"
    /\ conn' = [conn EXCEPT ![d] = None]
    /\ UNCHANGED <<used, lostDevs, devQ, popDev, dev, held>>

\* Seeded fault: the device is given back whether or not it is free.
MayReleaseBusy(x) == TRUE

\* isDeviceFree.
MayRelease(x) == conn[held[x]] = None

\* ReleaseDevice, retried until the device is free.
ReleaseDevice(x) ==
    /\ dev[x] = "release" /\ MayRelease(x)
    /\ used' = used \ {held[x]}
    /\ held' = [held EXCEPT ![x] = None]
    /\ dev'  = [dev EXCEPT ![x] = "closed"]
    /\ UNCHANGED <<lostDevs, devQ, conn, popDev>>
=============================================================================
