------------------------ MODULE SandboxResourcesProofs ------------------------
(***************************************************************************)
(* Proofs about SandboxResources, for every set of sandboxes, slots and    *)
(* devices and every capacity of the channels.                             *)
(***************************************************************************)
EXTENDS SandboxResources, FiniteSetTheorems, SequenceTheorems, TLAPS

\* TypeOK but for the capacities of the channels and the list of the Cleanup.
NetTypes ==
    /\ acq \subseteq Slots /\ lostSlots \subseteq Slots
    /\ newQ \subseteq Slots /\ reusedQ \subseteq Slots
    /\ rules \subseteq Slots
    /\ popNet \in Slots \cup {None, "stopped"}
    /\ closer \in {"idle", "new", "reused", "end"}
    /\ net \in [Sandboxes -> {"get", "get_new", "conf", "add", "add_lock", "ok",
                              "failed", "panic"}]
    /\ ret \in [Sandboxes -> {"none", "first", "second", "panic"}]
    /\ slot \in [Sandboxes -> Slots \cup {None}]

DevTypes ==
    /\ used \subseteq Devs /\ lostDevs \subseteq Devs /\ devQ \subseteq Devs
    /\ conn \in [Devs -> Sandboxes \cup {None}]
    /\ popDev \in Devs \cup {None}
    /\ dev \in [Sandboxes -> {"none", "open", "connect", "mounted", "failed",
                              "release", "closed"}]
    /\ held \in [Sandboxes -> Devs \cup {None}]
    /\ \A x \in Sandboxes : dev[x] = "connect" => held[x] \in Devs

ResTypes ==
    /\ main \in [Sandboxes -> Starting \cup {"running", "cleaning", "clean"}]
    /\ ov \in [Sandboxes -> {"new", "add_lock", "ok", "err", "stuck"}]

\* The channels hold no more than their capacities, and are finite: of a set that
\* is not, Cardinality says nothing.
Bounded ==
    /\ IsFiniteSet(newQ) /\ Cardinality(newQ) <= NewCap
    /\ IsFiniteSet(reusedQ) /\ Cardinality(reusedQ) <= ReusedCap
    /\ IsFiniteSet(devQ) /\ Cardinality(devQ) <= DevCap

\* What the Cleanup can have in its list, by how far the two promises are: each
\* registers its release at most once.
Lists == {<<>>, <<"net">>, <<"dev">>, <<"net", "dev">>, <<"dev", "net">>}
NoNet == {<<>>, <<"dev">>}
NoDev == {<<>>, <<"net">>}

FnsInv ==
    /\ fns \in [Sandboxes -> Lists]
    /\ \A x \in Sandboxes : net[x] # "ok" => fns[x] \in NoNet
    /\ \A x \in Sandboxes : ov[x] # "ok" => fns[x] \in NoDev

\* A sandbox has a slot from Get to the end of its return; a return runs after
\* Get, and nothing is left then that could start it again; and until it runs it is
\* the promise or the list that has it to start.
HasSlot(x) ==
    /\ net[x] \in {"get", "get_new", "panic"} => slot[x] = None /\ ret[x] = "none"
    /\ net[x] \in {"conf", "add", "add_lock"} => slot[x] # None /\ ret[x] = "none"
    /\ ret[x] # "none" => slot[x] # None /\ fns[x] \in NoNet
    /\ fns[x] \notin NoNet => slot[x] # None
    /\ slot[x] # None => \/ net[x] \in {"conf", "add", "add_lock"}
                         \/ fns[x] \notin NoNet \/ ret[x] # "none"

SlotHeld == \A x \in Sandboxes : HasSlot(x)

Types == NetTypes /\ DevTypes /\ ResTypes /\ FnsInv /\ SlotHeld

\* What the storage has given out includes all that is in use, no slot out of use
\* is, and rules are only in firewalls of slots that sandboxes had: not of those on
\* offer, and not of one that ResetInternet is done with.
SlotInv ==
    /\ newQ \subseteq acq /\ reusedQ \subseteq acq
    /\ popNet \in Slots => popNet \in acq
    /\ \A x \in Sandboxes : slot[x] # None => slot[x] \in acq
    /\ rules \subseteq acq
    /\ \A s \in lostSlots : s \notin newQ /\ s \notin reusedQ /\ s # popNet
    /\ \A x \in Sandboxes : slot[x] \notin lostSlots
    /\ \A s \in rules : s \notin newQ /\ s \notin reusedQ /\ s # popNet
    /\ \A x \in Sandboxes : ret[x] = "second" => slot[x] \notin rules

\* A mount has a device from Open to its release, and a device is connected only
\* to a mount that has connected it and not yet released it; a lost device is
\* nobody's.
DeviceInv ==
    /\ \A d \in lostDevs : d \notin devQ /\ d # popDev
    /\ \A x \in Sandboxes : held[x] \notin lostDevs
    /\ \A x \in Sandboxes : held[x] # None <=> dev[x] \in {"connect", "mounted", "release"}
    /\ \A x \in Sandboxes : ov[x] # "ok" => dev[x] = "none"
    /\ \A d \in Devs : conn[d] # None => dev[conn[d]] \in {"mounted", "release"}
    /\ popDev \notin devQ

-----------------------------------------------------------------------------
(* Which steps change what.                                                *)

\* The steps that change the state of the pool of slots, or who has which.
NetStep ==
    \/ \E x \in Sandboxes :
          \/ AddNet(x) \/ AddNetLocked(x) \/ RunFunction(x) \/ AddProviderLocked(x)
          \/ /\ Get(x) \/ GetNew(x) \/ ConfigureInternet(x) \/ GetCancelled(x)
                \/ ReturnReset(x) \/ ReturnSend(x)
             /\ UNCHANGED <<devVars, resVars>>
    \/ /\ Create \/ SendNew \/ PopulateStops \/ CloseStart \/ CloseNew \/ CloseReused
       /\ UNCHANGED <<devVars, resVars>>

\* The same for devices.
DevStep ==
    \/ \E x \in Sandboxes :
          \/ AddProvider(x) \/ AddProviderLocked(x)
          \/ (GetDevice(x) \/ Connect(x) \/ CloseMount(x) \/ ReleaseDevice(x)) /\ UNCHANGED ov
    \/ (TakeDevice \/ SendDevice \/ \E d \in Devs : KernelDrops(d)) /\ UNCHANGED ov

LEMMA NetSteps ==
    ASSUME [Next]_vars
    PROVE  NetStep \/ UNCHANGED <<netVars, fns>>
<1>1. CASE UNCHANGED vars
  BY <1>1 DEF vars, resVars
<1>2. ASSUME NEW x \in Sandboxes, Request(x)
      PROVE  NetStep \/ UNCHANGED <<netVars, fns>>
  BY <1>2 DEF Request, NetStep, WaitNet, WaitProvider, Boot, SandboxEnds, CloseProvider,
              resVars
<1>3. ASSUME NEW x \in Sandboxes,
             IpsPromise(x) \/ OverlayPromise(x) \/ Return(x) \/ Deadline(x)
      PROVE  NetStep \/ UNCHANGED <<netVars, fns>>
  BY <1>3 DEF IpsPromise, OverlayPromise, Return, Deadline, NetStep, AddProvider
<1>4. ASSUME NEW x \in Sandboxes, Mount(x) \/ GiveUp(x)
      PROVE  UNCHANGED <<netVars, fns>>
  BY <1>4 DEF Mount, GiveUp, resVars
<1>5. CASE PopulateSlots \/ Close \/ (Shutdown /\ CloseStart /\ UNCHANGED <<devVars, resVars>>)
  BY <1>5 DEF PopulateSlots, Close, NetStep
<1>6. CASE PopulateDevices \/ Kernel
  BY <1>6 DEF PopulateDevices, Kernel, resVars
<1> QED
  BY <1>1, <1>2, <1>3, <1>4, <1>5, <1>6 DEF Next

LEMMA DevSteps ==
    ASSUME [Next]_vars
    PROVE  DevStep \/ UNCHANGED <<devVars, ov>>
<1>1. CASE UNCHANGED vars
  BY <1>1 DEF vars, resVars
<1>2. ASSUME NEW x \in Sandboxes, Request(x)
      PROVE  DevStep \/ UNCHANGED <<devVars, ov>>
  BY <1>2 DEF Request, DevStep, WaitNet, WaitProvider, Boot, SandboxEnds, CloseProvider,
              RunFunction, resVars
<1>3. ASSUME NEW x \in Sandboxes, IpsPromise(x) \/ Return(x) \/ Deadline(x) \/ GiveUp(x)
      PROVE  UNCHANGED <<devVars, ov>>
  BY <1>3 DEF IpsPromise, Return, Deadline, GiveUp, AddNet, AddNetLocked, resVars
<1>4. ASSUME NEW x \in Sandboxes, Mount(x) \/ OverlayPromise(x)
      PROVE  DevStep
  BY <1>4 DEF Mount, OverlayPromise, DevStep, resVars
<1>5. CASE PopulateSlots \/ Close \/ (Shutdown /\ CloseStart /\ UNCHANGED <<devVars, resVars>>)
  BY <1>5 DEF PopulateSlots, Close, resVars
<1>6. CASE PopulateDevices \/ Kernel
  BY <1>6 DEF PopulateDevices, Kernel, resVars, DevStep
<1> QED
  BY <1>1, <1>2, <1>3, <1>4, <1>5, <1>6 DEF Next

-----------------------------------------------------------------------------
(* Types.                                                                  *)

LEMMA NetTypesStep ==
    ASSUME NetTypes, SlotHeld, [Next]_vars
    PROVE  NetTypes'
<1>1. ASSUME NEW x \in Sandboxes,
             AddNet(x) \/ AddNetLocked(x) \/ RunFunction(x) \/ AddProviderLocked(x)
      PROVE  NetTypes'
  BY <1>1 DEF NetTypes, AddNet, AddNetLocked, RunFunction, AddProviderLocked, netVars
<1>2. ASSUME NEW x \in Sandboxes, Get(x) \/ GetNew(x) \/ GetCancelled(x)
      PROVE  NetTypes'
  BY <1>2 DEF NetTypes, Get, GetNew, GetCancelled, Took
<1>3. ASSUME NEW x \in Sandboxes, ConfigureInternet(x)
      PROVE  NetTypes'
  <2>1. slot[x] \in Slots
    BY <1>3 DEF NetTypes, ConfigureInternet, SlotHeld, HasSlot
  <2> QED
    BY <1>3, <2>1 DEF NetTypes, ConfigureInternet
<1>4. ASSUME NEW x \in Sandboxes, ReturnReset(x) \/ ReturnSend(x)
      PROVE  NetTypes'
  <2>1. slot[x] \in Slots
    BY <1>4 DEF NetTypes, ReturnReset, ReturnSend, SlotHeld, HasSlot
  <2> QED
    BY <1>4, <2>1 DEF NetTypes, ReturnReset, ReturnSend, Finished, CleanedUp, Reset, Overflow
<1>5. CASE Create \/ SendNew \/ PopulateStops \/ CloseStart
  BY <1>5 DEF NetTypes, Create, Acquirable, SendNew, PopulateStops, CloseStart
<1>6. CASE CloseNew \/ CloseReused
  BY <1>6 DEF NetTypes, CloseNew, CloseReused, CleanedUp
<1>7. CASE UNCHANGED netVars
  BY <1>7 DEF NetTypes, netVars
<1> QED
  BY <1>1, <1>2, <1>3, <1>4, <1>5, <1>6, <1>7, NetSteps DEF NetStep

LEMMA DevTypesStep ==
    ASSUME DevTypes, [Next]_vars
    PROVE  DevTypes'
<1>1. ASSUME NEW x \in Sandboxes, AddProvider(x) \/ AddProviderLocked(x)
      PROVE  DevTypes'
  BY <1>1 DEF DevTypes, AddProvider, AddProviderLocked, devVars
<1>2. ASSUME NEW x \in Sandboxes, GetDevice(x) \/ ReleaseDevice(x)
      PROVE  DevTypes'
  BY <1>2 DEF DevTypes, GetDevice, ReleaseDevice
<1>3. ASSUME NEW x \in Sandboxes, Connect(x) \/ CloseMount(x)
      PROVE  DevTypes'
  <2>1. CASE Connect(x)
    <3>1. dev[x] = "connect" /\ held[x] \in Devs /\ devQ' = devQ /\ popDev' = popDev
      BY <2>1 DEF DevTypes, Connect
    <3>2. CASE /\ conn' = [conn EXCEPT ![held[x]] = x] /\ UNCHANGED <<used, lostDevs, held>>
               /\ dev' = [dev EXCEPT ![x] = "mounted"]
      BY <3>1, <3>2 DEF DevTypes
    <3>3. ASSUME NEW next \in {"open", "failed"}, dev' = [dev EXCEPT ![x] = next],
                 held' = [held EXCEPT ![x] = None], UNCHANGED conn,
                 used' \in {used, used \ {held[x]}},
                 lostDevs' \in {lostDevs, lostDevs \cup {held[x]}}
          PROVE  DevTypes'
      <4>1. /\ used' \subseteq Devs /\ lostDevs' \subseteq Devs
        BY <3>1, <3>3 DEF DevTypes
      <4>2. /\ dev' \in [Sandboxes -> {"none", "open", "connect", "mounted", "failed",
                                       "release", "closed"}]
            /\ held' \in [Sandboxes -> Devs \cup {None}]
            /\ \A y \in Sandboxes : dev'[y] = "connect" => y # x
            /\ \A y \in Sandboxes : y # x => dev'[y] = dev[y] /\ held'[y] = held[y]
        BY <3>3 DEF DevTypes
      <4> QED
        BY <3>1, <3>3, <4>1, <4>2 DEF DevTypes
    <3> QED
      BY <2>1, <3>2, <3>3 DEF Connect
  <2>2. CASE CloseMount(x)
    <3>1. dev' \in {[dev EXCEPT ![x] = "closed"], [dev EXCEPT ![x] = "release"]}
      BY <2>2 DEF CloseMount
    <3>2. conn' \in [Devs -> Sandboxes \cup {None}]
      BY <2>2 DEF DevTypes, CloseMount
    <3>3. /\ dev' \in [Sandboxes -> {"none", "open", "connect", "mounted", "failed",
                                     "release", "closed"}]
          /\ \A y \in Sandboxes : dev'[y] = "connect" => dev[y] = "connect"
      BY <3>1 DEF DevTypes
    <3> QED
      BY <2>2, <3>2, <3>3 DEF DevTypes, CloseMount
  <2> QED
    BY <1>3, <2>1, <2>2
<1>4. CASE TakeDevice \/ SendDevice \/ \E d \in Devs : KernelDrops(d)
  BY <1>4 DEF DevTypes, TakeDevice, SendDevice, KernelDrops
<1>5. CASE UNCHANGED devVars
  BY <1>5 DEF DevTypes, devVars
<1> QED
  BY <1>1, <1>2, <1>3, <1>4, <1>5, DevSteps DEF DevStep

LEMMA ResTypesStep ==
    ASSUME ResTypes, [Next]_vars
    PROVE  ResTypes'
<1> USE DEF ResTypes, Starting
<1>1. CASE UNCHANGED vars
  BY <1>1 DEF vars, resVars
<1>2. ASSUME NEW x \in Sandboxes, Request(x)
      PROVE  ResTypes'
  BY <1>2 DEF Request, WaitNet, WaitProvider, Boot, SandboxEnds, CloseProvider,
              RunFunction, resVars, Goto
<1>3. ASSUME NEW x \in Sandboxes, IpsPromise(x) \/ Return(x) \/ Deadline(x) \/ GiveUp(x)
      PROVE  ResTypes'
  BY <1>3 DEF IpsPromise, Return, Deadline, GiveUp, AddNet, AddNetLocked, resVars, Goto
<1>4. ASSUME NEW x \in Sandboxes, Mount(x) \/ OverlayPromise(x)
      PROVE  ResTypes'
  BY <1>4 DEF Mount, OverlayPromise, AddProvider, AddProviderLocked, resVars
<1>5. CASE PopulateSlots \/ Close \/ (Shutdown /\ CloseStart /\ UNCHANGED <<devVars, resVars>>)
  BY <1>5 DEF PopulateSlots, Close, resVars
<1>6. CASE PopulateDevices \/ Kernel
  BY <1>6 DEF PopulateDevices, Kernel, resVars
<1> QED
  BY <1>1, <1>2, <1>3, <1>4, <1>5, <1>6 DEF Next

\* What can happen to the list of the Cleanup: a promise adds its release and is
\* done, or the loop passes the last one; and a promise that is done stays so.
LEMMA FnsSteps ==
    ASSUME NetTypes, ResTypes, FnsInv, [Next]_vars
    PROVE  \/ /\ fns' = fns
              /\ \A x \in Sandboxes : /\ net[x] = "ok" => net'[x] = "ok"
                                      /\ ov[x] = "ok" => ov'[x] = "ok"
           \/ \E x \in Sandboxes :
                 /\ net[x] = "add_lock" /\ net' = [net EXCEPT ![x] = "ok"]
                 /\ fns' = [fns EXCEPT ![x] = Append(@, "net")] /\ ov' = ov
           \/ \E x \in Sandboxes :
                 /\ ov[x] = "add_lock" /\ ov' = [ov EXCEPT ![x] = "ok"]
                 /\ fns' = [fns EXCEPT ![x] = Append(@, "dev")] /\ net' = net
           \/ \E x \in Sandboxes :
                 /\ fns[x] # <<>> /\ fns' = [fns EXCEPT ![x] = Front(@)]
                 /\ net' = net /\ ov' = ov
<1> DEFINE Kept == \A x \in Sandboxes : /\ net[x] = "ok" => net'[x] = "ok"
                                        /\ ov[x] = "ok" => ov'[x] = "ok"
<1>1. CASE UNCHANGED <<netVars, fns>>
  <2>1. \A x \in Sandboxes : ov[x] = "ok" => ov'[x] = "ok"
    BY DevSteps DEF DevStep, ResTypes, AddProvider, AddProviderLocked
  <2> QED
    BY <1>1, <2>1 DEF netVars
<1>2. ASSUME NEW x \in Sandboxes, AddNet(x)
      PROVE  fns' = fns /\ Kept
  BY <1>2 DEF AddNet, resVars, NetTypes
<1>3. ASSUME NEW x \in Sandboxes,
             Get(x) \/ GetNew(x) \/ ConfigureInternet(x) \/ GetCancelled(x)
                \/ ReturnReset(x) \/ ReturnSend(x),
             UNCHANGED <<devVars, resVars>>
      PROVE  fns' = fns /\ Kept
  BY <1>3 DEF Get, GetNew, ConfigureInternet, GetCancelled, ReturnReset, ReturnSend, Took,
              resVars, NetTypes
<1>4. ASSUME Create \/ SendNew \/ PopulateStops \/ CloseStart \/ CloseNew \/ CloseReused,
             UNCHANGED <<devVars, resVars>>
      PROVE  fns' = fns /\ Kept
  BY <1>4 DEF Create, SendNew, PopulateStops, CloseStart, CloseNew, CloseReused, resVars
<1>5. ASSUME NEW x \in Sandboxes, RunFunction(x)
      PROVE  /\ net' = net /\ ov' = ov
             /\ fns' = fns \/ (fns[x] # <<>> /\ fns' = [fns EXCEPT ![x] = Front(@)])
  BY <1>5 DEF RunFunction, LoopDone, FnsInv
<1> QED
  BY <1>1, <1>2, <1>3, <1>4, <1>5, NetSteps DEF NetStep, AddNetLocked, AddProviderLocked, netVars

LEMMA AppendTwo ==
    ASSUME NEW a, NEW b
    PROVE  Append(<<a>>, b) = <<a, b>>
<1> DEFINE S == {a, b}
<1>1. <<a>> \in Seq(S) /\ <<a, b>> \in Seq(S)
  OBVIOUS
<1>2. Append(<<a>>, b) \in Seq(S)
  BY <1>1
<1>3. Len(Append(<<a>>, b)) = 2 /\ Len(<<a, b>>) = 2
  OBVIOUS
<1>4. \A i \in 1 .. 2 : Append(<<a>>, b)[i] = <<a, b>>[i]
  <2>1. Append(<<a>>, b)[1] = a /\ Append(<<a>>, b)[2] = b
    OBVIOUS
  <2>2. 1 .. 2 = {1, 2}
    OBVIOUS
  <2> QED
    BY <2>1, <2>2
<1> QED
  BY <1>1, <1>2, <1>3, <1>4, SeqEqual, Zenon

LEMMA FrontTwo ==
    ASSUME NEW a, NEW b
    PROVE  Front(<<a, b>>) = <<a>>
<1> DEFINE S == {a, b}
<1>1. <<a>> \in Seq(S) /\ <<a, b>> \in Seq(S)
  OBVIOUS
<1>2. Front(<<a, b>>) \in Seq(S)
  BY <1>1 DEF Front
<1>3. Len(Front(<<a, b>>)) = 1 /\ Len(<<a>>) = 1
  BY DEF Front
<1>4. \A i \in 1 .. 1 : Front(<<a, b>>)[i] = <<a>>[i]
  BY DEF Front
<1> QED
  BY <1>1, <1>2, <1>3, <1>4, SeqEqual, Zenon

LEMMA AppendNet ==
    ASSUME NEW f \in NoNet
    PROVE  /\ Append(f, "net") \in Lists /\ Append(f, "net") \notin NoNet
           /\ f \in NoDev => Append(f, "net") \in NoDev
<1>1. Append(<<>>, "net") = <<"net">>
  OBVIOUS
<1>2. Append(<<"dev">>, "net") = <<"dev", "net">>
  BY AppendTwo
<1>3. <<"dev">> # <<>> /\ <<"net">> # <<>> /\ <<"dev">> # <<"net">>
      /\ <<"net", "dev">> # <<>> /\ <<"net", "dev">> # <<"dev">>
      /\ <<"dev", "net">> # <<>> /\ <<"dev", "net">> # <<"dev">>
  OBVIOUS
<1> QED
  BY <1>1, <1>2, <1>3 DEF NoNet, NoDev, Lists

LEMMA AppendDev ==
    ASSUME NEW f \in NoDev
    PROVE  /\ Append(f, "dev") \in Lists
           /\ Append(f, "dev") \in NoNet <=> f \in NoNet
<1>1. Append(<<>>, "dev") = <<"dev">>
  OBVIOUS
<1>2. Append(<<"net">>, "dev") = <<"net", "dev">>
  BY AppendTwo
<1>3. <<"dev">> # <<>> /\ <<"net">> # <<>> /\ <<"dev">> # <<"net">>
      /\ <<"net", "dev">> # <<>> /\ <<"net", "dev">> # <<"dev">>
  OBVIOUS
<1> QED
  BY <1>1, <1>2, <1>3 DEF NoNet, NoDev, Lists

\* What the loop passes, and what is left.
LEMMA LastFront ==
    ASSUME NEW f \in Lists, f # <<>>
    PROVE  /\ Front(f) \in Lists
           /\ f \in NoDev => Front(f) \in NoDev
           /\ Last(f) = "net" => f \notin NoNet /\ Front(f) \in NoNet
           /\ Last(f) = "dev" => (f \in NoNet <=> Front(f) \in NoNet)
           /\ f \in NoNet => Last(f) = "dev"
<1>1. Front(<<"net">>) = <<>> /\ Front(<<"dev">>) = <<>>
  BY DEF Front
<1>2. Front(<<"net", "dev">>) = <<"net">> /\ Front(<<"dev", "net">>) = <<"dev">>
  BY FrontTwo
<1>3. /\ Last(<<"net">>) = "net" /\ Last(<<"dev">>) = "dev"
      /\ Last(<<"net", "dev">>) = "dev" /\ Last(<<"dev", "net">>) = "net"
  BY DEF Last
<1>4. <<"net">> # <<"dev">> /\ <<"dev">> # <<"dev", "net">> /\ <<"net">> # <<>>
      /\ <<"dev", "net">> # <<>> /\ <<"net", "dev">> # <<>>
      /\ <<"net", "dev">> # <<"dev">>
  OBVIOUS
<1> QED
  BY <1>1, <1>2, <1>3, <1>4 DEF Lists, NoNet, NoDev

LEMMA FnsInvStep ==
    ASSUME Types, [Next]_vars
    PROVE  FnsInv'
<1> USE DEF Types, FnsInv, NetTypes, ResTypes
<1>1. ASSUME NEW x \in Sandboxes, net[x] = "add_lock", net' = [net EXCEPT ![x] = "ok"],
             fns' = [fns EXCEPT ![x] = Append(@, "net")], ov' = ov
      PROVE  FnsInv'
  <2>1. fns[x] \in NoNet
    BY <1>1
  <2> QED
    BY <1>1, <2>1, AppendNet
<1>2. ASSUME NEW x \in Sandboxes, ov[x] = "add_lock", ov' = [ov EXCEPT ![x] = "ok"],
             fns' = [fns EXCEPT ![x] = Append(@, "dev")], net' = net
      PROVE  FnsInv'
  <2>1. fns[x] \in NoDev
    BY <1>2
  <2> QED
    BY <1>2, <2>1, AppendDev
<1>3. ASSUME NEW x \in Sandboxes, fns[x] # <<>>, fns' = [fns EXCEPT ![x] = Front(@)],
             net' = net, ov' = ov
      PROVE  FnsInv'
  <2>1. fns[x] \in Lists
    OBVIOUS
  <2> QED
    BY <1>3, <2>1, LastFront
<1>4. ASSUME fns' = fns,
             \A x \in Sandboxes : /\ net[x] = "ok" => net'[x] = "ok"
                                  /\ ov[x] = "ok" => ov'[x] = "ok"
      PROVE  FnsInv'
  BY <1>4
<1> QED
  BY <1>1, <1>2, <1>3, <1>4, FnsSteps

\* A sandbox's slot changes only when it gets one or its return ends, and nobody
\* else's does then.
LEMMA SlotHeldStep ==
    ASSUME Types, [Next]_vars
    PROVE  SlotHeld'
<1> USE PoolAssumption DEF SlotHeld, HasSlot, Types, NetTypes
<1>1. ASSUME NEW x \in Sandboxes, AddNet(x)
      PROVE  SlotHeld'
  BY <1>1 DEF AddNet, FnsInv, resVars
<1>2. ASSUME NEW x \in Sandboxes, AddNetLocked(x)
      PROVE  SlotHeld'
  BY <1>2, AppendNet DEF AddNetLocked, FnsInv
<1>3. ASSUME NEW x \in Sandboxes, AddProviderLocked(x)
      PROVE  SlotHeld'
  <2>1. fns[x] \in NoDev
    BY <1>3 DEF FnsInv, AddProviderLocked, ResTypes
  <2> QED
    BY <1>3, <2>1, AppendDev DEF AddProviderLocked, FnsInv, netVars
<1>4. ASSUME NEW x \in Sandboxes, RunFunction(x)
      PROVE  SlotHeld'
  <2>1. fns[x] \in Lists
    BY DEF FnsInv
  <2>2. CASE LoopDone(fns[x])
    BY <1>4, <2>2 DEF RunFunction, LoopDone, FnsInv
  <2>3. CASE ~LoopDone(fns[x]) /\ Last(fns[x]) = "net"
    BY <1>4, <2>1, <2>3, LastFront DEF RunFunction, LoopDone, FnsInv
  <2>4. CASE ~LoopDone(fns[x]) /\ Last(fns[x]) = "dev"
    BY <1>4, <2>1, <2>4, LastFront DEF RunFunction, LoopDone, FnsInv
  <2> QED
    BY <1>4, <2>2, <2>3, <2>4 DEF RunFunction
<1>5. ASSUME NEW x \in Sandboxes, Get(x) \/ GetNew(x) \/ GetCancelled(x), fns' = fns
      PROVE  SlotHeld'
  BY <1>5 DEF Get, GetNew, GetCancelled, Took
<1>6. ASSUME NEW x \in Sandboxes, ConfigureInternet(x), fns' = fns
      PROVE  SlotHeld'
  BY <1>6 DEF ConfigureInternet, FnsInv
<1>7. ASSUME NEW x \in Sandboxes, ReturnReset(x) \/ ReturnSend(x), fns' = fns
      PROVE  SlotHeld'
  BY <1>7 DEF ReturnReset, ReturnSend, Finished, CleanedUp, Overflow
<1>8. ASSUME Create \/ SendNew \/ PopulateStops \/ CloseStart \/ CloseNew \/ CloseReused, fns' = fns
      PROVE  SlotHeld'
  BY <1>8 DEF Create, SendNew, PopulateStops, CloseStart, CloseNew, CloseReused
<1>9. CASE UNCHANGED <<netVars, fns>>
  BY <1>9 DEF netVars
<1> QED
  BY <1>1, <1>2, <1>3, <1>4, <1>5, <1>6, <1>7, <1>8, <1>9, NetSteps DEF NetStep, resVars

LEMMA TypesStep ==
    ASSUME Types, [Next]_vars
    PROVE  Types'
BY NetTypesStep, DevTypesStep, ResTypesStep, FnsInvStep, SlotHeldStep DEF Types

LEMMA TypesInvariant == Spec => []Types
<1>1. Init => Types
  BY DEF Init, NetInit, DevInit, Types, NetTypes, DevTypes, ResTypes, Starting, FnsInv,
         SlotHeld, HasSlot, Lists, NoNet, NoDev
<1> QED
  BY <1>1, TypesStep, PTL DEF Spec

-----------------------------------------------------------------------------
(* The channels.                                                           *)

LEMMA ChannelSend ==
    ASSUME NEW S, NEW e, NEW cap \in Nat, IsFiniteSet(S), HasRoom(S, cap)
    PROVE  IsFiniteSet(S \cup {e}) /\ Cardinality(S \cup {e}) <= cap
<1>1. Cardinality(S) \in Nat
  BY FS_CardinalityType
<1>2. /\ IsFiniteSet(S \cup {e})
      /\ Cardinality(S \cup {e}) = Cardinality(S) \/ Cardinality(S \cup {e}) = Cardinality(S) + 1
  BY FS_AddElement
<1> QED
  BY <1>1, <1>2 DEF HasRoom

LEMMA ChannelReceive ==
    ASSUME NEW S, NEW e, NEW cap \in Nat, IsFiniteSet(S), Cardinality(S) <= cap
    PROVE  IsFiniteSet(S \ {e}) /\ Cardinality(S \ {e}) <= cap
<1>1. Cardinality(S) \in Nat
  BY FS_CardinalityType
<1>2. /\ IsFiniteSet(S \ {e})
      /\ Cardinality(S \ {e}) = Cardinality(S) \/ Cardinality(S \ {e}) = Cardinality(S) - 1
  BY FS_RemoveElement
<1> QED
  BY <1>1, <1>2

\* What can happen to a channel.
ChannelStep(S, cap, T) ==
    \/ T = S
    \/ \E e : T = S \ {e}
    \/ \E e : HasRoom(S, cap) /\ T = S \cup {e}

LEMMA ChannelBound ==
    ASSUME NEW S, NEW cap \in Nat, NEW T, IsFiniteSet(S), Cardinality(S) <= cap,
           ChannelStep(S, cap, T)
    PROVE  IsFiniteSet(T) /\ Cardinality(T) <= cap
<1>1. ASSUME NEW e, T = S \ {e}
      PROVE  IsFiniteSet(T) /\ Cardinality(T) <= cap
  BY <1>1, ChannelReceive
<1>2. ASSUME NEW e, HasRoom(S, cap), T = S \cup {e}
      PROVE  IsFiniteSet(T) /\ Cardinality(T) <= cap
  BY <1>2, ChannelSend
<1> QED
  BY <1>1, <1>2 DEF ChannelStep

LEMMA BoundedStep ==
    ASSUME Bounded, [Next]_vars
    PROVE  Bounded'
<1>1. NewCap \in Nat /\ ReusedCap \in Nat /\ DevCap \in Nat
  BY PoolAssumption, DeviceAssumption
<1>2. ChannelStep(newQ, NewCap, newQ')
  BY NetSteps DEF ChannelStep, NetStep, netVars, AddNet, AddNetLocked, RunFunction,
     AddProviderLocked, Get, GetNew, GetCancelled, ConfigureInternet, ReturnReset, ReturnSend,
     Create, SendNew, PopulateStops, CloseStart, CloseNew, CloseReused
<1>3. ChannelStep(reusedQ, ReusedCap, reusedQ')
  BY NetSteps DEF ChannelStep, NetStep, netVars, AddNet, AddNetLocked, RunFunction,
     AddProviderLocked, Get, GetNew, GetCancelled, ConfigureInternet, ReturnReset, ReturnSend,
     Create, SendNew, PopulateStops, CloseStart, CloseNew, CloseReused
<1>4. ChannelStep(devQ, DevCap, devQ')
  BY DevSteps DEF ChannelStep, DevStep, devVars, AddProvider, AddProviderLocked, GetDevice,
     Connect, CloseMount, ReleaseDevice, TakeDevice, SendDevice, KernelDrops
<1> QED
  BY <1>1, <1>2, <1>3, <1>4, ChannelBound DEF Bounded

LEMMA BoundedInvariant == Spec => []Bounded
<1>1. Init => Bounded
  <2>1. IsFiniteSet({}) /\ Cardinality({}) = 0
    BY FS_EmptySet
  <2> QED
    BY <2>1, PoolAssumption, DeviceAssumption DEF Init, NetInit, DevInit, Bounded
<1> QED
  BY <1>1, BoundedStep, PTL DEF Spec

\* Every run of the request, its promises, its cleanup and the pools keeps to the
\* types; in particular no channel ever holds more than its capacity, and each
\* promise registers its release at most once.
THEOREM TypeCorrect == Spec => []TypeOK
<1>1. Types /\ Bounded => TypeOK
  BY DEF Types, Bounded, TypeOK, NetTypeOK, DevTypeOK, NetTypes, DevTypes, ResTypes, FnsInv, Lists
<1> QED
  BY <1>1, TypesInvariant, BoundedInvariant, PTL

-----------------------------------------------------------------------------
(* Network slots.                                                          *)

\* The first half of NoSlotLost; SlotHeld gives the other.
SlotsKept ==
    ~Done => acq = newQ \cup reusedQ \cup
               ((({popNet} \cup {slot[x] : x \in Sandboxes}) \ {None, "stopped"}))

SlotSafe == SlotsExclusive /\ SlotsKept /\ NoForeignRules /\ SlotInv

LEMMA GetSafe ==
    ASSUME Types, SlotSafe, NEW x \in Sandboxes, Get(x) \/ GetNew(x) \/ GetCancelled(x)
    PROVE  SlotSafe'
<1> USE PoolAssumption DEF SlotSafe, SlotsExclusive, SlotInv, SlotsKept, NoForeignRules, Done,
        Types, NetTypes
<1>1. slot[x] = None /\ ret[x] = "none"
  BY DEF Get, GetNew, GetCancelled, SlotHeld, HasSlot
<1>2. ASSUME UNCHANGED <<acq, lostSlots, newQ, reusedQ, rules, popNet, closer, ret, slot>>,
             net' \in {[net EXCEPT ![x] = l] : l \in {"failed", "panic", "get_new"}}
      PROVE  SlotSafe'
  BY <1>1, <1>2
<1>3. ASSUME NEW s \in reusedQ, Took(x, s), reusedQ' = reusedQ \ {s},
             UNCHANGED <<acq, lostSlots, newQ, rules, popNet, closer, ret>>
      PROVE  SlotSafe'
  BY <1>1, <1>3 DEF Took
<1>4. ASSUME NEW s \in newQ, Took(x, s), newQ' = newQ \ {s},
             UNCHANGED <<acq, lostSlots, reusedQ, rules, popNet, closer, ret>>
      PROVE  SlotSafe'
  BY <1>1, <1>4 DEF Took
<1> QED
  BY <1>2, <1>3, <1>4 DEF Get, GetNew, GetCancelled

LEMMA ConfigureSafe ==
    ASSUME Types, SlotSafe, NEW x \in Sandboxes, ConfigureInternet(x)
    PROVE  SlotSafe'
<1> USE PoolAssumption DEF SlotSafe, SlotsExclusive, SlotInv, SlotsKept, NoForeignRules, Done,
        Types, NetTypes
<1>1. slot[x] \in Slots /\ ret[x] = "none"
  BY DEF ConfigureInternet, SlotHeld, HasSlot
<1> QED
  BY <1>1 DEF ConfigureInternet

LEMMA ReturnResetSafe ==
    ASSUME Types, SlotSafe, NEW x \in Sandboxes, ReturnReset(x)
    PROVE  SlotSafe'
<1> USE PoolAssumption DEF SlotSafe, SlotsExclusive, SlotInv, SlotsKept, NoForeignRules, Done,
        Types, NetTypes
<1>1. slot[x] \in Slots
  BY DEF ReturnReset, SlotHeld, HasSlot
<1>2. CASE Done /\ Finished(x) /\ UNCHANGED <<acq, lostSlots, rules>>
  BY <1>1, <1>2 DEF ReturnReset, Finished
<1>3. CASE rules' = Reset(slot[x]) /\ ret' = [ret EXCEPT ![x] = "second"] /\ UNCHANGED <<acq, lostSlots, slot>>
  BY <1>1, <1>3 DEF ReturnReset, Reset
<1>4. CASE CleanedUp(slot[x]) /\ Finished(x)
  BY <1>1, <1>4 DEF ReturnReset, CleanedUp, Finished
<1> QED
  BY <1>2, <1>3, <1>4 DEF ReturnReset

LEMMA ReturnSendSafe ==
    ASSUME Types, SlotSafe, NEW x \in Sandboxes, ReturnSend(x)
    PROVE  SlotSafe'
<1> USE PoolAssumption DEF SlotSafe, SlotsExclusive, SlotInv, SlotsKept, NoForeignRules, Done,
        Types, NetTypes
<1>1. slot[x] \in Slots
  BY DEF ReturnSend, SlotHeld, HasSlot
<1>2. CASE Done /\ Finished(x) /\ UNCHANGED <<acq, lostSlots, rules, reusedQ>>
  BY <1>1, <1>2 DEF ReturnSend, Finished
<1>3. CASE reusedQ' = reusedQ \cup {slot[x]} /\ Finished(x) /\ UNCHANGED <<acq, lostSlots, rules>>
  BY <1>1, <1>3 DEF ReturnSend, Finished
<1>4. CASE ret' = [ret EXCEPT ![x] = "panic"] /\ UNCHANGED <<acq, lostSlots, rules, reusedQ, slot>>
  BY <1>1, <1>4 DEF ReturnSend
<1>5. CASE Overflow(x) /\ UNCHANGED reusedQ
  BY <1>1, <1>5 DEF ReturnSend, Overflow, CleanedUp, Finished
<1> QED
  BY <1>2, <1>3, <1>4, <1>5 DEF ReturnSend

LEMMA CleanupSafe ==
    ASSUME Types, SlotSafe, NEW x \in Sandboxes,
           AddNet(x) \/ AddNetLocked(x) \/ RunFunction(x) \/ AddProviderLocked(x)
    PROVE  SlotSafe'
BY DEF SlotSafe, SlotsExclusive, SlotInv, SlotsKept, NoForeignRules, Done, Types, NetTypes,
       AddNet, AddNetLocked, RunFunction, AddProviderLocked, netVars

LEMMA PoolSafe ==
    ASSUME Types, SlotSafe, Create \/ SendNew \/ PopulateStops \/ CloseStart \/ CloseNew \/ CloseReused
    PROVE  SlotSafe'
<1> USE PoolAssumption DEF SlotSafe, SlotsExclusive, SlotInv, SlotsKept, NoForeignRules, Done,
        Types, NetTypes
<1>1. CASE Create
  BY <1>1 DEF Create, Acquirable
<1>2. CASE SendNew
  BY <1>2 DEF SendNew
<1>3. CASE PopulateStops \/ CloseStart
  BY <1>3 DEF PopulateStops, CloseStart
<1>4. CASE CloseNew
  BY <1>4 DEF CloseNew, CleanedUp
<1>5. CASE CloseReused
  BY <1>5 DEF CloseReused, CleanedUp
<1> QED
  BY <1>1, <1>2, <1>3, <1>4, <1>5

LEMMA SlotSafeInvariant == Spec => []SlotSafe
<1>1. Init => SlotSafe
  BY PoolAssumption DEF Init, NetInit, SlotSafe, SlotsExclusive, SlotInv, SlotsKept,
     NoForeignRules, Done
<1>2. ASSUME Types, SlotSafe, [Next]_vars
      PROVE  SlotSafe'
  <2>1. CASE UNCHANGED netVars
    BY <1>2, <2>1 DEF SlotSafe, SlotsExclusive, SlotInv, SlotsKept, NoForeignRules, Done, netVars
  <2> QED
    BY <1>2, <2>1, NetSteps, GetSafe, ConfigureSafe, ReturnResetSafe, ReturnSendSafe, CleanupSafe,
       PoolSafe DEF NetStep
<1> QED
  BY <1>1, <1>2, TypesInvariant, PTL DEF Spec

\* No two sandboxes ever share a network slot, and no slot is handed out while a
\* channel, Populate or a return still has it, however Get, Return, Populate, Close
\* and the Cleanup of all sandboxes interleave.
THEOREM SlotsAreExclusive == Spec => []SlotsExclusive
BY SlotSafeInvariant, PTL DEF SlotSafe

\* Until the pool is closed every slot that works and that the storage has given out
\* is in a channel, with Populate, or with a sandbox that has the return of it still
\* to run; the one exception is a sandbox whose Add took the mutex after Run was
\* through (cleanup.go:37), and slots whose removal or release failed
\* (pool.go:224-239) are out of use.
THEOREM SlotsAreKept == Spec => []NoSlotLost
<1>1. ASSUME Types PROVE \A x \in Sandboxes : slot[x] # None => WillReturn(x) \/ Forgotten(x)
  <2>1. ASSUME NEW x \in Sandboxes, slot[x] # None PROVE WillReturn(x) \/ Forgotten(x)
    <3>1. HasSlot(x)
      BY <1>1 DEF Types, SlotHeld
    <3>2. fns[x] \notin NoNet => fns[x] # <<>>
      BY DEF NoNet
    <3> QED
      BY <2>1, <3>1, <3>2 DEF HasSlot, WillReturn, Forgotten, NoNet
  <2> QED
    BY <2>1
<1>2. Types /\ SlotSafe => NoSlotLost
  BY <1>1 DEF SlotSafe, SlotsKept, NoSlotLost
<1> QED
  BY <1>2, TypesInvariant, SlotSafeInvariant, PTL

\* A sandbox without rules of its own never runs with the firewall rules of the
\* sandbox that had the slot before, also when Return or the resets fail.
THEOREM RulesAreOwn == Spec => []NoForeignRules
BY SlotSafeInvariant, PTL DEF SlotSafe

-----------------------------------------------------------------------------
(* NBD devices.                                                            *)

DevSafe == DevicesExclusive /\ DeviceInv

LEMMA ProviderSafe ==
    ASSUME Types, DevSafe, NEW x \in Sandboxes, AddProvider(x) \/ AddProviderLocked(x)
    PROVE  DevSafe'
BY DEF DevSafe, DevicesExclusive, DeviceInv, Types, DevTypes, ResTypes, AddProvider,
       AddProviderLocked, devVars

LEMMA GetDeviceSafe ==
    ASSUME Types, DevSafe, NEW x \in Sandboxes, GetDevice(x), ov' = ov
    PROVE  DevSafe'
BY DeviceAssumption DEF DevSafe, DevicesExclusive, DeviceInv, Types, DevTypes, ResTypes, GetDevice

\* A device that is being connected is not connected to anybody: the branch for a
\* device that is still busy is never taken.
LEMMA ConnectFree ==
    ASSUME Types, DevSafe, NEW x \in Sandboxes, dev[x] = "connect"
    PROVE  held[x] \in Devs /\ conn[held[x]] = None
<1>1. held[x] \in Devs /\ held[x] # None
  BY DEF DevSafe, DeviceInv, Types, DevTypes
<1>2. conn[held[x]] \in Sandboxes \cup {None}
  BY <1>1 DEF Types, DevTypes
<1>3. ASSUME conn[held[x]] # None
      PROVE  held[conn[held[x]]] = held[x] /\ dev[conn[held[x]]] \in {"mounted", "release"}
  BY <1>1, <1>3 DEF DevSafe, DevicesExclusive, DeviceInv
<1>4. \A y \in Sandboxes : held[y] = held[x] => y = x
  BY <1>1 DEF DevSafe, DevicesExclusive
<1> QED
  BY <1>1, <1>2, <1>3, <1>4

LEMMA ConnectSafe ==
    ASSUME Types, DevSafe, NEW x \in Sandboxes, Connect(x), ov' = ov
    PROVE  DevSafe'
<1> USE DeviceAssumption DEF DevSafe, DevicesExclusive, DeviceInv, Types, DevTypes, ResTypes
<1>1. held[x] \in Devs /\ conn[held[x]] = None
  BY ConnectFree DEF Connect
<1>2. CASE conn' = [conn EXCEPT ![held[x]] = x] /\ UNCHANGED <<used, lostDevs, held>>
  BY <1>1, <1>2 DEF Connect
<1>3. CASE /\ held' = [held EXCEPT ![x] = None] /\ UNCHANGED conn
           /\ used' = used \ {held[x]} /\ UNCHANGED lostDevs
  BY <1>1, <1>3 DEF Connect
<1>4. CASE /\ held' = [held EXCEPT ![x] = None] /\ UNCHANGED conn
           /\ lostDevs' = lostDevs \cup {held[x]} /\ UNCHANGED used
  <2>0. PICK next \in {"open", "failed"} : dev' = [dev EXCEPT ![x] = next]
    BY <1>1, <1>4 DEF Connect
  <2>1. /\ devQ' = devQ /\ popDev' = popDev /\ held[x] \notin devQ /\ held[x] # popDev
        /\ held[x] \in used /\ dev[x] = "connect"
    BY <1>1 DEF Connect
  <2>2. \A y \in Sandboxes : /\ y # x => held'[y] = held[y] /\ dev'[y] = dev[y]
                             /\ held'[x] = None /\ dev'[x] = next
    BY <1>4, <2>0
  <2>3. \A y \in Sandboxes : held[y] = held[x] => y = x
    BY <1>1
  <2>4. \A d \in Devs : conn[d] # None => conn[d] # x
    BY <1>1, <2>1
  <2>5. DeviceInv'
    <3>1. \A d \in lostDevs' : d \notin devQ' /\ d # popDev'
      BY <1>4, <2>1
    <3>2. None \notin lostDevs'
      BY <1>1, <1>4
    <3>3. \A y \in Sandboxes : held'[y] \notin lostDevs'
      BY <1>4, <2>2, <2>3, <3>2
    <3>4. \A y \in Sandboxes : held'[y] # None <=> dev'[y] \in {"connect", "mounted", "release"}
      BY <2>2
    <3>5. \A y \in Sandboxes : ov'[y] # "ok" => dev'[y] = "none"
      BY <2>1, <2>2
    <3>6. \A d \in Devs : conn'[d] # None => dev'[conn'[d]] \in {"mounted", "release"}
      BY <1>4, <2>2, <2>4
    <3> QED
      BY <2>1, <3>1, <3>3, <3>4, <3>5, <3>6
  <2>6. used' = lostDevs' \cup devQ' \cup (({popDev'} \cup {held'[y] : y \in Sandboxes}) \ {None})
    <3>1. {held[y] : y \in Sandboxes} = {held[x]} \cup {held[y] : y \in Sandboxes \ {x}}
      OBVIOUS
    <3>2. {held'[y] : y \in Sandboxes} = {None} \cup {held[y] : y \in Sandboxes \ {x}}
      BY <2>2
    <3> QED
      BY <1>1, <1>4, <2>1, <3>1, <3>2
  <2>7. DevicesExclusive'
    BY <1>1, <1>4, <2>1, <2>2, <2>3, <2>4, <2>6
  <2> QED
    BY <2>5, <2>7
<1>5. \/ conn' = [conn EXCEPT ![held[x]] = x] /\ UNCHANGED <<used, lostDevs, held>>
      \/ /\ held' = [held EXCEPT ![x] = None] /\ UNCHANGED conn
         /\ \/ used' = used \ {held[x]} /\ UNCHANGED lostDevs
            \/ lostDevs' = lostDevs \cup {held[x]} /\ UNCHANGED used
  <2> HIDE DEF DevSafe, DevicesExclusive, DeviceInv, Types, DevTypes, ResTypes
  <2> QED
    BY DEF Connect
<1> HIDE DEF DevSafe, DevicesExclusive, DeviceInv, Types, DevTypes, ResTypes
<1> QED
  BY <1>2, <1>3, <1>4, <1>5

LEMMA ReleaseSafe ==
    ASSUME Types, DevSafe, NEW x \in Sandboxes, CloseMount(x) \/ ReleaseDevice(x), ov' = ov
    PROVE  DevSafe'
<1> USE DeviceAssumption DEF DevSafe, DevicesExclusive, DeviceInv, Types, DevTypes, ResTypes
<1>1. CASE CloseMount(x)
  <2>1. CASE dev[x] = "failed" /\ dev' = [dev EXCEPT ![x] = "closed"] /\ UNCHANGED conn
    <3>1. \A d \in Devs : conn[d] # None => conn[d] # x
      BY <2>1
    <3> QED
      BY <1>1, <2>1, <3>1 DEF CloseMount
  <2>2. CASE dev[x] = "mounted" /\ dev' = [dev EXCEPT ![x] = "release"]
    <3>1. \A y \in Sandboxes : dev'[y] = IF y = x THEN "release" ELSE dev[y]
      BY <2>2
    <3>2. \A d \in Devs : conn'[d] # None => conn'[d] = conn[d]
      BY <1>1 DEF CloseMount
    <3>3. UNCHANGED <<used, lostDevs, devQ, popDev, held>>
      BY <1>1 DEF CloseMount
    <3>4. DevicesExclusive'
      BY <3>2, <3>3
    <3>5. DeviceInv'
      BY <2>2, <3>1, <3>2, <3>3
    <3> QED
      BY <3>4, <3>5
  <2> QED
    BY <1>1, <2>1, <2>2 DEF CloseMount
<1>2. CASE ReleaseDevice(x)
  BY <1>2 DEF ReleaseDevice, MayRelease
<1> QED
  BY <1>1, <1>2

LEMMA DevicePoolSafe ==
    ASSUME Types, DevSafe, TakeDevice \/ SendDevice \/ \E d \in Devs : KernelDrops(d), ov' = ov
    PROVE  DevSafe'
<1> USE DeviceAssumption DEF DevSafe, DevicesExclusive, DeviceInv, Types, DevTypes, ResTypes
<1>1. CASE TakeDevice
  BY <1>1 DEF TakeDevice, Candidate
<1>2. CASE SendDevice
  BY <1>2 DEF SendDevice
<1>3. CASE \E d \in Devs : KernelDrops(d)
  BY <1>3 DEF KernelDrops
<1> QED
  BY <1>1, <1>2, <1>3

\* A device belongs to one sandbox: whatever fails and however the kernel takes its
\* time to drop a connection, a device whose bit is set is in the pool, in Populate's
\* hand, one mount's, or lost after a failed connect, and the kernel connects it to
\* no other.
THEOREM DevicesAreExclusive == Spec => []DevicesExclusive
<1>1. Init => DevSafe
  BY DeviceAssumption DEF Init, DevInit, DevSafe, DevicesExclusive, DeviceInv
<1>2. ASSUME Types, DevSafe, [Next]_vars
      PROVE  DevSafe'
  <2>1. CASE UNCHANGED <<devVars, ov>>
    BY <1>2, <2>1 DEF DevSafe, DevicesExclusive, DeviceInv, devVars
  <2> QED
    BY <1>2, <2>1, DevSteps, ProviderSafe, GetDeviceSafe, ConnectSafe, ReleaseSafe, DevicePoolSafe
       DEF DevStep
<1> QED
  BY <1>1, <1>2, TypesInvariant, PTL DEF Spec, DevSafe
=============================================================================
