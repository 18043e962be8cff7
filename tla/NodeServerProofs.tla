--------------------------- MODULE NodeServerProofs ---------------------------
(* Proofs about NodeServer, for every value of its constants.              *)
EXTENDS NodeServer, FiniteSetTheorems, TLAPS

\* TypeOK but for the upper bound of the semaphore, which is not a matter of
\* types; and every call is about a sandbox.
Types ==
    /\ map \in [Sids -> 0 .. MaxInstances]
    /\ inst \in [InstanceIds -> Instances]
    /\ nextI \in 1 .. MaxInstances + 1
    /\ free \in Nat
    /\ mu \in Handlers \cup {None}
    /\ pc \in [Handlers -> Labels]
    /\ call \in [Handlers -> Calls]
    /\ \A h \in Handlers : pc[h] # "idle" => call[h].sid \in Sids

\* The calls that hold a permit of the starting semaphore.
Holders == {h \in Handlers : call[h].permit}

Balanced == free + Cardinality(Holders) = MaxStarting

\* A handler holds a permit exactly while it is starting a sandbox.
Sectioned(h) ==
    \/ pc[h] \in {"build", "launch", "start", "abort", "life", "upload"}
    \/ pc[h] \in {"snap", "export"} /\ call[h].op = "checkpoint"

PermitInv ==
    /\ Types
    /\ Balanced
    /\ \A h \in Handlers : call[h].permit <=> Sectioned(h)

\* The cleanup and the exit error come after the process, and a handler that is
\* about to launch a process is the only one to launch that instance.
CleanInv ==
    /\ \A i \in InstanceIds : inst[i].clean \/ inst[i].exit => inst[i].vm = "gone"
    /\ \A h \in Handlers : pc[h] = "launch" =>
          /\ call[h].new \in 1 .. nextI - 1
          /\ inst[call[h].new].vm = "none"
    /\ \A g, h \in Handlers :
          pc[g] = "launch" /\ pc[h] = "launch" /\ call[g].new = call[h].new => g = h

-----------------------------------------------------------------------------
LEMMA StoppingType ==
    ASSUME NEW I \in [InstanceIds -> Instances], NEW S
    PROVE  Stopping(I, S) \in [InstanceIds -> Instances]
BY DEF Stopping, Instances

LEMMA NewInstanceType ==
    ASSUME NEW s \in Sids \cup {None}
    PROVE  NewInstance(s) \in Instances
BY DEF NewInstance, Instances

LEMMA NoCallType ==
    ASSUME NEW n \in 0 .. MaxCalls
    PROVE  NoCall(n) \in Calls
BY NodeAssumption DEF NoCall, Calls

\* Every way out of a handler leaves the types intact.
LEMMA ReturnType ==
    ASSUME Types, NEW h \in Handlers, NEW I \in [InstanceIds -> Instances],
           Return(h, I)
    PROVE  /\ inst' \in [InstanceIds -> Instances] /\ free' \in Nat
           /\ pc' \in [Handlers -> Labels] /\ call' \in [Handlers -> Calls]
<1>1. call[h].left \in 0 .. MaxCalls
  BY DEF Types, Calls
<1>2. NoCall(call[h].left) \in Calls
  BY <1>1, NoCallType
<1>3. inst' \in [InstanceIds -> Instances]
  BY StoppingType DEF Return
<1>4. free' \in Nat
  BY DEF Return, Released, Types
<1>5. QED
  BY <1>2, <1>3, <1>4 DEF Return, Types, Labels

LEMMA InstType ==
    ASSUME Types, NEW n
    PROVE  /\ [inst EXCEPT ![n].clean = TRUE] \in [InstanceIds -> Instances]
           /\ [inst EXCEPT ![n].life = TRUE] \in [InstanceIds -> Instances]
           /\ [inst EXCEPT ![n].started = TRUE] \in [InstanceIds -> Instances]
           /\ [inst EXCEPT ![n].vm = "runs"] \in [InstanceIds -> Instances]
           /\ [inst EXCEPT ![n].vm = "gone"] \in [InstanceIds -> Instances]
           /\ [inst EXCEPT ![n] = [@ EXCEPT !.stop = TRUE, !.exit = TRUE]]
                 \in [InstanceIds -> Instances]
<1>0. inst \in [InstanceIds -> Instances]
  BY DEF Types
<1>1. [inst EXCEPT ![n].clean = TRUE] \in [InstanceIds -> Instances]
  BY <1>0 DEF Instances
<1>2. [inst EXCEPT ![n].life = TRUE] \in [InstanceIds -> Instances]
  BY <1>0 DEF Instances
<1>3. [inst EXCEPT ![n].started = TRUE] \in [InstanceIds -> Instances]
  BY <1>0 DEF Instances
<1>4. [inst EXCEPT ![n].vm = "runs"] \in [InstanceIds -> Instances]
  BY <1>0 DEF Instances
<1>5. [inst EXCEPT ![n].vm = "gone"] \in [InstanceIds -> Instances]
  BY <1>0 DEF Instances
<1>6. [inst EXCEPT ![n] = [@ EXCEPT !.stop = TRUE, !.exit = TRUE]]
         \in [InstanceIds -> Instances]
  BY <1>0 DEF Instances
<1>7. QED BY <1>1, <1>2, <1>3, <1>4, <1>5, <1>6

LEMMA UnmapType ==
    ASSUME Types, NEW s
    PROVE  Unmap(s) \in [Sids -> 0 .. MaxInstances]
<1>1. 0 \in 0 .. MaxInstances
  BY NodeAssumption
<1>2. QED
  BY <1>1 DEF Types, Unmap

LEMMA UnmapLifecycleType ==
    ASSUME Types, NEW i
    PROVE  UnmapLifecycle(i) \in [Sids -> 0 .. MaxInstances]
<1>1. map \in [Sids -> 0 .. MaxInstances]
  BY DEF Types
<1>2. QED
  BY <1>1, UnmapType DEF UnmapLifecycle

LEMMA GotoType ==
    ASSUME Types, NEW h \in Handlers, NEW l \in Labels, Goto(h, l)
    PROVE  pc' \in [Handlers -> Labels]
BY DEF Types, Goto

LEMMA BeginType == ASSUME Types, NEW h \in Handlers, Begin(h) PROVE Types'
<1>1. PICK o \in Ops, s \in Sids :
          /\ Goto(h, FirstLabel(o))
          /\ call' = [call EXCEPT ![h] = [call[h] EXCEPT !.op = o, !.sid = s,
                                                 !.left = call[h].left - 1]]
  BY DEF Begin
<1>2. o \in OpKinds
  BY NodeAssumption
<1>3. FirstLabel(o) \in Labels
  BY <1>2 DEF FirstLabel, Labels, OpKinds
<1>. DEFINE c == [call[h] EXCEPT !.op = o, !.sid = s, !.left = call[h].left - 1]
<1>4. c \in Calls /\ c.sid = s
  <2>1. call[h] \in Calls /\ call[h].left > 0
    BY DEF Types, Begin
  <2>2. call[h].left - 1 \in 0 .. MaxCalls
    BY <2>1, NodeAssumption DEF Calls
  <2>3. QED BY <1>2, <2>1, <2>2 DEF Calls
<1>5. call' = [call EXCEPT ![h] = c]
  BY <1>1
<1>. HIDE DEF c
<1>6. call' \in [Handlers -> Calls] /\ pc' \in [Handlers -> Labels]
  BY <1>1, <1>3, <1>4, <1>5, GotoType DEF Types
<1>7. \A g \in Handlers : pc'[g] # "idle" => call'[g].sid \in Sids
  BY <1>1, <1>4, <1>5 DEF Types, Goto
<1>8. QED
  BY <1>6, <1>7 DEF Begin, Types

\* A step of a handler does not change what its call is about.
LEMMA HandlerKeepsSid ==
    ASSUME Types, NEW h \in Handlers, HandlerStep(h)
    PROVE  \A g \in Handlers : pc'[g] # "idle" =>
               pc[g] # "idle" /\ call'[g].sid = call[g].sid
<1>. SUFFICES ASSUME NEW g \in Handlers, pc'[g] # "idle"
              PROVE  pc[g] # "idle" /\ call'[g].sid = call[g].sid
  OBVIOUS
<1>0. /\ pc \in [Handlers -> Labels] /\ call \in [Handlers -> Calls]
      /\ call[h] \in Calls
  BY DEF Types
<1>1. CASE CheckCount(h)     BY <1>0, <1>1 DEF CheckCount, Return, Goto
<1>2. CASE Acquire(h)        BY <1>0, <1>2 DEF Acquire, Return, Goto, Calls
<1>3. CASE Build(h)          BY <1>0, <1>3 DEF Build, Return, Goto, Calls
<1>4. CASE Launch(h)         BY <1>0, <1>4 DEF Launch, Goto
<1>5. CASE Start(h)          BY <1>0, <1>5 DEF Start, Goto
<1>6. CASE Abort(h)          BY <1>0, <1>6 DEF Abort, Return
<1>7. CASE SetupLifecycle(h) BY <1>0, <1>7 DEF SetupLifecycle, Return, Goto
<1>8. CASE DeleteGet(h)      BY <1>0, <1>8 DEF DeleteGet, Return, Goto, Calls
<1>9. CASE DeleteRemove(h)   BY <1>0, <1>9 DEF DeleteRemove, Return
<1>10. CASE SnapshotGet(h)   BY <1>0, <1>10 DEF SnapshotGet, Return, Goto, Calls
<1>11. CASE SnapshotRemove(h) BY <1>0, <1>11 DEF SnapshotRemove, Goto
<1>12. CASE Snapshot(h)      BY <1>0, <1>12 DEF Snapshot, Return, Goto
<1>13. CASE Export(h)        BY <1>0, <1>13 DEF Export, Return, Goto
<1>14. CASE Upload(h)        BY <1>0, <1>14 DEF Upload, Return
<1>. QED BY <1>1, <1>2, <1>3, <1>4, <1>5, <1>6, <1>7, <1>8, <1>9, <1>10, <1>11,
            <1>12, <1>13, <1>14 DEF HandlerStep

\* The other variables: the map, the instance counter and the lock.
LEMMA MapType ==
    ASSUME Types, NEW h \in Handlers, HandlerStep(h)
    PROVE  map' \in [Sids -> 0 .. MaxInstances] /\ nextI' \in 1 .. MaxInstances + 1
           /\ mu' \in Handlers \cup {None}
<1>0. /\ map \in [Sids -> 0 .. MaxInstances] /\ nextI \in 1 .. MaxInstances + 1
      /\ mu \in Handlers \cup {None} /\ MaxInstances \in Nat
  BY NodeAssumption DEF Types
<1>1. CASE Build(h) BY <1>0, <1>1 DEF Build, InstanceIds
<1>2. CASE Abort(h) BY <1>0, <1>2, UnmapLifecycleType DEF Abort
<1>3. CASE DeleteRemove(h) BY <1>0, <1>3, UnmapType DEF DeleteRemove
<1>4. CASE SnapshotGet(h) BY <1>0, <1>4 DEF SnapshotGet
<1>5. CASE SnapshotRemove(h) BY <1>0, <1>5, UnmapType DEF SnapshotRemove
<1>6. CASE Upload(h) BY <1>0, <1>6, UnmapType DEF Upload
<1>7. CASE \/ CheckCount(h) \/ Acquire(h) \/ Launch(h) \/ Start(h)
           \/ SetupLifecycle(h) \/ DeleteGet(h) \/ Snapshot(h) \/ Export(h)
  BY <1>0, <1>7 DEF CheckCount, Acquire, Launch, Start, SetupLifecycle, DeleteGet,
                    Snapshot, Export
<1>. QED BY <1>1, <1>2, <1>3, <1>4, <1>5, <1>6, <1>7 DEF HandlerStep

LEMMA HandlerType ==
    ASSUME Types, NEW h \in Handlers, HandlerStep(h)
    PROVE  Types'
<1>. SUFFICES /\ inst' \in [InstanceIds -> Instances] /\ free' \in Nat
              /\ pc' \in [Handlers -> Labels] /\ call' \in [Handlers -> Calls]
  BY MapType, HandlerKeepsSid DEF Types
<1>0. /\ inst \in [InstanceIds -> Instances] /\ free \in Nat
      /\ call \in [Handlers -> Calls] /\ call[h] \in Calls
      /\ {"idle", "acquire", "build", "launch", "start", "abort", "life", "upload",
          "del_remove", "snap_remove", "snap", "export"} \subseteq Labels
  BY DEF Types, Labels
<1>1. CASE CheckCount(h)
  BY <1>0, <1>1, ReturnType, GotoType DEF CheckCount
<1>2. CASE Acquire(h)
  <2>1. [call[h] EXCEPT !.permit = TRUE] \in Calls
    BY <1>0 DEF Calls
  <2>2. CASE Return(h, inst) BY <1>0, <2>2, ReturnType
  <2>3. CASE ~Return(h, inst)
    <3>1. /\ free > 0 /\ free' = free - 1 /\ UNCHANGED inst
          /\ call' = [call EXCEPT ![h].permit = TRUE]
          /\ Goto(h, IF call[h].op = "checkpoint" THEN "snap" ELSE "build")
      BY <1>2, <2>3 DEF Acquire
    <3>2. pc' \in [Handlers -> Labels] BY <1>0, <3>1, GotoType
    <3>3. free' \in Nat BY <1>0, <3>1
    <3>4. call' \in [Handlers -> Calls] BY <1>0, <2>1, <3>1
    <3>5. QED BY <1>0, <3>1, <3>2, <3>3, <3>4
  <2>. QED BY <2>2, <2>3
<1>3. CASE Build(h)
  <2>1. CASE Return(h, inst) BY <1>0, <2>1, ReturnType
  <2>2. CASE ~Return(h, inst)
    <3>1. /\ nextI \in 0 .. MaxInstances
          /\ inst' = [inst EXCEPT ![nextI] = NewInstance(call[h].sid)]
          /\ call' = [call EXCEPT ![h].new = nextI]
          /\ Goto(h, "launch") /\ UNCHANGED free
      BY <1>3, <2>2, NodeAssumption DEF Build, InstanceIds
    <3>2. NewInstance(call[h].sid) \in Instances
      BY <1>0, NewInstanceType DEF Calls
    <3>3. [call[h] EXCEPT !.new = nextI] \in Calls
      BY <1>0, <3>1 DEF Calls
    <3>4. pc' \in [Handlers -> Labels] BY <1>0, <3>1, GotoType
    <3>5. QED BY <1>0, <3>1, <3>2, <3>3, <3>4
  <2>. QED BY <2>1, <2>2
<1>4. CASE Launch(h)
  <2>1. inst' \in [InstanceIds -> Instances]
    <3>1. [inst EXCEPT ![call[h].new].vm = "runs"] \in [InstanceIds -> Instances]
      BY InstType
    <3>2. Stopping(inst, {call[h].new}) \in [InstanceIds -> Instances]
      BY <1>0, StoppingType
    <3>3. QED BY <1>4, <3>1, <3>2 DEF Launch
  <2>2. pc' \in [Handlers -> Labels] BY <1>0, <1>4, GotoType DEF Launch
  <2>3. QED BY <1>0, <1>4, <2>1, <2>2 DEF Launch
<1>5. CASE Start(h)
  <2>1. inst' \in [InstanceIds -> Instances]
    <3>1. [inst EXCEPT ![call[h].new].started = TRUE] \in [InstanceIds -> Instances]
      BY InstType
    <3>2. Stopping(inst, {call[h].new}) \in [InstanceIds -> Instances]
      BY <1>0, StoppingType
    <3>3. QED BY <1>5, <3>1, <3>2 DEF Start
  <2>2. pc' \in [Handlers -> Labels] BY <1>0, <1>5, GotoType DEF Start
  <2>3. QED BY <1>0, <1>5, <2>1, <2>2 DEF Start
<1>6. CASE Abort(h)
  BY <1>0, <1>6, InstType, ReturnType DEF Abort
<1>7. CASE SetupLifecycle(h)
  <2>. DEFINE I == [inst EXCEPT ![call[h].new].life = TRUE]
  <2>1. I \in [InstanceIds -> Instances] BY InstType
  <2>2. CASE Return(h, I)
    <3>. HIDE DEF I
    <3>. QED BY <2>1, <2>2, ReturnType
  <2>3. CASE inst' = I /\ Goto(h, "upload") /\ UNCHANGED <<free, call>>
    <3>. HIDE DEF I
    <3>. QED BY <1>0, <2>1, <2>3, GotoType
  <2>. QED BY <1>7, <2>2, <2>3 DEF SetupLifecycle
<1>8. CASE DeleteGet(h) \/ SnapshotGet(h)
  <2>1. CASE Return(h, inst) BY <1>0, <2>1, ReturnType
  <2>2. CASE ~Return(h, inst)
    <3>1. call[h].sid \in Sids
      BY <1>8 DEF Types, DeleteGet, SnapshotGet
    <3>2. [call[h] EXCEPT !.old = map[call[h].sid]] \in Calls
      BY <1>0, <3>1 DEF Calls, Types
    <3>3. call' = [call EXCEPT ![h].old = map[call[h].sid]] /\ UNCHANGED <<inst, free>>
      BY <1>8, <2>2 DEF DeleteGet, SnapshotGet
    <3>4. pc' \in [Handlers -> Labels]
      BY <1>0, <1>8, <2>2, GotoType DEF DeleteGet, SnapshotGet
    <3>5. QED BY <1>0, <3>2, <3>3, <3>4
  <2>. QED BY <2>1, <2>2
<1>9. CASE DeleteRemove(h)
  BY <1>0, <1>9, StoppingType, ReturnType DEF DeleteRemove
<1>10. CASE SnapshotRemove(h)
  BY <1>0, <1>10, GotoType DEF SnapshotRemove
<1>11. CASE Snapshot(h)
  <2>. DEFINE I == Stopping(inst, {call[h].old})
  <2>1. I \in [InstanceIds -> Instances]
    BY <1>0, StoppingType
  <2>. HIDE DEF I
  <2>2. [I EXCEPT ![call[h].old].hook = TRUE] \in [InstanceIds -> Instances]
    BY <2>1 DEF Instances
  <2>. USE DEF I
  <2>3. QED BY <1>0, <1>11, <2>2, ReturnType, GotoType DEF Snapshot
<1>12. CASE Export(h)
  BY <1>0, <1>12, ReturnType, GotoType DEF Export
<1>13. CASE Upload(h)
  BY <1>0, <1>13, ReturnType, StoppingType DEF Upload
<1>. QED
  BY <1>1, <1>2, <1>3, <1>4, <1>5, <1>6, <1>7, <1>8, <1>9, <1>10, <1>11, <1>12,
     <1>13 DEF HandlerStep

LEMMA InstanceType ==
    ASSUME Types, NEW i \in InstanceIds, Exit(i) \/ UffdExit(i) \/ Background(i)
    PROVE  Types'
<1>0. inst \in [InstanceIds -> Instances]
  BY DEF Types
<1>1. inst' \in [InstanceIds -> Instances]
  <2>1. CASE Exit(i) BY <2>1, InstType DEF Exit
  <2>2. CASE UffdExit(i) BY <1>0, <2>2, StoppingType DEF UffdExit
  <2>3. CASE Watch(i)
    <3>1. inst' = [inst EXCEPT ![i] = [@ EXCEPT !.stop = TRUE, !.exit = TRUE]]
      BY <2>3 DEF Watch
    <3>2. QED BY <3>1, InstType
  <2>4. CASE Close(i) BY <2>4, InstType DEF Close
  <2>. QED BY <2>1, <2>2, <2>3, <2>4 DEF Background
<1>2. map' \in [Sids -> 0 .. MaxInstances]
  BY UnmapLifecycleType DEF Types, Exit, UffdExit, Background, Watch, Close
<1>3. UNCHANGED <<nextI, free, mu, pc, call>>
  BY DEF Exit, UffdExit, Background, Watch, Close
<1>4. QED
  BY <1>1, <1>2, <1>3 DEF Types

LEMMA InitTypes == Init => Types
<1>1. ASSUME Init PROVE Types
  <2>1. NewInstance(None) \in Instances /\ NoCall(MaxCalls) \in Calls
    BY NewInstanceType, NoCallType, NodeAssumption
  <2>2. QED BY <1>1, <2>1, NodeAssumption DEF Init, Types, Labels
<1>2. QED BY <1>1

LEMMA NextTypes == Types /\ [Next]_vars => Types'
<1>. SUFFICES ASSUME Types, [Next]_vars PROVE Types'
  OBVIOUS
<1>1. CASE UNCHANGED vars BY <1>1 DEF Types, vars
<1>2. CASE Next
  <2>1. CASE \E h \in Handlers : Begin(h) \/ HandlerStep(h)
    BY <2>1, BeginType, HandlerType
  <2>2. CASE \E i \in InstanceIds : Exit(i) \/ UffdExit(i) \/ Background(i)
    BY <2>2, InstanceType
  <2>3. CASE Quiescent BY <2>3 DEF Quiescent, Types, vars
  <2>. QED BY <1>2, <2>1, <2>2, <2>3 DEF Next
<1>. QED BY <1>1, <1>2

-----------------------------------------------------------------------------
(* The permits of the semaphore.                                           *)

\* What a step may do with permits: leave them alone, take one, or return.
PermitStep(h) ==
    \/ /\ free' = free
       /\ \A g \in Handlers : call'[g].permit = call[g].permit
    \/ /\ ~call[h].permit /\ free' = free - 1
       /\ \A g \in Handlers : call'[g].permit = (g = h \/ call[g].permit)
    \/ /\ free' = Released(call[h])
       /\ \A g \in Handlers : call'[g].permit = (g # h /\ call[g].permit)

LEMMA PermitStepConserves ==
    ASSUME Types, Balanced, NEW h \in Handlers, PermitStep(h)
    PROVE  Balanced'
<1>1. IsFiniteSet(Holders) /\ Cardinality(Holders) \in Nat
  BY FS_Subset, FS_CardinalityType, NodeAssumption DEF Holders
<1>2. free \in Nat /\ call[h].permit \in BOOLEAN
  BY DEF Types, Calls
<1>3. CASE free' = free /\ \A g \in Handlers : call'[g].permit = call[g].permit
  <2>1. Holders' = Holders BY <1>3 DEF Holders
  <2>2. QED BY <1>3, <2>1 DEF Balanced
<1>4. CASE /\ ~call[h].permit /\ free' = free - 1
           /\ \A g \in Handlers : call'[g].permit = (g = h \/ call[g].permit)
  <2>1. Holders' = Holders \cup {h} BY <1>4 DEF Holders
  <2>2. h \notin Holders BY <1>4 DEF Holders
  <2>3. Cardinality(Holders \cup {h}) = Cardinality(Holders) + 1
    BY <1>1, <2>2, FS_AddElement
  <2>4. QED BY <1>1, <1>2, <1>4, <2>1, <2>3 DEF Balanced
<1>5. CASE /\ free' = Released(call[h])
           /\ \A g \in Handlers : call'[g].permit = (g # h /\ call[g].permit)
  <2>1. Holders' = Holders \ {h} BY <1>5 DEF Holders
  <2>2. Cardinality(Holders \ {h}) =
          IF h \in Holders THEN Cardinality(Holders) - 1 ELSE Cardinality(Holders)
    BY <1>1, FS_RemoveElement
  <2>3. h \in Holders <=> call[h].permit BY DEF Holders
  <2>4. QED BY <1>1, <1>2, <1>5, <2>1, <2>2, <2>3 DEF Balanced, Released
<1>6. QED BY <1>3, <1>4, <1>5 DEF PermitStep

LEMMA ReturnPermits ==
    ASSUME Types, NEW h \in Handlers, NEW I, Return(h, I)
    PROVE  /\ PermitStep(h)
           /\ \A g \in Handlers : g # h => pc'[g] = pc[g] /\ call'[g] = call[g]
           /\ pc'[h] = "idle" /\ ~call'[h].permit
<1>1. /\ call' = [call EXCEPT ![h] = NoCall(call[h].left)]
      /\ pc' = [pc EXCEPT ![h] = "idle"] /\ free' = Released(call[h])
  BY DEF Return
<1>2. call'[h].permit = FALSE
  BY <1>1 DEF Types, NoCall
<1>3. \A g \in Handlers : g # h => pc'[g] = pc[g] /\ call'[g] = call[g]
  BY <1>1 DEF Types
<1>4. \A g \in Handlers : call[g].permit \in BOOLEAN
  BY DEF Types, Calls
<1>5. \A g \in Handlers : call'[g].permit = (g # h /\ call[g].permit)
  BY <1>2, <1>3, <1>4
<1>6. QED BY <1>1, <1>2, <1>3, <1>5 DEF PermitStep, Types

\* A step that changes neither permits nor the semaphore, and neither enters nor
\* leaves the section of starting sandboxes.
LEMMA KeepPermits ==
    ASSUME PermitInv, NEW h \in Handlers, NEW l \in Labels,
           Goto(h, l), free' = free,
           \A g \in Handlers : call'[g].permit = call[g].permit,
           \A g \in Handlers \ {h} : call'[g].op = call[g].op,
           Sectioned(h)' <=> Sectioned(h)
    PROVE  /\ PermitStep(h)
           /\ \A g \in Handlers : call'[g].permit <=> Sectioned(g)'
<1>1. PermitStep(h)
  BY DEF PermitStep
<1>2. \A g \in Handlers \ {h} : pc'[g] = pc[g]
  BY DEF Goto, PermitInv, Types
<1>3. ASSUME NEW g \in Handlers \ {h} PROVE Sectioned(g)' <=> Sectioned(g)
  BY <1>2 DEF Sectioned
<1>4. \A g \in Handlers : call[g].permit <=> Sectioned(g)
  BY DEF PermitInv
<1>5. QED BY <1>1, <1>3, <1>4

LEMMA NextPermits == PermitInv /\ [Next]_vars => PermitInv'
<1>. SUFFICES ASSUME PermitInv, [Next]_vars PROVE PermitInv'
  OBVIOUS
<1>0. Types /\ Types' /\ Balanced
  BY NextTypes DEF PermitInv
<1>. DEFINE Goal(h) == /\ PermitStep(h)
                       /\ \A g \in Handlers : call'[g].permit <=> Sectioned(g)'
<1>1. ASSUME NEW h \in Handlers, Goal(h) PROVE PermitInv'
  BY <1>0, <1>1, PermitStepConserves DEF PermitInv
<1>2. ASSUME UNCHANGED <<free, pc, call>> PROVE PermitInv'
  BY <1>0, <1>2 DEF PermitInv, Balanced, Holders, Sectioned
<1>3. ASSUME NEW h \in Handlers, NEW I, Return(h, I) PROVE Goal(h)
  <2>1. /\ PermitStep(h)
        /\ \A g \in Handlers : g # h => pc'[g] = pc[g] /\ call'[g] = call[g]
        /\ pc'[h] = "idle" /\ ~call'[h].permit
    BY <1>0, <1>3, ReturnPermits
  <2>2. ~Sectioned(h)'
    BY <2>1 DEF Sectioned
  <2>3. ASSUME NEW g \in Handlers, g # h PROVE call'[g].permit <=> Sectioned(g)'
    BY <2>1, <2>3 DEF Sectioned, PermitInv
  <2>. QED BY <2>1, <2>2, <2>3
<1>4. ASSUME NEW h \in Handlers, Begin(h) \/ HandlerStep(h) PROVE Goal(h)
  <2>. HIDE DEF Goal
  <2>0. /\ pc \in [Handlers -> Labels] /\ call \in [Handlers -> Calls]
        /\ call[h] \in Calls
    BY <1>0 DEF Types
  <2>. DEFINE Keep == /\ \A g \in Handlers : call'[g].permit = call[g].permit
                      /\ \A g \in Handlers \ {h} : call'[g].op = call[g].op
  <2>k. ASSUME NEW l \in Labels, Goto(h, l), UNCHANGED free, Keep,
               Sectioned(h)' <=> Sectioned(h)
        PROVE  Goal(h)
    BY <2>k, KeepPermits DEF Goal
  <2>p. ASSUME NEW l, Goto(h, l) PROVE pc'[h] = l
    BY <2>0, <2>p DEF Goto
  <2>1. CASE Begin(h)
    <3>1. PICK o \in Ops : Goto(h, FirstLabel(o))
      BY <2>1 DEF Begin
    <3>2. FirstLabel(o) \in Labels
      BY <3>1, NodeAssumption DEF FirstLabel, Labels, OpKinds
    <3>3. Keep BY <2>0, <2>1 DEF Begin, Calls
    <3>4. UNCHANGED free /\ ~Sectioned(h) BY <2>1 DEF Begin, Sectioned
    <3>5. FirstLabel(o) \in {"count", "del_get", "snap_get"}
      BY <3>1, NodeAssumption DEF FirstLabel, OpKinds
    <3>6. ~Sectioned(h)'
      BY <2>p, <3>1, <3>5 DEF Sectioned
    <3>7. QED BY <2>k, <3>1, <3>2, <3>3, <3>4, <3>6
  <2>2. CASE CheckCount(h)
    <3>1. CASE Return(h, inst) BY <1>3, <3>1
    <3>2. CASE Goto(h, "acquire") /\ UNCHANGED <<inst, free, call>>
      BY <2>2, <2>k, <2>p, <3>2 DEF CheckCount, Labels, Sectioned
    <3>. QED BY <2>2, <3>1, <3>2 DEF CheckCount
  <2>3. CASE Acquire(h)
    <3>1. CASE Return(h, inst) BY <1>3, <3>1
    <3>2. CASE ~Return(h, inst)
      <4>1. /\ free' = free - 1 /\ call' = [call EXCEPT ![h].permit = TRUE]
            /\ Goto(h, IF call[h].op = "checkpoint" THEN "snap" ELSE "build")
        BY <2>3, <3>2 DEF Acquire
      <4>2. ~call[h].permit BY <2>3 DEF Acquire, PermitInv, Sectioned
      <4>3. \A g \in Handlers : call'[g].permit = (g = h \/ call[g].permit)
        BY <2>0, <4>1 DEF Calls
      <4>4. \A g \in Handlers : pc'[g] = IF g # h THEN pc[g] ELSE
                                 IF call[h].op = "checkpoint" THEN "snap" ELSE "build"
        BY <2>0, <4>1 DEF Goto
      <4>5. \A g \in Handlers : call'[g].op = call[g].op
        BY <2>0, <4>1 DEF Calls
      <4>7. Sectioned(h)'
        BY <4>4, <4>5 DEF Sectioned
      <4>8. ASSUME NEW g \in Handlers, g # h PROVE call'[g].permit <=> Sectioned(g)'
        BY <4>3, <4>4, <4>5, <4>8 DEF Sectioned, PermitInv
      <4>9. QED BY <4>1, <4>2, <4>3, <4>7, <4>8 DEF Goal, PermitStep
    <3>. QED BY <3>1, <3>2
  <2>4. CASE Build(h)
    <3>1. CASE Return(h, inst) BY <1>3, <3>1
    <3>2. CASE ~Return(h, inst)
      <4>1. Keep BY <2>0, <2>4, <3>2 DEF Build, Calls
      <4>2. QED BY <2>4, <2>k, <2>p, <3>2, <4>1 DEF Build, Labels, Sectioned
    <3>. QED BY <3>1, <3>2
  <2>5. CASE Launch(h) BY <2>5, <2>k, <2>p DEF Launch, Labels, Sectioned
  <2>6. CASE Start(h) BY <2>6, <2>k, <2>p DEF Start, Labels, Sectioned
  <2>7. CASE Abort(h) BY <2>7, <1>3 DEF Abort
  <2>8. CASE SetupLifecycle(h)
    <3>1. CASE call[h].op = "checkpoint"
      BY <2>8, <2>k, <2>p, <3>1 DEF SetupLifecycle, Labels, Sectioned
    <3>2. CASE call[h].op # "checkpoint" BY <2>8, <1>3, <3>2 DEF SetupLifecycle
    <3>. QED BY <3>1, <3>2
  <2>9. CASE DeleteGet(h) \/ SnapshotGet(h)
    <3>1. CASE Return(h, inst) BY <1>3, <3>1
    <3>2. CASE ~Return(h, inst)
      <4>1. Keep BY <2>0, <2>9, <3>2 DEF DeleteGet, SnapshotGet, Calls
      <4>2. QED BY <2>9, <2>k, <2>p, <3>2, <4>1 DEF DeleteGet, SnapshotGet, Labels, Sectioned
    <3>. QED BY <3>1, <3>2
  <2>10. CASE DeleteRemove(h) BY <2>10, <1>3 DEF DeleteRemove
  <2>11. CASE SnapshotRemove(h)
    BY <2>11, <2>k, <2>p DEF SnapshotRemove, Labels, Sectioned
  <2>12. CASE Snapshot(h)
    <3>1. CASE Return(h, inst) BY <1>3, <3>1
    <3>2. CASE ~Return(h, inst)
      BY <2>12, <2>k, <2>p, <3>2 DEF Snapshot, Labels, Sectioned
    <3>. QED BY <3>1, <3>2
  <2>13. CASE Export(h)
    <3>1. CASE Return(h, inst) BY <1>3, <3>1
    <3>2. CASE ~Return(h, inst)
      BY <2>13, <2>k, <2>p, <3>2 DEF Export, Labels, Sectioned
    <3>. QED BY <3>1, <3>2
  <2>14. CASE Upload(h) BY <2>14, <1>3 DEF Upload
  <2>. QED BY <1>4, <2>1, <2>2, <2>3, <2>4, <2>5, <2>6, <2>7, <2>8, <2>9, <2>10, <2>11,
              <2>12, <2>13, <2>14 DEF HandlerStep
<1>5. CASE UNCHANGED vars BY <1>2, <1>5 DEF vars
<1>6. CASE Next
  <2>. HIDE DEF Goal
  <2>1. CASE \E h \in Handlers : Begin(h) \/ HandlerStep(h)
    BY <1>1, <1>4, <2>1
  <2>2. CASE \E i \in InstanceIds : Exit(i) \/ UffdExit(i) \/ Background(i)
    BY <1>2, <2>2 DEF Exit, UffdExit, Background, Watch, Close
  <2>3. CASE Quiescent BY <1>2, <2>3 DEF Quiescent, vars
  <2>. QED BY <1>6, <2>1, <2>2, <2>3 DEF Next
<1>. QED BY <1>5, <1>6

LEMMA InitPermits == Init => PermitInv
<1>1. ASSUME Init PROVE PermitInv
  <2>1. Holders = {} BY <1>1 DEF Init, Holders, NoCall
  <2>2. free + 0 = MaxStarting BY <1>1, NodeAssumption DEF Init
  <2>3. Balanced BY <2>1, <2>2, FS_EmptySet DEF Balanced
  <2>4. QED BY <1>1, <2>3, InitTypes DEF Init, PermitInv, NoCall, Sectioned
<1>2. QED BY <1>1

\* Whatever the calls, crashes and failures, a permit of the starting semaphore is
\* out exactly for each call of Create or Checkpoint (sandboxes.go) that is starting
\* a sandbox.
THEOREM PermitsAreConserved == Spec => []PermitsConserved
<1>1. ASSUME PermitInv PROVE PermitsConserved
  <2>1. Starting = Holders
    BY <1>1 DEF Starting, Holders, PermitInv, Sectioned
  <2>2. IsFiniteSet(Holders) /\ Cardinality(Holders) \in Nat
    BY FS_Subset, FS_CardinalityType, NodeAssumption DEF Holders
  <2>3. free \in Nat /\ MaxStarting \in Nat
    BY <1>1, NodeAssumption DEF PermitInv, Types
  <2>4. QED BY <1>1, <2>1, <2>2, <2>3 DEF PermitInv, Balanced, PermitsConserved
<1>2. QED BY <1>1, InitPermits, NextPermits, PTL DEF Spec

\* Type correctness of the node server; the semaphore stays within its size
\* because the permits are conserved.
THEOREM NodeTypeCorrect == Spec => []TypeOK
<1>1. PermitInv => TypeOK
  <2>. SUFFICES ASSUME PermitInv PROVE TypeOK
    OBVIOUS
  <2>1. IsFiniteSet(Holders)
    BY FS_Subset, NodeAssumption DEF Holders
  <2>2. Cardinality(Holders) \in Nat
    BY <2>1, FS_CardinalityType
  <2>3. free \in 0 .. MaxStarting
    BY <2>2, NodeAssumption DEF PermitInv, Balanced, Types
  <2>4. QED BY <2>3 DEF PermitInv, Types, TypeOK
<1>2. QED BY <1>1, InitPermits, NextPermits, PTL DEF Spec

-----------------------------------------------------------------------------
(* The cleanup of an instance.                                             *)

\* What a step may do to instance i without disturbing CleanInv: nothing that
\* matters, or a cleanup or exit error once the process is gone, or the end of a
\* running process.
Harmless(i) ==
    \/ /\ inst'[i].vm = inst[i].vm
       /\ (inst'[i].clean \/ inst'[i].exit) =>
             (inst[i].clean \/ inst[i].exit \/ inst[i].vm = "gone")
    \/ inst[i].vm = "runs" /\ inst'[i].vm = "gone"

\* A step is safe if all it does is harmless and it brings nobody to launch.
LEMMA HarmlessStep ==
    ASSUME Types, CleanInv, nextI' = nextI,
           \A i \in InstanceIds : Harmless(i),
           \A g \in Handlers : pc'[g] = "launch" =>
               pc[g] = "launch" /\ call'[g] = call[g]
    PROVE  CleanInv'
<1>1. \A i \in InstanceIds : inst'[i].clean \/ inst'[i].exit => inst'[i].vm = "gone"
  BY DEF CleanInv, Harmless
<1>2. ASSUME NEW g \in Handlers, pc'[g] = "launch"
      PROVE  call'[g].new \in 1 .. nextI' - 1 /\ inst'[call'[g].new].vm = "none"
  <2>1. /\ call'[g] = call[g] /\ call[g].new \in 1 .. nextI - 1
        /\ inst[call[g].new].vm = "none"
    BY <1>2 DEF CleanInv
  <2>2. call[g].new \in InstanceIds
    BY <2>1, NodeAssumption DEF Types, InstanceIds
  <2>3. QED BY <2>1, <2>2 DEF Harmless
<1>3. ASSUME NEW g \in Handlers, NEW h \in Handlers,
             pc'[g] = "launch", pc'[h] = "launch", call'[g].new = call'[h].new
      PROVE  g = h
  BY <1>3 DEF CleanInv
<1>4. QED BY <1>1, <1>2, <1>3 DEF CleanInv

\* A return is harmless if what the step itself does to the instances is.
LEMMA ReturnHarmless ==
    ASSUME Types, NEW h \in Handlers, NEW I \in [InstanceIds -> Instances],
           Return(h, I), NEW i \in InstanceIds,
           I[i].vm = inst[i].vm,
           (I[i].clean \/ I[i].exit) => (inst[i].clean \/ inst[i].exit \/ inst[i].vm = "gone")
    PROVE  Harmless(i)
<1>1. I[i] \in Instances
  OBVIOUS
<1>2. inst'[i] = I[i] \/ inst'[i] = [I[i] EXCEPT !.stop = TRUE]
  BY DEF Return, Stopping
<1>3. /\ inst'[i].vm = I[i].vm /\ inst'[i].clean = I[i].clean
      /\ inst'[i].exit = I[i].exit
  BY <1>1, <1>2 DEF Instances
<1>4. QED BY <1>3 DEF Harmless

LEMMA StoppingSame ==
    ASSUME NEW I \in [InstanceIds -> Instances], NEW S, NEW i \in InstanceIds
    PROVE  /\ Stopping(I, S)[i].vm = I[i].vm
           /\ Stopping(I, S)[i].clean = I[i].clean
           /\ Stopping(I, S)[i].exit = I[i].exit
BY DEF Stopping, Instances

\* Every step of a handler but Build and Launch.
LEMMA HandlerHarmless ==
    ASSUME Types, NEW h \in Handlers, HandlerStep(h), ~Build(h), ~Launch(h),
           NEW i \in InstanceIds
    PROVE  Harmless(i)
<1>0. inst \in [InstanceIds -> Instances] /\ inst[i] \in Instances
  BY DEF Types
<1>1. ASSUME UNCHANGED inst PROVE Harmless(i)
  BY <1>1 DEF Harmless
<1>2. ASSUME Return(h, inst) PROVE Harmless(i)
  BY <1>0, <1>2, ReturnHarmless
<1>3. ASSUME NEW S, inst' = Stopping(inst, S) PROVE Harmless(i)
  BY <1>0, <1>3, StoppingSame DEF Harmless
<1>4. CASE CheckCount(h) BY <1>1, <1>2, <1>4 DEF CheckCount
<1>5. CASE Acquire(h) BY <1>1, <1>2, <1>5 DEF Acquire
<1>6. CASE Start(h)
  <2>1. CASE inst' = [inst EXCEPT ![call[h].new].started = TRUE]
    BY <1>0, <2>1 DEF Harmless, Instances
  <2>2. QED BY <1>3, <1>6, <2>1 DEF Start
<1>7. CASE Abort(h)
  <2>. DEFINE I == [inst EXCEPT ![call[h].new].clean = TRUE]
  <2>1. I \in [InstanceIds -> Instances] BY InstType
  <2>2. /\ I[i].vm = inst[i].vm
        /\ (I[i].clean \/ I[i].exit) =>
               (inst[i].clean \/ inst[i].exit \/ inst[i].vm = "gone")
    BY <1>0, <1>7 DEF Abort, Instances
  <2>3. Return(h, I) BY <1>7 DEF Abort
  <2>. HIDE DEF I
  <2>4. QED BY <2>1, <2>2, <2>3, ReturnHarmless
<1>8. CASE SetupLifecycle(h)
  <2>. DEFINE I == [inst EXCEPT ![call[h].new].life = TRUE]
  <2>1. I \in [InstanceIds -> Instances] BY InstType
  <2>2. I[i].vm = inst[i].vm /\ I[i].clean = inst[i].clean /\ I[i].exit = inst[i].exit
    BY <1>0 DEF Instances
  <2>3. inst' = I \/ Return(h, I) BY <1>8 DEF SetupLifecycle
  <2>. HIDE DEF I
  <2>4. QED BY <2>1, <2>2, <2>3, ReturnHarmless DEF Harmless
<1>9. CASE DeleteGet(h) \/ SnapshotGet(h)
  BY <1>1, <1>2, <1>9 DEF DeleteGet, SnapshotGet
<1>10. CASE DeleteRemove(h) \/ Upload(h)
  <2>1. ASSUME NEW n, Return(h, Stopping(inst, {n})) PROVE Harmless(i)
    <3>. DEFINE I == Stopping(inst, {n})
    <3>1. I \in [InstanceIds -> Instances] BY <1>0, StoppingType
    <3>2. I[i].vm = inst[i].vm /\ I[i].clean = inst[i].clean /\ I[i].exit = inst[i].exit
      BY <1>0, StoppingSame
    <3>. HIDE DEF I
    <3>3. Return(h, I) BY <2>1 DEF I
    <3>4. QED BY <3>1, <3>2, <3>3, ReturnHarmless
  <2>2. QED BY <1>2, <1>10, <2>1 DEF DeleteRemove, Upload
<1>11. CASE SnapshotRemove(h) BY <1>1, <1>11 DEF SnapshotRemove
<1>12. CASE Snapshot(h)
  <2>. DEFINE I == Stopping(inst, {call[h].old})
  <2>1. I \in [InstanceIds -> Instances] BY <1>0, StoppingType
  <2>2. I[i].vm = inst[i].vm /\ I[i].clean = inst[i].clean /\ I[i].exit = inst[i].exit
    BY <1>0, StoppingSame
  <2>3. Return(h, inst) \/ inst' = [I EXCEPT ![call[h].old].hook = TRUE]
    BY <1>12 DEF Snapshot
  <2>. HIDE DEF I
  <2>4. CASE inst' = [I EXCEPT ![call[h].old].hook = TRUE]
    BY <2>1, <2>2, <2>4 DEF Harmless, Instances
  <2>5. QED BY <1>2, <2>3, <2>4
<1>13. CASE Export(h) BY <1>1, <1>2, <1>13 DEF Export
<1>. QED BY <1>4, <1>5, <1>6, <1>7, <1>8, <1>9, <1>10, <1>11, <1>12, <1>13 DEF HandlerStep

\* Only Build brings a handler to launch, and nobody's launch is disturbed.
LEMMA HandlerKeepsLaunch ==
    ASSUME Types, NEW h \in Handlers, HandlerStep(h), ~Build(h)
    PROVE  /\ nextI' = nextI
           /\ \A g \in Handlers : pc'[g] = "launch" =>
                 g # h /\ pc[g] = "launch" /\ call'[g] = call[g]
<1>0. pc \in [Handlers -> Labels] /\ call \in [Handlers -> Calls]
  BY DEF Types
<1>1. nextI' = nextI
  BY DEF HandlerStep, CheckCount, Acquire, Launch, Start, Abort, SetupLifecycle, DeleteGet,
         DeleteRemove, SnapshotGet, SnapshotRemove, Snapshot, Export, Upload
<1>2. \/ \E l : l # "launch" /\ Goto(h, l)
      \/ pc' = [pc EXCEPT ![h] = "idle"]
  BY DEF HandlerStep, CheckCount, Acquire, Launch, Start, Abort, SetupLifecycle, DeleteGet,
         DeleteRemove, SnapshotGet, SnapshotRemove, Snapshot, Export, Upload, Return
<1>3. \A g \in Handlers : g # h => call'[g] = call[g]
  BY <1>0 DEF HandlerStep, CheckCount, Acquire, Launch, Start, Abort, SetupLifecycle,
         DeleteGet, DeleteRemove, SnapshotGet, SnapshotRemove, Snapshot, Export, Upload, Return
<1>4. QED BY <1>0, <1>1, <1>2, <1>3 DEF Goto

LEMMA BuildClean ==
    ASSUME Types, CleanInv, NEW h \in Handlers, Build(h)
    PROVE  CleanInv'
<1>0. /\ pc \in [Handlers -> Labels] /\ call \in [Handlers -> Calls]
      /\ inst \in [InstanceIds -> Instances] /\ nextI \in 1 .. MaxInstances + 1
      /\ MaxInstances \in Nat /\ call[h] \in Calls
  BY NodeAssumption DEF Types
<1>1. CASE Return(h, inst) /\ UNCHANGED <<map, nextI>>
  <2>1. \A i \in InstanceIds : Harmless(i)
    BY <1>0, <1>1, ReturnHarmless
  <2>2. \A g \in Handlers : pc'[g] = "launch" => pc[g] = "launch" /\ call'[g] = call[g]
    BY <1>0, <1>1 DEF Return
  <2>3. QED BY <1>1, <2>1, <2>2, HarmlessStep
<1>2. CASE /\ nextI \in InstanceIds /\ nextI' = nextI + 1 /\ Goto(h, "launch")
           /\ inst' = [inst EXCEPT ![nextI] = NewInstance(call[h].sid)]
           /\ call' = [call EXCEPT ![h].new = nextI]
  <2>1. call'[h].new = nextI /\ \A g \in Handlers : g # h => call'[g] = call[g]
    BY <1>0, <1>2 DEF Calls
  <2>2. \A g \in Handlers : g # h => pc'[g] = pc[g]
    BY <1>0, <1>2 DEF Goto
  <2>3. /\ inst'[nextI].vm = "none" /\ ~inst'[nextI].clean /\ ~inst'[nextI].exit
        /\ \A i \in InstanceIds : i # nextI => inst'[i] = inst[i]
    BY <1>0, <1>2 DEF NewInstance
  <2>4. \A i \in InstanceIds : inst'[i].clean \/ inst'[i].exit => inst'[i].vm = "gone"
    BY <2>3 DEF CleanInv
  <2>5. ASSUME NEW g \in Handlers, g # h, pc'[g] = "launch"
        PROVE  /\ call'[g].new \in 1 .. nextI - 1 /\ pc[g] = "launch"
               /\ inst'[call'[g].new].vm = "none"
    <3>1. /\ call[g].new \in 1 .. nextI - 1 /\ pc[g] = "launch"
          /\ inst[call[g].new].vm = "none"
      BY <2>2, <2>5 DEF CleanInv
    <3>2. call[g].new \in InstanceIds /\ call[g].new # nextI
      BY <1>0, <3>1 DEF InstanceIds
    <3>3. QED BY <2>1, <2>3, <2>5, <3>1, <3>2
  <2>6. ASSUME NEW g \in Handlers, pc'[g] = "launch"
        PROVE  call'[g].new \in 1 .. nextI' - 1 /\ inst'[call'[g].new].vm = "none"
    <3>1. CASE g = h BY <1>0, <1>2, <2>1, <2>3, <3>1
    <3>2. CASE g # h BY <1>0, <1>2, <2>5, <2>6, <3>2
    <3>. QED BY <3>1, <3>2
  <2>7. ASSUME NEW f \in Handlers, NEW g \in Handlers,
               pc'[f] = "launch", pc'[g] = "launch", call'[f].new = call'[g].new
        PROVE  f = g
    <3>1. CASE f # h /\ g # h
      BY <2>1, <2>2, <2>7, <3>1 DEF CleanInv
    <3>2. CASE f = h \/ g = h
      BY <1>0, <2>1, <2>5, <2>7, <3>2
    <3>. QED BY <3>1, <3>2
  <2>8. QED BY <2>4, <2>6, <2>7 DEF CleanInv
<1>3. QED BY <1>1, <1>2 DEF Build

LEMMA LaunchClean ==
    ASSUME Types, CleanInv, NEW h \in Handlers, Launch(h)
    PROVE  CleanInv'
<1>. DEFINE n == call[h].new
<1>0. inst \in [InstanceIds -> Instances]
  BY DEF Types
<1>1. n \in 1 .. nextI - 1 /\ inst[n].vm = "none"
  BY DEF Launch, CleanInv
<1>2. n \in InstanceIds
  BY <1>1, NodeAssumption DEF Types, InstanceIds
<1>3. ~inst[n].clean /\ ~inst[n].exit
  BY <1>1, <1>2 DEF CleanInv
<1>4. /\ nextI' = nextI /\ call' = call
      /\ \A g \in Handlers : pc'[g] = "launch" => g # h /\ pc[g] = "launch"
  <2>1. Launch(h) => HandlerStep(h) /\ ~Build(h)
    BY DEF HandlerStep, Launch, Build
  <2>2. QED BY <2>1, HandlerKeepsLaunch DEF Launch
<1>5. CASE inst' = [inst EXCEPT ![n].vm = "runs"]
  <2>1. \A i \in InstanceIds : i # n => inst'[i] = inst[i]
    BY <1>0, <1>5
  <2>2. ~inst'[n].clean /\ ~inst'[n].exit
    BY <1>0, <1>2, <1>3, <1>5 DEF Instances
  <2>3. \A i \in InstanceIds : inst'[i].clean \/ inst'[i].exit => inst'[i].vm = "gone"
    BY <2>1, <2>2 DEF CleanInv
  <2>4. ASSUME NEW g \in Handlers, pc'[g] = "launch"
        PROVE  call'[g].new \in 1 .. nextI' - 1 /\ inst'[call'[g].new].vm = "none"
    <3>1. /\ call[g].new \in 1 .. nextI - 1 /\ inst[call[g].new].vm = "none"
          /\ call[g].new # n
      BY <1>4, <2>4 DEF CleanInv, Launch
    <3>2. call[g].new \in InstanceIds
      BY <3>1, NodeAssumption DEF Types, InstanceIds
    <3>3. QED BY <1>4, <2>1, <3>1, <3>2
  <2>5. QED BY <1>4, <2>3, <2>4 DEF CleanInv
<1>6. CASE inst' = Stopping(inst, {n})
  <2>1. \A i \in InstanceIds : Harmless(i)
    BY <1>0, <1>6, StoppingSame DEF Harmless
  <2>2. QED BY <1>4, <2>1, HarmlessStep
<1>7. QED BY <1>5, <1>6 DEF Launch

LEMMA NextClean == PermitInv /\ CleanInv /\ [Next]_vars => CleanInv'
<1>. SUFFICES ASSUME Types, CleanInv, [Next]_vars PROVE CleanInv'
  BY DEF PermitInv
<1>0. /\ pc \in [Handlers -> Labels] /\ call \in [Handlers -> Calls]
      /\ inst \in [InstanceIds -> Instances]
  BY DEF Types
<1>1. ASSUME NEW h \in Handlers, HandlerStep(h) PROVE CleanInv'
  <2>1. CASE Build(h) BY <2>1, BuildClean
  <2>2. CASE Launch(h) BY <2>2, LaunchClean
  <2>3. CASE ~Build(h) /\ ~Launch(h)
    BY <1>1, <2>3, HandlerHarmless, HandlerKeepsLaunch, HarmlessStep
  <2>. QED BY <2>1, <2>2, <2>3
<1>2. ASSUME NEW h \in Handlers, Begin(h) PROVE CleanInv'
  <2>1. PICK o \in Ops : Goto(h, FirstLabel(o))
    BY <1>2 DEF Begin
  <2>2. FirstLabel(o) # "launch"
    BY <2>1, NodeAssumption DEF FirstLabel, OpKinds
  <2>3. UNCHANGED <<inst, nextI>> /\ \A g \in Handlers : g # h => call'[g] = call[g]
    BY <1>0, <1>2 DEF Begin
  <2>4. \A g \in Handlers : pc'[g] = "launch" => pc[g] = "launch" /\ call'[g] = call[g]
    BY <1>0, <2>1, <2>2, <2>3 DEF Goto
  <2>5. \A i \in InstanceIds : Harmless(i)
    BY <2>3 DEF Harmless
  <2>6. QED BY <2>3, <2>4, <2>5, HarmlessStep
<1>3. ASSUME NEW i \in InstanceIds, Exit(i) \/ UffdExit(i) \/ Background(i)
      PROVE  CleanInv'
  <2>1. UNCHANGED <<nextI, pc, call>>
    BY <1>3 DEF Exit, UffdExit, Background, Watch, Close
  <2>2. ASSUME NEW j \in InstanceIds PROVE Harmless(j)
    <3>0. inst[j] \in Instances BY <1>0
    <3>1. CASE Exit(i) BY <1>0, <3>0, <3>1 DEF Exit, Harmless, Instances
    <3>2. CASE UffdExit(i) BY <1>0, <3>2, StoppingSame DEF UffdExit, Harmless
    <3>3. CASE Watch(i) BY <1>0, <3>0, <3>3 DEF Watch, Harmless, Instances
    <3>4. CASE Close(i)
      <4>1. inst[i].vm = "gone"
        BY <3>4 DEF Close, CleanInv
      <4>2. QED BY <1>0, <3>0, <3>4, <4>1 DEF Close, Harmless, Instances
    <3>. QED BY <1>3, <3>1, <3>2, <3>3, <3>4 DEF Background
  <2>3. QED BY <2>1, <2>2, HarmlessStep
<1>4. CASE UNCHANGED vars \/ Quiescent
  BY <1>4, HarmlessStep DEF Harmless, vars, Quiescent
<1>5. QED BY <1>1, <1>2, <1>3, <1>4 DEF Next

LEMMA InitClean == Init => CleanInv
BY DEF Init, CleanInv, NewInstance

\* An instance's resources are given back only when its process is gone, whoever
\* runs the cleanup first and however launches, exits and closes interleave
\* (Sandbox.Close, Cleanup.Run, doStop).
THEOREM CleanedInstancesAreDead == Spec => []CleanIsDead
<1>1. CleanInv => CleanIsDead
  BY DEF CleanInv, CleanIsDead, Made
<1>2. QED BY <1>1, InitPermits, NextPermits, InitClean, NextClean, PTL DEF Spec

-----------------------------------------------------------------------------
(* No running sandbox is lost, when the API keeps to one call per sandbox  *)
(* and no wait for the semaphore gives up.                                 *)

\* A VM that runs on; what a handler has in hand.
Runs(i) == inst[i].vm = "runs" /\ ~inst[i].stop
Held(h, i) == pc[h] # "idle" /\ i \in {call[h].old, call[h].new}

\* Where a handler has an instance that it made, and where it has none at all.
Making == {"launch", "start", "abort", "life", "upload"}
Empty  == {"idle", "count", "del_get", "snap_get"}

\* The call that a handler is at its label for; a checkpoint that has acquired a
\* permit will stop the old instance when it returns.
OpInv(h) ==
    /\ pc[h] = "count" => call[h].op \in {"create", "resume"}
    /\ pc[h] \in {"del_get", "del_remove"} => call[h].op = "delete"
    /\ pc[h] \in {"snap_get", "snap_remove", "snap", "export"} =>
          call[h].op \in {"pause", "checkpoint"}
    /\ pc[h] \in {"acquire", "build", "launch", "start", "abort", "life"} =>
          call[h].op \in {"create", "resume", "checkpoint"}
    /\ pc[h] = "upload" => call[h].op = "checkpoint"
    /\ call[h].op = "checkpoint" /\ pc[h] \in {"snap", "export", "build"} \cup Making =>
          call[h].permit

\* The instances a handler has.
HandInv(h) ==
    /\ pc[h] \in Empty => call[h].old = 0
    /\ pc[h] # "idle" /\ call[h].op \in {"create", "resume"} => call[h].old = 0
    /\ pc[h] \notin Making => call[h].new = 0

\* What is in the map under the sandbox ID of a handler's call is what it has.
MapInv(h) ==
    /\ pc[h] \in {"count", "acquire", "build", "snap", "export"} => map[call[h].sid] = 0
    /\ pc[h] \in {"del_remove", "snap_remove"} => map[call[h].sid] \in {0, call[h].old}
    /\ pc[h] \in Making =>
          /\ call[h].new \in Made /\ inst[call[h].new].sid = call[h].sid
          /\ map[call[h].sid] \in {0, call[h].new}
          /\ map[call[h].sid] = 0 => inst[call[h].new].vm = "gone"

CallInv(h) == OpInv(h) /\ HandInv(h) /\ MapInv(h)

OneCallEach ==
    \A g, h \in Handlers :
        pc[g] # "idle" /\ pc[h] # "idle" /\ call[g].sid = call[h].sid => g = h

LeakInv ==
    /\ OneCallEach
    /\ \A h \in Handlers : CallInv(h)
    /\ NoLeak

\* What a step may do to the instances and to the map under s that others rely on.
KeepsInstances ==
    /\ nextI' \in Nat /\ nextI' >= nextI
    /\ \A i \in Made : /\ inst'[i].sid = inst[i].sid
                       /\ inst[i].vm = "gone" => inst'[i].vm = "gone"

KeepsMap(s) ==
    \/ map'[s] = map[s]
    \/ map'[s] = 0 /\ map[s] \in Made /\ inst[map[s]].vm = "gone"

OnlyHandler(h) ==
    \A g \in Handlers \ {h} : pc'[g] = pc[g] /\ call'[g] = call[g]

LEMMA MadeGrows ==
    ASSUME Types, KeepsInstances, NEW i \in Made
    PROVE  i \in Made' /\ i \in InstanceIds
BY NodeAssumption DEF Types, KeepsInstances, Made, InstanceIds

\* The handlers that do not move keep their part of the invariant.
LEMMA CallKept ==
    ASSUME Types, KeepsInstances, NEW g \in Handlers, CallInv(g),
           pc'[g] = pc[g], call'[g] = call[g], pc[g] # "idle" => KeepsMap(call[g].sid)
    PROVE  CallInv(g)'
<1>1. OpInv(g)' /\ HandInv(g)'
  BY DEF CallInv, OpInv, HandInv
<1>2. MapInv(g)'
  <2>1. CASE pc[g] \in Making
    <3>1. /\ call[g].new \in Made /\ inst[call[g].new].sid = call[g].sid
          /\ map[call[g].sid] \in {0, call[g].new}
          /\ map[call[g].sid] = 0 => inst[call[g].new].vm = "gone"
      BY <2>1 DEF CallInv, MapInv
    <3>2. call[g].new \in Made' /\ inst'[call[g].new].sid = call[g].sid
          /\ (inst[call[g].new].vm = "gone" => inst'[call[g].new].vm = "gone")
      BY <3>1, MadeGrows DEF KeepsInstances
    <3>3. KeepsMap(call[g].sid)
      BY <2>1 DEF Making
    <3>4. /\ map'[call[g].sid] \in {0, call[g].new}
          /\ map'[call[g].sid] = 0 => inst'[call[g].new].vm = "gone"
      <4>1. CASE map'[call[g].sid] = map[call[g].sid]
        BY <3>1, <3>2, <4>1
      <4>2. CASE /\ map'[call[g].sid] = 0
                 /\ map[call[g].sid] \in Made /\ inst[map[call[g].sid]].vm = "gone"
        BY <3>1, <3>2, <4>2
      <4> QED
        BY <3>3, <4>1, <4>2 DEF KeepsMap
    <3> QED
      BY <2>1, <3>2, <3>4 DEF MapInv, Making
  <2>2. CASE pc[g] \notin Making
    BY <2>2 DEF CallInv, MapInv, KeepsMap
  <2> QED
    BY <2>1, <2>2
<1> QED
  BY <1>1, <1>2 DEF CallInv

\* Every VM that runs on after a step of h is accounted for.
Accounts(h) ==
    \A i \in Made' : Runs(i)' =>
        \/ Held(h, i)' \/ map'[inst'[i].sid] = i
        \/ i \in Made /\ Runs(i) /\ map[inst[i].sid] # i /\ ~Held(h, i)

LEMMA HandlerKeeps ==
    ASSUME Types, LeakInv, NEW h \in Handlers, KeepsInstances, OnlyHandler(h),
           pc[h] # "idle", pc'[h] # "idle" => call'[h].sid = call[h].sid,
           \A s \in Sids \ {call[h].sid} : KeepsMap(s),
           CallInv(h)', Accounts(h)
    PROVE  LeakInv'
<1>1. OneCallEach'
  BY DEF LeakInv, OneCallEach, OnlyHandler
<1>2. ASSUME NEW g \in Handlers \ {h} PROVE CallInv(g)'
  <2>1. pc'[g] = pc[g] /\ call'[g] = call[g] /\ CallInv(g)
    BY DEF OnlyHandler, LeakInv
  <2>2. pc[g] # "idle" => call[g].sid \in Sids \ {call[h].sid}
    BY DEF Types, LeakInv, OneCallEach
  <2> QED
    BY <2>1, <2>2, CallKept
<1>3. NoLeak'
  <2> SUFFICES ASSUME NEW i \in Made', Runs(i)'
               PROVE  map'[inst'[i].sid] = i \/ \E g \in Handlers : Held(g, i)'
    BY DEF NoLeak, Runs, Held
  <2>1. CASE Held(h, i)' \/ map'[inst'[i].sid] = i
    BY <2>1
  <2>2. CASE i \in Made /\ Runs(i) /\ map[inst[i].sid] # i /\ ~Held(h, i)
    <3>1. PICK g \in Handlers : Held(g, i)
      BY <2>2 DEF LeakInv, NoLeak, Runs, Held
    <3>2. Held(g, i)'
      BY <2>2, <3>1 DEF Held, OnlyHandler
    <3> QED
      BY <3>2
  <2> QED
    BY <2>1, <2>2 DEF Accounts
<1> QED
  BY <1>1, <1>2, <1>3 DEF LeakInv

-----------------------------------------------------------------------------
\* A step of h that neither makes an instance nor starts a VM.
Kept(i) ==
    /\ inst'[i].sid = inst[i].sid /\ inst'[i].vm = inst[i].vm
    /\ inst[i].stop => inst'[i].stop

LEMMA StoppingKeeps ==
    ASSUME NEW I \in [InstanceIds -> Instances], NEW S, NEW i \in InstanceIds
    PROVE  /\ Stopping(I, S)[i].vm = I[i].vm /\ Stopping(I, S)[i].sid = I[i].sid
           /\ I[i].stop => Stopping(I, S)[i].stop
           /\ i \in S => Stopping(I, S)[i].stop
BY DEF Stopping, Instances

LEMMA ReturnKeeps ==
    ASSUME Types, NEW h \in Handlers, NEW I \in [InstanceIds -> Instances],
           Return(h, I), NEW i \in InstanceIds,
           I[i].vm = inst[i].vm, I[i].sid = inst[i].sid, inst[i].stop => I[i].stop
    PROVE  /\ Kept(i)
           /\ I[i].stop => inst'[i].stop
           /\ StopsOld(call[h]) /\ i = call[h].old => inst'[i].stop
<1>1. CASE StopsOld(call[h])
  BY <1>1, StoppingKeeps DEF Return, Kept
<1>2. CASE ~StopsOld(call[h])
  BY <1>2 DEF Return, Kept
<1> QED
  BY <1>1, <1>2

\* After a return a handler has nothing.
LEMMA ReturnHand ==
    ASSUME Types, NEW h \in Handlers, NEW I, Return(h, I)
    PROVE  pc'[h] = "idle" /\ CallInv(h)' /\ OnlyHandler(h)
<1>1. pc'[h] = "idle" /\ call'[h] = NoCall(call[h].left) /\ OnlyHandler(h)
  BY DEF Return, Types, OnlyHandler
<1>2. call'[h].old = 0 /\ call'[h].new = 0 /\ call'[h].op = "none"
  BY <1>1 DEF NoCall
<1> QED
  BY <1>1, <1>2 DEF CallInv, OpInv, HandInv, MapInv, Making

\* What is left to show of such a step: it takes from the map only what h has, and
\* h lets go of a running VM only if it is in the map.
LEMMA KeptLeak ==
    ASSUME Types, LeakInv, NEW h \in Handlers, OnlyHandler(h), nextI' = nextI,
           \A i \in Made : Kept(i),
           pc[h] # "idle", pc'[h] # "idle" => call'[h].sid = call[h].sid,
           map' \in {map, Unmap(call[h].sid)},
           map' # map => map[call[h].sid] \in {0, call[h].old, call[h].new},
           CallInv(h)',
           \A i \in Made : Held(h, i) /\ Runs(i)' => Held(h, i)' \/ map'[inst[i].sid] = i
    PROVE  LeakInv'
<1>1. KeepsInstances
  BY NodeAssumption DEF KeepsInstances, Kept, Types
<1>2. \A s \in Sids \ {call[h].sid} : KeepsMap(s)
  BY DEF KeepsMap, Unmap, Types
<1>3. ASSUME NEW i \in Made, Runs(i)', ~Held(h, i)
      PROVE  map'[inst'[i].sid] = i \/ (Runs(i) /\ map[inst[i].sid] # i)
  <2>1. Runs(i) /\ inst'[i].sid = inst[i].sid
    BY <1>3 DEF Runs, Kept
  <2>2. CASE map[inst[i].sid] = i /\ map' # map
    <3>1. i # 0
      BY DEF Made, InstanceIds
    <3>2. inst[i].sid # call[h].sid
      BY <1>3, <2>2, <3>1 DEF Held
    <3>3. map' = Unmap(call[h].sid)
      BY <2>2
    <3> QED
      BY <2>1, <2>2, <3>2, <3>3 DEF Unmap, Types
  <2> QED
    BY <2>1, <2>2
<1>4. Accounts(h)
  <2>1. Made' = Made
    BY DEF Made
  <2>2. \A i \in Made : inst'[i].sid = inst[i].sid
    BY DEF Kept
  <2> QED
    BY <1>3, <2>1, <2>2 DEF Accounts
<1> QED
  BY <1>1, <1>2, <1>4, HandlerKeeps

\* A return: what h has in hand is being stopped, or does not run, or is in the map.
LEMMA ReturnLeak ==
    ASSUME Types, LeakInv, NEW h \in Handlers, NEW I \in [InstanceIds -> Instances],
           pc[h] # "idle", Return(h, I), nextI' = nextI,
           \A i \in InstanceIds : /\ I[i].vm = inst[i].vm /\ I[i].sid = inst[i].sid
                                  /\ inst[i].stop => I[i].stop,
           map' \in {map, Unmap(call[h].sid)},
           map' # map => map[call[h].sid] \in {0, call[h].old, call[h].new},
           call[h].old \in Made => StopsOld(call[h]) \/ I[call[h].old].stop,
           call[h].new \in Made =>
               \/ I[call[h].new].stop \/ inst[call[h].new].vm = "gone"
               \/ map'[inst[call[h].new].sid] = call[h].new
    PROVE  LeakInv'
<1>1. pc'[h] = "idle" /\ CallInv(h)' /\ OnlyHandler(h)
  BY ReturnHand
<1>2. ASSUME NEW i \in Made
      PROVE  /\ Kept(i)
             /\ I[i].stop => inst'[i].stop
             /\ StopsOld(call[h]) /\ i = call[h].old => inst'[i].stop
  <2>1. i \in InstanceIds
    BY DEF Made
  <2> QED
    BY <2>1, ReturnKeeps
<1>3. ASSUME NEW i \in Made, Held(h, i), Runs(i)'
      PROVE  map'[inst[i].sid] = i
  <2>1. i = call[h].old \/ i = call[h].new
    BY <1>3 DEF Held
  <2>2. ~inst'[i].stop /\ inst'[i].vm = "runs" /\ inst'[i].vm = inst[i].vm
    BY <1>2, <1>3 DEF Runs, Kept
  <2> QED
    BY <1>2, <2>1, <2>2
<1> QED
  BY <1>1, <1>2, <1>3, KeptLeak

\* A step inside a call: h keeps in hand what it has.
LEMMA GotoLeak ==
    ASSUME Types, LeakInv, NEW h \in Handlers, NEW l \in Labels \ {"idle"},
           pc[h] # "idle", Goto(h, l), nextI' = nextI,
           \A i \in InstanceIds : Kept(i),
           map' \in {map, Unmap(call[h].sid)},
           map' # map => map[call[h].sid] \in {0, call[h].old, call[h].new},
           \A g \in Handlers \ {h} : call'[g] = call[g],
           call'[h].sid = call[h].sid,
           {call[h].old, call[h].new} \subseteq {0, call'[h].old, call'[h].new},
           CallInv(h)'
    PROVE  LeakInv'
<1>1. pc'[h] = l /\ OnlyHandler(h)
  BY DEF Goto, Types, OnlyHandler
<1>2. \A i \in Made : i \in InstanceIds /\ i # 0
  BY DEF Made, InstanceIds
<1>3. \A i \in Made : Held(h, i) => Held(h, i)'
  BY <1>1, <1>2 DEF Held
<1> QED
  BY <1>1, <1>2, <1>3, KeptLeak

LEMMA SameKept == ASSUME inst' = inst, NEW i PROVE Kept(i)
BY DEF Kept

LEMMA CheckCountLeak ==
    ASSUME Types, LeakInv, NEW h \in Handlers, CheckCount(h)
    PROVE  LeakInv'
<1>1. pc[h] = "count" /\ map' = map /\ nextI' = nextI /\ CallInv(h)
  BY DEF CheckCount, LeakInv
<1>2. /\ call[h].old = 0 /\ call[h].new = 0 /\ call[h].op \in {"create", "resume"}
      /\ map[call[h].sid] = 0
  BY <1>1 DEF CallInv, OpInv, HandInv, MapInv, Empty, Making
<1>3. 0 \notin Made
  BY DEF Made, InstanceIds
<1>4. CASE Return(h, inst)
  BY <1>1, <1>2, <1>3, <1>4, ReturnLeak DEF Types
<1>5. CASE Goto(h, "acquire") /\ UNCHANGED <<inst, call>>
  <2>1. pc'[h] = "acquire"
    BY <1>5 DEF Goto, Types
  <2>2. CallInv(h)'
    BY <1>1, <1>2, <1>5, <2>1 DEF CallInv, OpInv, HandInv, MapInv, Making, Empty
  <2> QED
    BY <1>1, <1>5, <2>2, GotoLeak, SameKept DEF Labels
<1> QED
  BY <1>4, <1>5 DEF CheckCount

LEMMA AcquireLeak ==
    ASSUME Types, LeakInv, ~AcquireTimesOut, NEW h \in Handlers, Acquire(h)
    PROVE  LeakInv'
<1>1. pc[h] = "acquire" /\ map' = map /\ nextI' = nextI /\ CallInv(h)
  BY DEF Acquire, LeakInv
<1>2. /\ call[h].op \in {"create", "resume", "checkpoint"} /\ call[h].new = 0
      /\ call[h].op \in {"create", "resume"} => call[h].old = 0
      /\ map[call[h].sid] = 0
  BY <1>1 DEF CallInv, OpInv, HandInv, MapInv, Making
<1>3. 0 \notin Made
  BY DEF Made, InstanceIds
<1>4. CASE call[h].op = "create" /\ Return(h, inst)
  BY <1>1, <1>2, <1>3, <1>4, ReturnLeak DEF Types
<1>5. CASE /\ call' = [call EXCEPT ![h].permit = TRUE] /\ UNCHANGED inst
           /\ Goto(h, IF call[h].op = "checkpoint" THEN "snap" ELSE "build")
  <2> DEFINE l == IF call[h].op = "checkpoint" THEN "snap" ELSE "build"
  <2>1. /\ call'[h].op = call[h].op /\ call'[h].sid = call[h].sid
        /\ call'[h].old = call[h].old /\ call'[h].new = call[h].new /\ call'[h].permit
        /\ \A g \in Handlers \ {h} : call'[g] = call[g]
    BY <1>5 DEF Types, Calls
  <2>2. pc'[h] = l /\ l \in Labels \ {"idle"} /\ l \in {"snap", "build"} /\ Goto(h, l)
    BY <1>5 DEF Goto, Types, Labels
  <2>3. (l = "snap") = (call[h].op = "checkpoint")
    OBVIOUS
  <2> HIDE DEF l
  <2>4. CallInv(h)'
    BY <1>1, <1>2, <2>1, <2>2, <2>3 DEF CallInv, OpInv, HandInv, MapInv, Making, Empty
  <2> QED
    BY <1>1, <1>5, <2>1, <2>2, <2>4, GotoLeak, SameKept
<1> QED
  BY <1>4, <1>5 DEF Acquire

\* The new instance takes a place in the map that is empty.
LEMMA BuildLeak ==
    ASSUME Types, LeakInv, NEW h \in Handlers, Build(h)
    PROVE  LeakInv'
<1>1. pc[h] = "build" /\ CallInv(h)
  BY DEF Build, LeakInv
<1>2. /\ call[h].op \in {"create", "resume", "checkpoint"} /\ call[h].new = 0
      /\ call[h].op \in {"create", "resume"} => call[h].old = 0
      /\ call[h].op = "checkpoint" => call[h].permit
      /\ map[call[h].sid] = 0 /\ call[h].sid \in Sids
  BY <1>1 DEF CallInv, OpInv, HandInv, MapInv, Making, Types
<1>3. 0 \notin Made
  BY DEF Made, InstanceIds
<1>4. CASE Return(h, inst) /\ UNCHANGED <<map, nextI>>
  BY <1>1, <1>2, <1>3, <1>4, ReturnLeak DEF Types, StopsOld
<1>5. CASE /\ nextI \in InstanceIds /\ nextI' = nextI + 1 /\ Goto(h, "launch")
           /\ inst' = [inst EXCEPT ![nextI] = NewInstance(call[h].sid)]
           /\ map'  = [map EXCEPT ![call[h].sid] = nextI]
           /\ call' = [call EXCEPT ![h].new = nextI]
  <2>1. /\ call'[h].op = call[h].op /\ call'[h].sid = call[h].sid
        /\ call'[h].old = call[h].old /\ call'[h].new = nextI
        /\ call'[h].permit = call[h].permit
        /\ \A g \in Handlers \ {h} : call'[g] = call[g]
    BY <1>5 DEF Types, Calls
  <2>2. pc'[h] = "launch" /\ OnlyHandler(h)
    BY <1>5, <2>1 DEF Goto, Types, OnlyHandler
  <2>3. nextI \in Nat /\ nextI # 0 /\ nextI \notin Made /\ Made' = Made \cup {nextI}
    BY <1>5, NodeAssumption DEF Made, InstanceIds, Types
  <2>4. /\ \A i \in Made : inst'[i] = inst[i]
        /\ inst'[nextI] = NewInstance(call[h].sid)
    BY <1>5, <2>3 DEF Types, Made
  <2>5. inst'[nextI].sid = call[h].sid /\ inst'[nextI].vm = "none"
    BY <2>4 DEF NewInstance
  <2>6. KeepsInstances
    BY <1>5, <2>3, <2>4 DEF KeepsInstances
  <2>7. map'[call[h].sid] = nextI /\ \A s \in Sids \ {call[h].sid} : map'[s] = map[s]
    BY <1>2, <1>5 DEF Types
  <2>8. \A s \in Sids \ {call[h].sid} : KeepsMap(s)
    BY <2>7 DEF KeepsMap
  <2>9. CallInv(h)'
    <3>1. OpInv(h)' /\ HandInv(h)'
      BY <1>2, <2>1, <2>2 DEF OpInv, HandInv, Making, Empty
    <3>2. /\ call'[h].new \in Made' /\ inst'[call'[h].new].sid = call'[h].sid
          /\ map'[call'[h].sid] = call'[h].new /\ map'[call'[h].sid] # 0
      BY <2>1, <2>3, <2>5, <2>7
    <3>3. MapInv(h)'
      BY <2>2, <3>2 DEF MapInv
    <3> QED
      BY <3>1, <3>3 DEF CallInv
  <2>10. ASSUME NEW i \in Made, Runs(i)', ~Held(h, i)'
         PROVE  map'[inst'[i].sid] = i \/ (Runs(i) /\ map[inst[i].sid] # i /\ ~Held(h, i))
    <3>1. Runs(i) /\ inst'[i].sid = inst[i].sid
      BY <2>4, <2>10 DEF Runs
    <3>2. ~Held(h, i)
      BY <1>2, <1>3, <2>1, <2>2, <2>10 DEF Held
    <3>3. map[inst[i].sid] = i => inst[i].sid # call[h].sid
      BY <1>2, <1>3
    <3>4. map[inst[i].sid] = i => map'[inst[i].sid] = i
      BY <1>5, <3>3 DEF Types
    <3> QED
      BY <3>1, <3>2, <3>4
  <2>11. Accounts(h)
    <3> SUFFICES ASSUME NEW i \in Made', Runs(i)'
                 PROVE  \/ Held(h, i)' \/ map'[inst'[i].sid] = i
                        \/ i \in Made /\ Runs(i) /\ map[inst[i].sid] # i /\ ~Held(h, i)
      BY DEF Accounts
    <3>1. i # nextI
      BY <2>5 DEF Runs
    <3> QED
      BY <2>3, <2>10, <3>1
  <2> QED
    BY <1>1, <2>1, <2>2, <2>6, <2>8, <2>9, <2>11, HandlerKeeps
<1> QED
  BY <1>4, <1>5 DEF Build

\* What a handler has that has made an instance.
LEMMA MakerHas ==
    ASSUME Types, LeakInv, NEW h \in Handlers, pc[h] \in Making
    PROVE  /\ CallInv(h) /\ pc[h] # "idle" /\ call[h].new \in InstanceIds
           /\ call[h].new \in Made /\ inst[call[h].new].sid = call[h].sid
           /\ map[call[h].sid] \in {0, call[h].new}
           /\ map[call[h].sid] = 0 => inst[call[h].new].vm = "gone"
           /\ call[h].op \in {"create", "resume", "checkpoint"}
           /\ call[h].op \in {"create", "resume"} => call[h].old = 0
           /\ call[h].op = "checkpoint" => StopsOld(call[h])
<1>1. CallInv(h)
  BY DEF LeakInv
<1>2. pc[h] # "idle"
  BY DEF Making
<1>3. /\ call[h].new \in Made /\ inst[call[h].new].sid = call[h].sid
      /\ map[call[h].sid] \in {0, call[h].new}
      /\ map[call[h].sid] = 0 => inst[call[h].new].vm = "gone"
  BY <1>1 DEF CallInv, MapInv
<1>4. /\ call[h].op \in {"create", "resume", "checkpoint"}
      /\ call[h].op \in {"create", "resume"} => call[h].old = 0
      /\ call[h].op = "checkpoint" => StopsOld(call[h])
  BY <1>1, <1>2 DEF CallInv, OpInv, HandInv, Making, StopsOld
<1>5. call[h].new \in InstanceIds
  BY <1>3 DEF Made
<1> QED
  BY <1>1, <1>2, <1>3, <1>4, <1>5

\* From one label to the next while making an instance.
LEMMA MakerMoves ==
    ASSUME Types, LeakInv, NEW h \in Handlers, NEW l \in Making,
           pc[h] \in Making, Goto(h, l), map' = map, nextI' = nextI, call' = call,
           KeepsInstances, l = "upload" => call[h].op = "checkpoint",
           l # "upload" \/ pc[h] # "upload",
           \A i \in InstanceIds : Kept(i) \/ i = call[h].new
    PROVE  LeakInv'
<1> DEFINE n == call[h].new
<1>1. /\ CallInv(h) /\ pc[h] # "idle" /\ n \in Made /\ inst[n].sid = call[h].sid
      /\ map[call[h].sid] \in {0, n}
      /\ map[call[h].sid] = 0 => inst[n].vm = "gone"
      /\ call[h].op \in {"create", "resume", "checkpoint"}
      /\ call[h].op \in {"create", "resume"} => call[h].old = 0
  BY MakerHas
<1>2. pc'[h] = l /\ l # "idle" /\ OnlyHandler(h)
  BY DEF Goto, Types, OnlyHandler, Making
<1>3. n \in Made' /\ inst'[n].sid = call[h].sid /\ (inst[n].vm = "gone" => inst'[n].vm = "gone")
  BY <1>1, MadeGrows DEF KeepsInstances
<1>4. OpInv(h)'
  BY <1>1, <1>2 DEF CallInv, OpInv, Making
<1>5. HandInv(h)'
  BY <1>1, <1>2 DEF CallInv, HandInv, Making, Empty
<1>6. MapInv(h)'
  BY <1>1, <1>2, <1>3 DEF MapInv, Making
<1>7. \A s \in Sids \ {call[h].sid} : KeepsMap(s)
  BY DEF KeepsMap
<1>8. Accounts(h)
  <2> SUFFICES ASSUME NEW i \in Made', Runs(i)', ~Held(h, i)'
               PROVE  \/ map'[inst'[i].sid] = i
                      \/ i \in Made /\ Runs(i) /\ map[inst[i].sid] # i /\ ~Held(h, i)
    BY DEF Accounts
  <2>1. i \in Made /\ i \in InstanceIds /\ ~Held(h, i)
    <3>1. Made' = Made
      BY DEF Made
    <3> QED
      BY <1>1, <1>2, <3>1 DEF Made, Held
  <2>2. Kept(i)
    BY <1>1, <2>1 DEF Held
  <2>3. Runs(i) /\ inst'[i].sid = inst[i].sid
    BY <2>2 DEF Runs, Kept
  <2> QED
    BY <2>1, <2>3
<1> QED
  BY <1>1, <1>2, <1>4, <1>5, <1>6, <1>7, <1>8, HandlerKeeps DEF CallInv

LEMMA KeptInstances ==
    ASSUME Types, nextI' = nextI, \A i \in InstanceIds : Kept(i)
    PROVE  KeepsInstances
BY NodeAssumption DEF KeepsInstances, Kept, Types, Made

LEMMA LaunchLeak ==
    ASSUME Types, CleanInv, LeakInv, NEW h \in Handlers, Launch(h)
    PROVE  LeakInv'
<1> DEFINE n == call[h].new
<1>1. /\ pc[h] = "launch" /\ pc[h] \in Making /\ map' = map /\ nextI' = nextI /\ call' = call
      /\ inst[n].vm = "none" /\ inst \in [InstanceIds -> Instances]
  BY DEF Launch, CleanInv, Making, Types
<1>2. n \in InstanceIds /\ n \in Made
  BY <1>1, MakerHas
<1>3. CASE inst' = [inst EXCEPT ![n].vm = "runs"] /\ Goto(h, "start")
  <2>1. inst'[n].sid = inst[n].sid /\ \A i \in InstanceIds \ {n} : inst'[i] = inst[i]
    BY <1>1, <1>2, <1>3 DEF Instances
  <2>2. KeepsInstances
    BY <1>1, <2>1, NodeAssumption DEF KeepsInstances, Types, Made
  <2>3. \A i \in InstanceIds : Kept(i) \/ i = n
    BY <2>1 DEF Kept
  <2> QED
    BY <1>1, <1>3, <2>2, <2>3, MakerMoves DEF Making
<1>4. CASE inst' = Stopping(inst, {n}) /\ Goto(h, "abort")
  <2>1. \A i \in InstanceIds : Kept(i)
    BY <1>1, <1>4, StoppingKeeps DEF Kept
  <2> QED
    BY <1>1, <1>4, <2>1, KeptInstances, MakerMoves DEF Making
<1> QED
  BY <1>3, <1>4 DEF Launch

LEMMA StartLeak ==
    ASSUME Types, LeakInv, NEW h \in Handlers, Start(h)
    PROVE  LeakInv'
<1> DEFINE n == call[h].new
<1>1. /\ pc[h] = "start" /\ pc[h] \in Making /\ map' = map /\ nextI' = nextI /\ call' = call
      /\ inst \in [InstanceIds -> Instances]
  BY DEF Start, Making, Types
<1>2. CASE inst' = [inst EXCEPT ![n].started = TRUE] /\ Goto(h, "life")
  <2>1. \A i \in InstanceIds : Kept(i)
    BY <1>1, <1>2 DEF Kept, Instances
  <2> QED
    BY <1>1, <1>2, <2>1, KeptInstances, MakerMoves DEF Making
<1>3. CASE inst' = Stopping(inst, {n}) /\ Goto(h, "abort")
  <2>1. \A i \in InstanceIds : Kept(i)
    BY <1>1, <1>3, StoppingKeeps DEF Kept
  <2> QED
    BY <1>1, <1>3, <2>1, KeptInstances, MakerMoves DEF Making
<1> QED
  BY <1>2, <1>3 DEF Start

LEMMA AbortLeak ==
    ASSUME Types, LeakInv, NEW h \in Handlers, Abort(h)
    PROVE  LeakInv'
<1> DEFINE n == call[h].new
           I == [inst EXCEPT ![n].clean = TRUE]
<1>1. /\ pc[h] \in Making /\ nextI' = nextI /\ inst[n].vm = "gone" /\ Return(h, I)
      /\ map' = UnmapLifecycle(n) /\ inst \in [InstanceIds -> Instances]
  BY DEF Abort, Making, Types
<1>2. /\ pc[h] # "idle" /\ inst[n].sid = call[h].sid
      /\ call[h].op \in {"create", "resume", "checkpoint"}
      /\ call[h].op \in {"create", "resume"} => call[h].old = 0
      /\ call[h].op = "checkpoint" => StopsOld(call[h])
  BY <1>1, MakerHas
<1>3. map' \in {map, Unmap(call[h].sid)} /\ (map' # map => map[call[h].sid] = n)
  BY <1>1, <1>2 DEF UnmapLifecycle
<1>4. I \in [InstanceIds -> Instances]
  BY InstType
<1>5. \A i \in InstanceIds : /\ I[i].vm = inst[i].vm /\ I[i].sid = inst[i].sid
                             /\ inst[i].stop => I[i].stop
  BY <1>1 DEF Instances
<1>6. 0 \notin Made
  BY DEF Made, InstanceIds
<1> HIDE DEF I
<1> QED
  BY <1>1, <1>2, <1>3, <1>4, <1>5, <1>6, ReturnLeak

\* setupSandboxLifecycle: the sandbox that Create leaves behind is in the map.
LEMMA SetupLifecycleLeak ==
    ASSUME Types, LeakInv, NEW h \in Handlers, SetupLifecycle(h)
    PROVE  LeakInv'
<1> DEFINE n == call[h].new
           I == [inst EXCEPT ![n].life = TRUE]
<1>1. /\ pc[h] = "life" /\ pc[h] \in Making /\ map' = map /\ nextI' = nextI
      /\ inst \in [InstanceIds -> Instances]
  BY DEF SetupLifecycle, Making, Types
<1>2. /\ pc[h] # "idle" /\ n \in Made /\ inst[n].sid = call[h].sid
      /\ map[call[h].sid] \in {0, n}
      /\ map[call[h].sid] = 0 => inst[n].vm = "gone"
      /\ call[h].op \in {"create", "resume", "checkpoint"}
      /\ call[h].op \in {"create", "resume"} => call[h].old = 0
  BY <1>1, MakerHas
<1>3. I \in [InstanceIds -> Instances]
  BY InstType
<1>4. \A i \in InstanceIds : /\ I[i].vm = inst[i].vm /\ I[i].sid = inst[i].sid
                             /\ inst[i].stop => I[i].stop
  BY <1>1 DEF Instances
<1>5. 0 \notin Made
  BY DEF Made, InstanceIds
<1>6. \/ call[h].op = "checkpoint" /\ inst' = I /\ Goto(h, "upload") /\ call' = call
      \/ call[h].op # "checkpoint" /\ Return(h, I)
  BY DEF SetupLifecycle
<1> HIDE DEF I
<1>7. CASE call[h].op # "checkpoint" /\ Return(h, I)
  BY <1>1, <1>2, <1>3, <1>4, <1>5, <1>7, ReturnLeak
<1>8. CASE call[h].op = "checkpoint" /\ inst' = I /\ Goto(h, "upload") /\ call' = call
  <2>1. \A i \in InstanceIds : Kept(i)
    BY <1>4, <1>8 DEF Kept
  <2> QED
    BY <1>1, <1>8, <2>1, KeptInstances, MakerMoves DEF Making
<1> QED
  BY <1>6, <1>7, <1>8

\* The end of a checkpoint: the resumed sandbox is in the map, or is stopped.
LEMMA UploadLeak ==
    ASSUME Types, LeakInv, NEW h \in Handlers, Upload(h)
    PROVE  LeakInv'
<1> DEFINE n == call[h].new
           I == Stopping(inst, {n})
<1>1. /\ pc[h] = "upload" /\ pc[h] \in Making /\ nextI' = nextI
      /\ inst \in [InstanceIds -> Instances]
  BY DEF Upload, Making, Types
<1>2. /\ pc[h] # "idle" /\ n \in Made /\ n \in InstanceIds /\ inst[n].sid = call[h].sid
      /\ map[call[h].sid] \in {0, n}
      /\ map[call[h].sid] = 0 => inst[n].vm = "gone"
      /\ call[h].op = "checkpoint" => StopsOld(call[h])
  BY <1>1, MakerHas
<1>3. call[h].op = "checkpoint"
  BY <1>1 DEF LeakInv, CallInv, OpInv
<1>4. I \in [InstanceIds -> Instances]
  BY <1>1, StoppingType
<1>5. \A i \in InstanceIds : /\ I[i].vm = inst[i].vm /\ I[i].sid = inst[i].sid
                             /\ inst[i].stop => I[i].stop
  BY <1>1, StoppingKeeps
<1>6. I[n].stop
  BY <1>1, <1>2, StoppingKeeps
<1>7. \/ Return(h, inst) /\ map' = map
      \/ map' = Unmap(call[h].sid) /\ Return(h, I)
  BY DEF Upload
<1> HIDE DEF I
<1>8. CASE Return(h, inst) /\ map' = map
  BY <1>1, <1>2, <1>3, <1>8, ReturnLeak
<1>9. CASE map' = Unmap(call[h].sid) /\ Return(h, I)
  BY <1>1, <1>2, <1>3, <1>4, <1>5, <1>6, <1>9, ReturnLeak
<1> QED
  BY <1>7, <1>8, <1>9

\* Delete and the beginning of a snapshot: Get, then Remove.
LEMMA GetLeak ==
    ASSUME Types, LeakInv, NEW h \in Handlers, DeleteGet(h) \/ SnapshotGet(h)
    PROVE  LeakInv'
<1>1. /\ pc[h] \in {"del_get", "snap_get"} /\ map' = map /\ nextI' = nextI /\ CallInv(h)
      /\ DeleteGet(h) => pc[h] = "del_get"
      /\ SnapshotGet(h) => pc[h] = "snap_get"
  BY DEF DeleteGet, SnapshotGet, LeakInv
<1>2. pc[h] # "idle" /\ call[h].old = 0 /\ call[h].new = 0
  BY <1>1 DEF CallInv, HandInv, Making, Empty
<1>3. 0 \notin Made
  BY DEF Made, InstanceIds
<1>4. CASE Return(h, inst)
  BY <1>1, <1>2, <1>3, <1>4, ReturnLeak DEF Types
<1>5. ASSUME NEW l \in {"del_remove", "snap_remove"}, Goto(h, l), inst' = inst,
             call' = [call EXCEPT ![h].old = map[call[h].sid]],
             (l = "del_remove") = (pc[h] = "del_get")
      PROVE  LeakInv'
  <2>1. /\ call'[h].op = call[h].op /\ call'[h].sid = call[h].sid
        /\ call'[h].old = map[call[h].sid] /\ call'[h].new = 0
        /\ \A g \in Handlers \ {h} : call'[g] = call[g]
    BY <1>2, <1>5 DEF Types, Calls
  <2>2. pc'[h] = l /\ l \in Labels \ {"idle"}
    BY <1>5 DEF Goto, Types, Labels
  <2>3. OpInv(h)'
    BY <1>1, <1>5, <2>1, <2>2 DEF CallInv, OpInv, Making
  <2>4. HandInv(h)'
    <3>1. call[h].op \in {"delete", "pause", "checkpoint"}
      BY <1>1 DEF CallInv, OpInv
    <3> QED
      BY <2>1, <2>2, <3>1 DEF HandInv, Making, Empty
  <2>5. MapInv(h)'
    BY <1>1, <2>1, <2>2 DEF MapInv, Making
  <2>6. \A i \in InstanceIds : Kept(i)
    BY <1>5, SameKept
  <2> QED
    BY <1>1, <1>2, <1>5, <2>1, <2>2, <2>3, <2>4, <2>5, <2>6, GotoLeak DEF CallInv
<1>6. CASE DeleteGet(h) /\ ~Return(h, inst)
  BY <1>1, <1>5, <1>6 DEF DeleteGet
<1>7. CASE SnapshotGet(h) /\ ~Return(h, inst)
  BY <1>1, <1>5, <1>7 DEF SnapshotGet
<1> QED
  BY <1>4, <1>6, <1>7

LEMMA DeleteRemoveLeak ==
    ASSUME Types, LeakInv, NEW h \in Handlers, DeleteRemove(h)
    PROVE  LeakInv'
<1> DEFINE I == Stopping(inst, {call[h].old})
<1>1. /\ pc[h] = "del_remove" /\ nextI' = nextI /\ CallInv(h) /\ map' = Unmap(call[h].sid)
      /\ Return(h, I) /\ inst \in [InstanceIds -> Instances]
  BY DEF DeleteRemove, LeakInv, Types
<1>2. call[h].new = 0 /\ map[call[h].sid] \in {0, call[h].old}
  BY <1>1 DEF CallInv, HandInv, MapInv, Making
<1>3. 0 \notin Made /\ Made \subseteq InstanceIds
  BY DEF Made, InstanceIds
<1>4. I \in [InstanceIds -> Instances]
  BY <1>1, StoppingType
<1>5. \A i \in InstanceIds : /\ I[i].vm = inst[i].vm /\ I[i].sid = inst[i].sid
                             /\ inst[i].stop => I[i].stop
                             /\ i = call[h].old => I[i].stop
  BY <1>1, StoppingKeeps
<1> HIDE DEF I
<1> QED
  BY <1>1, <1>2, <1>3, <1>4, <1>5, ReturnLeak

LEMMA SnapshotRemoveLeak ==
    ASSUME Types, LeakInv, NEW h \in Handlers, SnapshotRemove(h)
    PROVE  LeakInv'
<1> DEFINE l == IF call[h].op = "pause" THEN "snap" ELSE "acquire"
<1>1. /\ pc[h] = "snap_remove" /\ nextI' = nextI /\ CallInv(h) /\ map' = Unmap(call[h].sid)
      /\ inst' = inst /\ call' = call /\ Goto(h, l)
  BY DEF SnapshotRemove, LeakInv
<1>2. /\ call[h].new = 0 /\ map[call[h].sid] \in {0, call[h].old}
      /\ call[h].op \in {"pause", "checkpoint"} /\ call[h].sid \in Sids
  BY <1>1 DEF CallInv, HandInv, MapInv, OpInv, Making, Types
<1>3. map'[call[h].sid] = 0
  BY <1>1, <1>2 DEF Unmap, Types
<1>4. /\ pc'[h] = l /\ l \in Labels \ {"idle"} /\ l \in {"snap", "acquire"}
      /\ (l = "snap") = (call[h].op = "pause")
  BY <1>1 DEF Goto, Types, Labels
<1> HIDE DEF l
<1>5. OpInv(h)'
  BY <1>1, <1>2, <1>4 DEF OpInv, Making
<1>6. HandInv(h)'
  BY <1>1, <1>2, <1>4 DEF HandInv, Making, Empty
<1>7. MapInv(h)'
  BY <1>1, <1>3, <1>4 DEF MapInv, Making
<1>8. \A i \in InstanceIds : Kept(i)
  BY <1>1, SameKept
<1> QED
  BY <1>1, <1>2, <1>4, <1>5, <1>6, <1>7, <1>8, GotoLeak DEF CallInv

\* A snapshot that fails stops the sandbox; one that goes on closes it.
LEMMA SnapshotLeak ==
    ASSUME Types, LeakInv, NEW h \in Handlers, Snapshot(h) \/ Export(h)
    PROVE  LeakInv'
<1> DEFINE o == call[h].old
           I == Stopping(inst, {o})
<1>1. /\ pc[h] \in {"snap", "export"} /\ nextI' = nextI /\ CallInv(h) /\ map' = map
      /\ inst \in [InstanceIds -> Instances]
  BY DEF Snapshot, Export, LeakInv, Types
<1>2. /\ call[h].new = 0 /\ map[call[h].sid] = 0
      /\ call[h].op \in {"pause", "checkpoint"} /\ StopsOld(call[h])
  BY <1>1 DEF CallInv, HandInv, MapInv, OpInv, Making, StopsOld
<1>3. 0 \notin Made
  BY DEF Made, InstanceIds
<1>4. CASE Return(h, inst)
  BY <1>1, <1>2, <1>3, <1>4, ReturnLeak
<1>5. ASSUME NEW l \in {"export", "build"}, Goto(h, l), call' = call,
             \A i \in InstanceIds : Kept(i), l = "build" => call[h].op = "checkpoint"
      PROVE  LeakInv'
  <2>1. pc'[h] = l /\ l \in Labels \ {"idle"}
    BY <1>5 DEF Goto, Types, Labels
  <2>2. OpInv(h)'
    BY <1>1, <1>2, <1>5, <2>1 DEF OpInv, Making, StopsOld
  <2>3. HandInv(h)'
    BY <1>2, <1>5, <2>1 DEF HandInv, Making, Empty
  <2>4. MapInv(h)'
    BY <1>1, <1>2, <1>5, <2>1 DEF MapInv, Making
  <2> QED
    BY <1>1, <1>5, <2>1, <2>2, <2>3, <2>4, GotoLeak DEF CallInv
<1>6. CASE Snapshot(h) /\ ~Return(h, inst)
  <2>1. Goto(h, "export") /\ call' = call /\ inst' = [I EXCEPT ![o].hook = TRUE]
    BY <1>6 DEF Snapshot
  <2>2. I \in [InstanceIds -> Instances]
    BY <1>1, StoppingType
  <2>3. \A i \in InstanceIds : /\ I[i].vm = inst[i].vm /\ I[i].sid = inst[i].sid
                               /\ inst[i].stop => I[i].stop
    BY <1>1, StoppingKeeps
  <2> HIDE DEF I
  <2>4. \A i \in InstanceIds : Kept(i)
    BY <2>1, <2>2, <2>3 DEF Kept, Instances
  <2> QED
    BY <1>5, <2>1, <2>4
<1>7. CASE Export(h) /\ ~Return(h, inst)
  <2>1. Goto(h, "build") /\ call' = call /\ inst' = inst /\ call[h].op = "checkpoint"
    BY <1>7 DEF Export
  <2> QED
    BY <1>5, <2>1, SameKept
<1> QED
  BY <1>4, <1>6, <1>7

\* The API sends a call: it is the only one for its sandbox.
LEMMA BeginLeak ==
    ASSUME Types, LeakInv, SerialAPI, NEW h \in Handlers, Begin(h)
    PROVE  LeakInv'
<1>1. PICK o \in Ops, s \in Sids :
          /\ APISends(o, s) /\ Goto(h, FirstLabel(o))
          /\ call' = [call EXCEPT ![h] = [call[h] EXCEPT !.op = o, !.sid = s,
                                                 !.left = call[h].left - 1]]
  BY DEF Begin
<1>2. /\ pc[h] = "idle" /\ UNCHANGED <<map, inst, nextI>> /\ CallInv(h)
      /\ call[h] \in Calls
  BY DEF Begin, LeakInv, Types
<1>3. /\ call'[h].op = o /\ call'[h].sid = s /\ call'[h].old = 0 /\ call'[h].new = 0
  <2>1. call[h].old = 0 /\ call[h].new = 0
    BY <1>2 DEF CallInv, HandInv, Empty, Making
  <2>2. call'[h] = [call[h] EXCEPT !.op = o, !.sid = s, !.left = call[h].left - 1]
    BY <1>1 DEF Types
  <2> QED
    BY <1>2, <2>1, <2>2 DEF Calls
<1>4. /\ pc'[h] = FirstLabel(o) /\ OnlyHandler(h)
  BY <1>1 DEF Goto, Types, OnlyHandler
<1>5. o \in OpKinds
  BY NodeAssumption
<1>6. /\ FirstLabel(o) \in {"count", "del_get", "snap_get"}
      /\ FirstLabel(o) = "count" => o \in {"create", "resume"}
      /\ FirstLabel(o) = "del_get" => o = "delete"
      /\ FirstLabel(o) = "snap_get" => o \in {"pause", "checkpoint"}
  BY <1>5 DEF FirstLabel, OpKinds
<1>7. OpInv(h)' /\ HandInv(h)'
  BY <1>3, <1>4, <1>6 DEF OpInv, HandInv, Making, Empty
<1>8. MapInv(h)'
  <2>1. FirstLabel(o) = "count" => map[s] = 0
    BY <1>1, <1>6 DEF APISends
  <2> QED
    BY <1>2, <1>3, <1>4, <1>6, <2>1 DEF MapInv, Making
<1>9. KeepsInstances
  BY <1>2, NodeAssumption DEF KeepsInstances, Types
<1>10. ASSUME NEW g \in Handlers \ {h} PROVE CallInv(g)'
  <2>1. KeepsMap(call[g].sid)
    BY <1>2 DEF KeepsMap
  <2> QED
    BY <1>4, <1>9, <2>1, CallKept DEF OnlyHandler, LeakInv
<1>11. OneCallEach'
  <2>1. \A g \in Handlers : pc[g] # "idle" => call[g].sid # s
    BY <1>1 DEF APISends
  <2> QED
    BY <1>3, <1>4, <2>1 DEF OneCallEach, OnlyHandler, LeakInv
<1>12. NoLeak'
  <2> SUFFICES ASSUME NEW i \in Made', Runs(i)'
               PROVE  map'[inst'[i].sid] = i \/ \E g \in Handlers : Held(g, i)'
    BY DEF NoLeak, Runs, Held
  <2>1. i \in Made /\ Runs(i)
    BY <1>2 DEF Made, Runs
  <2>2. map[inst[i].sid] = i \/ \E g \in Handlers : Held(g, i)
    BY <2>1 DEF LeakInv, NoLeak, Runs, Held
  <2>3. \A g \in Handlers : Held(g, i) => Held(g, i)'
    BY <1>2, <1>4 DEF Held, OnlyHandler
  <2> QED
    BY <1>2, <2>2, <2>3
<1> QED
  BY <1>7, <1>8, <1>10, <1>11, <1>12 DEF LeakInv, CallInv

\* What happens to an instance by itself only ends VMs.
LEMMA InstanceLeak ==
    ASSUME Types, CleanInv, LeakInv, NEW i \in InstanceIds,
           Exit(i) \/ UffdExit(i) \/ Background(i)
    PROVE  LeakInv'
<1>1. UNCHANGED <<nextI, pc, call>> /\ inst \in [InstanceIds -> Instances] /\ i \in Made
  BY DEF Exit, UffdExit, Background, Watch, Close, Types
<1>2. ASSUME NEW j \in InstanceIds
      PROVE  /\ inst'[j].sid = inst[j].sid
             /\ inst[j].vm = "gone" => inst'[j].vm = "gone"
             /\ Runs(j)' => Runs(j)
  <2>0. inst[j] \in Instances
    BY <1>1
  <2>1. CASE Exit(i)
    BY <1>1, <2>0, <2>1 DEF Exit, Runs, Instances
  <2>2. CASE UffdExit(i)
    BY <1>1, <2>2, StoppingKeeps DEF UffdExit, Runs
  <2>3. CASE Watch(i)
    BY <1>1, <2>0, <2>3 DEF Watch, Runs, Instances
  <2>4. CASE Close(i)
    BY <1>1, <2>0, <2>4 DEF Close, Runs, Instances
  <2> QED
    BY <2>1, <2>2, <2>3, <2>4 DEF Background
<1>3. Made' = Made /\ Made \subseteq InstanceIds
  BY <1>1 DEF Made
<1>4. KeepsInstances
  BY <1>1, <1>2, <1>3, NodeAssumption DEF KeepsInstances, Types
<1>5. \/ map' = map
      \/ inst[i].vm = "gone" /\ map[inst[i].sid] = i /\ map' = Unmap(inst[i].sid)
  <2>1. CASE Close(i)
    <3>1. inst[i].vm = "gone"
      BY <2>1 DEF Close, CleanInv
    <3> QED
      BY <2>1, <3>1 DEF Close, UnmapLifecycle
  <2>2. CASE ~Close(i)
    BY <2>2 DEF Exit, UffdExit, Background, Watch
  <2> QED
    BY <2>1, <2>2
<1>6. \A s \in Sids : KeepsMap(s)
  BY <1>1, <1>5 DEF KeepsMap, Unmap, Types
<1>7. ASSUME NEW g \in Handlers PROVE CallInv(g)'
  <2>1. pc[g] # "idle" => KeepsMap(call[g].sid)
    BY <1>6 DEF Types
  <2> QED
    BY <1>1, <1>4, <2>1, CallKept DEF LeakInv
<1>8. OneCallEach'
  BY <1>1 DEF OneCallEach, LeakInv
<1>9. NoLeak'
  <2> SUFFICES ASSUME NEW j \in Made', Runs(j)'
               PROVE  map'[inst'[j].sid] = j \/ \E g \in Handlers : Held(g, j)'
    BY DEF NoLeak, Runs, Held
  <2>1. j \in Made /\ Runs(j) /\ inst'[j].sid = inst[j].sid
    BY <1>2, <1>3
  <2>2. map[inst[j].sid] = j \/ \E g \in Handlers : Held(g, j)
    BY <2>1 DEF LeakInv, NoLeak, Runs, Held
  <2>3. \A g \in Handlers : Held(g, j) => Held(g, j)'
    BY <1>1 DEF Held
  <2>4. map[inst[j].sid] = j => map'[inst[j].sid] = j
    <3>1. CASE map' = map
      BY <3>1
    <3>2. CASE inst[i].vm = "gone" /\ map[inst[i].sid] = i /\ map' = Unmap(inst[i].sid)
      <4>1. j # i
        BY <2>1, <3>2 DEF Runs
      <4>2. map[inst[j].sid] = j => inst[j].sid # inst[i].sid
        BY <3>2, <4>1
      <4> QED
        BY <3>2, <4>2 DEF Unmap, Types
    <3> QED
      BY <1>5, <3>1, <3>2
  <2> QED
    BY <2>1, <2>2, <2>3, <2>4
<1> QED
  BY <1>7, <1>8, <1>9 DEF LeakInv

LEMMA NextLeak ==
    ASSUME Types, CleanInv, LeakInv, SerialAPI, ~AcquireTimesOut, [Next]_vars
    PROVE  LeakInv'
<1>1. ASSUME NEW h \in Handlers, HandlerStep(h) PROVE LeakInv'
  BY <1>1, CheckCountLeak, AcquireLeak, BuildLeak, LaunchLeak, StartLeak, AbortLeak,
     SetupLifecycleLeak, GetLeak, DeleteRemoveLeak, SnapshotRemoveLeak, SnapshotLeak,
     UploadLeak DEF HandlerStep
<1>2. CASE UNCHANGED vars \/ Quiescent
  <2>1. UNCHANGED <<map, inst, nextI, pc, call>>
    BY <1>2 DEF vars, Quiescent
  <2>2. OneCallEach' /\ NoLeak'
    BY <2>1 DEF LeakInv, OneCallEach, NoLeak, Made
  <2>3. KeepsInstances /\ \A s : KeepsMap(s)
    BY <2>1, NodeAssumption DEF KeepsInstances, KeepsMap, Types
  <2>4. \A h \in Handlers : CallInv(h)'
    BY <2>1, <2>3, CallKept DEF LeakInv
  <2> QED
    BY <2>2, <2>4 DEF LeakInv
<1> QED
  BY <1>1, <1>2, BeginLeak, InstanceLeak DEF Next

LEMMA InitLeak == Init => LeakInv
<1> SUFFICES ASSUME Init PROVE LeakInv
  OBVIOUS
<1>1. /\ \A h \in Handlers : pc[h] = "idle" /\ call[h] = NoCall(MaxCalls)
      /\ nextI = 1
  BY DEF Init
<1>2. \A h \in Handlers : call[h].old = 0 /\ call[h].new = 0 /\ call[h].op = "none"
  BY <1>1 DEF NoCall
<1>3. Made = {}
  BY <1>1 DEF Made, InstanceIds
<1> QED
  BY <1>1, <1>2, <1>3 DEF LeakInv, OneCallEach, NoLeak, CallInv, OpInv, HandInv, MapInv, Making

\* No interleaving of creations, checkpoints, pauses, deletions, crashes and failed
\* launches leaves a VM running that nobody can address, as long as the API sends
\* one call per sandbox at a time and no checkpoint gives up waiting for the
\* starting semaphore: that one case leaks (run node_leak).
THEOREM NothingLeaks ==
    ASSUME SerialAPI, ~AcquireTimesOut
    PROVE  Spec => []NoLeak
<1>1. PermitInv => Types
  BY DEF PermitInv
<1>2. Types /\ CleanInv /\ LeakInv /\ [Next]_vars => LeakInv'
  BY NextLeak
<1>3. LeakInv => NoLeak
  BY DEF LeakInv
<1> QED
  BY <1>1, <1>2, <1>3, InitPermits, NextPermits, InitClean, NextClean, InitLeak, PTL DEF Spec
===============================================================================
