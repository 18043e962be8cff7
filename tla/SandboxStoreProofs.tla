------------------------- MODULE SandboxStoreProofs -------------------------
(* Proofs about SandboxStore, for every value of its constants.            *)
EXTENDS SandboxStore, TLAPS

\* What a request returns with is again a well-typed idle process.
LEMMA ReturnType ==
    ASSUME TypeOK, NEW p \in Procs, NEW o \in {"none", "ok", "error"},
           Return(p, o)
    PROVE  pc' \in [Procs -> Labels] /\ loc' \in [Procs -> Locals]
<1>1. loc[p].budget \in Nat
  BY DEF TypeOK, Locals
<1>2. [IdleLocals(loc[p].budget) EXCEPT !.out = o] \in Locals
  BY <1>1 DEF IdleLocals, Locals, NoRec, Sandboxes, Actions
<1>3. QED
  BY <1>2 DEF Return, TypeOK, Labels

LEMMA RemovedType ==
    ASSUME TypeOK, NEW p \in Procs, NEW o \in {"none", "ok", "error"},
           Removed(p, o)
    PROVE  pc' \in [Procs -> Labels] /\ loc' \in [Procs -> Locals]
<1>1. CASE loc[p].req = "kill"
  BY <1>1 DEF Removed, Goto, TypeOK, Labels
<1>2. CASE loc[p].req # "kill"
  BY <1>2, ReturnType DEF Removed
<1>3. QED BY <1>1, <1>2

LEMMA StartTransitionType ==
    ASSUME TypeOK, NEW p \in Procs, StartTransition(p)
    PROVE  TypeOK'
<1>. DEFINE s == loc[p].sbx
            u == [s EXCEPT !.st  = TargetState(loc[p].act),
                           !.end = IF Transient(loc[p].act) \/ Expired(s, now)
                                   THEN @ ELSE now]
<1>1. s \in Sandboxes /\ loc[p].act \in Actions /\ loc[p] \in Locals
  BY DEF TypeOK, Locals
<1>2. TargetState(loc[p].act) \in States
  BY <1>1 DEF TargetState, Actions, States
<1>3. u \in Sandboxes
  BY <1>1, <1>2 DEF Sandboxes, TypeOK
<1>4. rec' = u /\ loc' = [loc EXCEPT ![p] = [@ EXCEPT !.sbx = u, !.tid = nextTid]]
  BY DEF StartTransition
<1>5. loc' \in [Procs -> Locals]
  <2>. HIDE DEF u
  <2>1. [loc[p] EXCEPT !.sbx = u, !.tid = nextTid] \in Locals
    BY <1>1, <1>3 DEF TypeOK, Locals
  <2>. QED BY <1>4, <2>1 DEF TypeOK
<1>6. QED
  <2>. HIDE DEF u
  <2>. QED BY <1>3, <1>4, <1>5 DEF StartTransition, TypeOK, Goto, Labels, Owning, nodeVars
LEMMA StartRemovingReadType ==
    ASSUME TypeOK, NEW p \in Procs, StartRemovingRead(p)
    PROVE  TypeOK'
BY RemovedType, SMTT(60) DEF StartRemovingRead, TypeOK, Goto, Locals, nodeVars, Labels, Locked, Owning, Waiting, Creating

LEMMA StartRemovingCheckType ==
    ASSUME TypeOK, NEW p \in Procs, StartRemovingCheck(p)
    PROVE  TypeOK'
BY ReturnType, RemovedType, SMTT(60) DEF StartRemovingCheck, TypeOK, Goto, Locals, nodeVars, Labels, Locked, Owning, Waiting, Creating

LEMMA WaitTransitionType ==
    ASSUME TypeOK, NEW p \in Procs, WaitTransition(p)
    PROVE  TypeOK'
<1>1. pc' \in [Procs -> Labels] /\ loc' \in [Procs -> Locals]
  <2>1. CASE \E o \in {"none", "ok", "error"} : Return(p, o) \/ Removed(p, o)
    BY <2>1, ReturnType, RemovedType
  <2>2. CASE (Goto(p, "sr_lock") \/ Goto(p, "res_snap")) /\ loc' = loc
    BY <2>2 DEF Goto, TypeOK, Labels
  <2>3. QED BY <2>1, <2>2 DEF WaitTransition, Waiting
<1>2. QED
  BY <1>1 DEF WaitTransition, TypeOK, redisVars, nodeVars

LEMMA FailedReturnType ==
    ASSUME TypeOK, NEW p \in Procs, FailedReturn(p)
    PROVE  TypeOK'
<1>1. pc' \in [Procs -> Labels] /\ loc' \in [Procs -> Locals]
  BY ReturnType, RemovedType DEF FailedReturn
<1>2. lock' \in Procs \cup {None}
  BY DEF FailedReturn, TypeOK
<1>3. QED
  BY <1>1, <1>2 DEF FailedReturn, TypeOK, nodeVars

\* What nobody will learn is an execution's outcome.
LEMMA LoseOutcomeType ==
    ASSUME TypeOK, NEW p \in Procs, LoseOutcome(p) \/ UNCHANGED lost
    PROVE  lost' \subseteq Nat /\ lost \subseteq lost'
<1>1. loc[p].sbx.ex \in Nat
  BY DEF TypeOK, Locals, Sandboxes
<1>2. QED BY <1>1 DEF TypeOK, LoseOutcome

LEMMA KillOnNodeType ==
    ASSUME TypeOK, NEW p \in Procs, KillOnNode(p)
    PROVE  TypeOK'
BY SMTT(60) DEF KillOnNode, TypeOK, Goto, Locals, redisVars, StopOnNode, MayStopOnNode, Labels, Locked, Owning, Waiting, Creating

LEMMA PauseOnNodeType ==
    ASSUME TypeOK, NEW p \in Procs, PauseOnNode(p)
    PROVE  TypeOK'
<1>0. snaps' \subseteq Nat /\ hasSnap' \in BOOLEAN
  <2>1. loc[p].sbx.ex \in Nat
    BY DEF TypeOK, Locals, Sandboxes
  <2>2. QED BY <2>1 DEF PauseOnNode, TypeOK
<1>1. loc' \in [Procs -> Locals]
  BY DEF PauseOnNode, TypeOK, Locals
<1>2. live' \subseteq Nat /\ addr' \in Nat
  BY DEF PauseOnNode, TypeOK, StopOnNode, MayStopOnNode
<1>3. QED
  BY <1>0, <1>1, <1>2 DEF PauseOnNode, TypeOK, Goto, redisVars, Labels, Owning


LEMMA CheckpointOnNodeType ==
    ASSUME TypeOK, NEW p \in Procs, CheckpointOnNode(p)
    PROVE  TypeOK'
<1>0. snaps' \subseteq Nat /\ hasSnap' \in BOOLEAN /\ lost' \subseteq Nat
  <2>1. UNCHANGED <<snaps, lost>>
    BY DEF CheckpointOnNode, nodeVars
  <2>2. QED BY <2>1 DEF CheckpointOnNode, TypeOK, nodeVars
<1>1. loc' \in [Procs -> Locals]
  <2>1. loc' = loc \/ loc' = [loc EXCEPT ![p].err = "failed"]
    BY DEF CheckpointOnNode
  <2>2. QED BY <2>1 DEF TypeOK, Locals
<1>2. live' \subseteq Nat /\ addr' \in Nat
  BY DEF CheckpointOnNode, TypeOK, StopOnNode, MayStopOnNode, nodeVars
<1>3. pc' \in [Procs -> Labels]
  BY DEF CheckpointOnNode, TypeOK, Goto, Labels, Owning
<1>4. QED
  BY <1>0, <1>1, <1>2, <1>3 DEF CheckpointOnNode, TypeOK, redisVars


LEMMA RemoveRecordType ==
    ASSUME TypeOK, NEW p \in Procs, RemoveRecord(p)
    PROVE  TypeOK'
BY DEF RemoveRecord, TypeOK, Goto, Locals, nodeVars, NoRec, Sandboxes, Labels, Locked, Owning, Waiting, Creating

LEMMA RemoveIndexType ==
    ASSUME TypeOK, NEW p \in Procs, RemoveIndex(p)
    PROVE  TypeOK'
BY DEF RemoveIndex, TypeOK, Goto, Locals, nodeVars, Labels, Locked, Owning, Waiting, Creating

LEMMA ReleaseReservationType ==
    ASSUME TypeOK, NEW p \in Procs, ReleaseReservation(p)
    PROVE  TypeOK'
BY DEF ReleaseReservation, TypeOK, Goto, Locals, nodeVars, Labels, Locked, Owning, Waiting, Creating

LEMMA CancelledRemovalType ==
    ASSUME TypeOK, NEW p \in Procs, CancelledRemoval(p)
    PROVE  TypeOK'
<1>1. pc' \in [Procs -> Labels] /\ loc' \in [Procs -> Locals]
  BY ReturnType DEF CancelledRemoval
<1>2. lock' \in Procs \cup {None} /\ tlock' \in Procs \cup {None} /\ lost' \subseteq Nat
  BY LoseOutcomeType DEF CancelledRemoval, TypeOK
<1>3. QED
  BY <1>1, <1>2 DEF CancelledRemoval, TypeOK

LEMMA RestoreReadType ==
    ASSUME TypeOK, NEW p \in Procs, RestoreRead(p)
    PROVE  TypeOK'
<1>1. Restored(rec) \in Sandboxes
  BY DEF Restored, TypeOK, Sandboxes, States
<1>2. loc' \in [Procs -> Locals]
  BY <1>1 DEF RestoreRead, TypeOK, Locals
<1>3. pc' \in [Procs -> Labels] /\ lock' \in Procs \cup {None}
  BY DEF RestoreRead, TypeOK, Goto, Labels, Locked, Owning
<1>4. QED
  BY <1>2, <1>3 DEF RestoreRead, TypeOK, nodeVars


LEMMA RestoreWriteType ==
    ASSUME TypeOK, NEW p \in Procs, RestoreWrite(p)
    PROVE  TypeOK'
BY DEF RestoreWrite, TypeOK, Goto, Locals, nodeVars, Labels, Locked, Owning, Waiting, Creating

LEMMA CallbackResultType ==
    ASSUME TypeOK, NEW p \in Procs, CallbackResult(p)
    PROVE  TypeOK'
<1>1. loc[p].tid \in Nat /\ lost' \subseteq Nat
  BY LoseOutcomeType DEF CallbackResult, TypeOK, Locals
<1>2. failed' \subseteq Nat /\ tlock' \in Procs \cup {None}
  BY <1>1 DEF CallbackResult, TypeOK
<1>3. pc' \in [Procs -> Labels]
  BY DEF CallbackResult, Goto, TypeOK, Labels, Owning
<1>4. QED
  BY <1>1, <1>2, <1>3 DEF CallbackResult, TypeOK

LEMMA CallbackReturnsType ==
    ASSUME TypeOK, NEW p \in Procs, CallbackReturns(p)
    PROVE  pc' \in [Procs -> Labels] /\ loc' \in [Procs -> Locals]
<1>. DEFINE l == [loc[p] EXCEPT !.act = "kill", !.err = "nil"]
<1>1. l \in Locals
  BY ZenonT(60) DEF TypeOK, Locals, Actions
<1>2. CASE loc[p].act = "snapshot" /\ loc[p].err = "failed"
  <2>1. loc' = [loc EXCEPT ![p] = l] /\ Goto(p, "sr_lock")
    BY <1>2 DEF CallbackReturns
  <2>. HIDE DEF l
  <2>2. QED BY <1>1, <2>1 DEF Goto, TypeOK, Labels
<1>3. CASE ~(loc[p].act = "snapshot" /\ loc[p].err = "failed")
  <2>1. Removed(p, "ok") \/ Return(p, "error")
    BY <1>3 DEF CallbackReturns
  <2>2. QED BY <2>1, RemovedType, ReturnType
<1>4. QED BY <1>2, <1>3

LEMMA CallbackDeleteType ==
    ASSUME TypeOK, NEW p \in Procs, CallbackDelete(p)
    PROVE  TypeOK'
BY CallbackReturnsType DEF CallbackDelete, TypeOK, nodeVars

LEMMA OwnerCommandFailsType ==
    ASSUME TypeOK, NEW p \in Procs, OwnerCommandFails(p)
    PROVE  TypeOK'
<1>1. CASE CallbackReturns(p)
  <2>1. pc' \in [Procs -> Labels] /\ loc' \in [Procs -> Locals]
    BY <1>1, CallbackReturnsType
  <2>2. lock' \in Procs \cup {None} /\ tlock' \in Procs \cup {None} /\ lost' \subseteq Nat
    BY LoseOutcomeType DEF OwnerCommandFails, TypeOK
  <2>3. QED
    BY <2>1, <2>2 DEF OwnerCommandFails, TypeOK
<1>2. CASE /\ Goto(p, "rm_release") \/ Goto(p, "cb")
           /\ loc' = loc \/ loc' = [loc EXCEPT ![p].err = "restore"]
  <2>1. pc' \in [Procs -> Labels]
    BY <1>2 DEF Goto, TypeOK, Labels, Owning
  <2>2. loc' \in [Procs -> Locals]
    BY <1>2 DEF TypeOK, Locals
  <2>3. lock' \in Procs \cup {None} /\ tlock' \in Procs \cup {None} /\ lost' \subseteq Nat
    BY LoseOutcomeType DEF OwnerCommandFails, TypeOK
  <2>4. QED
    BY <2>1, <2>2, <2>3 DEF OwnerCommandFails, TypeOK
<1>3. QED
  BY <1>1, <1>2 DEF OwnerCommandFails

LEMMA DeleteSnapshotType ==
    ASSUME TypeOK, NEW p \in Procs, DeleteSnapshot(p)
    PROVE  TypeOK'
BY ReturnType DEF DeleteSnapshot, TypeOK, redisVars, Labels, Locked, Owning, Waiting, Creating

LEMMA KeepAliveWriteType ==
    ASSUME TypeOK, NEW p \in Procs, KeepAliveWrite(p)
    PROVE  TypeOK'
BY ReturnType DEF KeepAliveWrite, TypeOK, Goto, Locals, nodeVars, Sandboxes, Labels, Locked, Owning, Waiting, Creating

LEMMA KeepAliveIndexType ==
    ASSUME TypeOK, NEW p \in Procs, KeepAliveIndex(p)
    PROVE  TypeOK'
BY ReturnType DEF KeepAliveIndex, TypeOK, Locals, nodeVars, Sandboxes, Labels, Locked, Owning, Waiting, Creating

LEMMA ResumeGetType ==
    ASSUME TypeOK, NEW p \in Procs, ResumeGet(p)
    PROVE  TypeOK'
BY ReturnType DEF ResumeGet, TypeOK, Goto, Locals, redisVars, nodeVars, Labels, Locked, Owning, Waiting, Creating

LEMMA ResumeWaitType ==
    ASSUME TypeOK, NEW p \in Procs, ResumeWait(p)
    PROVE  TypeOK'
<1>1. (loc \in [Procs -> Locals])'
  BY DEF ResumeWait, TypeOK, Locals
<1>2. (pc \in [Procs -> Labels])'
  BY DEF ResumeWait, TypeOK, Goto, Labels, Locked, Owning, Waiting, Creating
<1>3. QED
  BY <1>1, <1>2 DEF ResumeWait, TypeOK, redisVars, nodeVars

LEMMA ResumeSnapshotType ==
    ASSUME TypeOK, NEW p \in Procs, ResumeSnapshot(p)
    PROVE  TypeOK'
BY ReturnType DEF ResumeSnapshot, TypeOK, Goto, Locals, redisVars, nodeVars, Labels, Locked, Owning, Waiting, Creating

LEMMA ReserveType ==
    ASSUME TypeOK, NEW p \in Procs, Reserve(p)
    PROVE  TypeOK'
BY ReturnType, ZenonT(60) DEF Reserve, TypeOK, Goto, Locals, nodeVars, Labels, Locked, Owning, Waiting, Creating

LEMMA WaitForStartType ==
    ASSUME TypeOK, NEW p \in Procs, WaitForStart(p)
    PROVE  TypeOK'
BY ReturnType DEF WaitForStart, TypeOK, redisVars, nodeVars, Labels, Locked, Owning, Waiting, Creating

LEMMA AddIndexType ==
    ASSUME TypeOK, NEW p \in Procs, AddIndex(p)
    PROVE  TypeOK'
BY DEF AddIndex, TypeOK, Goto, Locals, nodeVars, Sandboxes, Labels, Locked, Owning, Waiting, Creating

LEMMA AddRecordType ==
    ASSUME TypeOK, NEW p \in Procs, AddRecord(p)
    PROVE  TypeOK'
BY DEF AddRecord, TypeOK, Goto, Locals, nodeVars, Labels, Locked, Owning, Waiting, Creating

LEMMA FailedAddType ==
    ASSUME TypeOK, NEW p \in Procs, FailedAdd(p)
    PROVE  TypeOK'
BY DEF FailedAdd, TypeOK, Goto, Locals, redisVars, nodeVars, Labels, Locked, Owning, Waiting, Creating

LEMMA FinishStartType ==
    ASSUME TypeOK, NEW p \in Procs, FinishStart(p)
    PROVE  TypeOK'
BY ReturnType, ZenonT(60) DEF FinishStart, TypeOK, Goto, Locals, nodeVars, Labels, Locked, Owning, Waiting, Creating

LEMMA UndoPlaceType ==
    ASSUME TypeOK, NEW p \in Procs, UndoPlace(p)
    PROVE  TypeOK'
<1>1. pc' \in [Procs -> Labels] /\ loc' \in [Procs -> Locals]
  <2>1. CASE pc[p] = "cr_undo"
    BY <2>1, ReturnType DEF UndoPlace
  <2>2. CASE pc[p] # "cr_undo"
    <3>1. NoRec \in Sandboxes
      BY DEF NoRec, Sandboxes
    <3>2. loc' = [loc EXCEPT ![p].sbx = NoRec] /\ pc' = pc
      BY <2>2 DEF UndoPlace
    <3>3. QED BY <3>1, <3>2, SMTT(60) DEF TypeOK, Locals
  <2>3. QED BY <2>1, <2>2
<1>2. live' \subseteq Nat /\ addr' \in Nat
  BY DEF UndoPlace, TypeOK, StopOnNode, MayStopOnNode
<1>3. QED
  BY <1>1, <1>2 DEF UndoPlace, TypeOK, redisVars


LEMMA EvictScanType ==
    ASSUME TypeOK, NEW p \in Procs, EvictScan(p)
    PROVE  TypeOK'
BY DEF EvictScan, TypeOK, Goto, Locals, redisVars, nodeVars, Labels, Locked, Owning, Waiting, Creating

LEMMA EvictGetType ==
    ASSUME TypeOK, NEW p \in Procs, EvictGet(p)
    PROVE  TypeOK'
<1>. DEFINE l == [loc[p] EXCEPT !.req = "evict",
                                  !.act = IF rec.ap THEN "pause" ELSE "kill"]
<1>1. l \in Locals
  BY ZenonT(60) DEF TypeOK, Locals, Actions
<1>2. \/ Goto(p, "ev_zrem") /\ UNCHANGED loc
      \/ Goto(p, "sr_lock") /\ loc' = [loc EXCEPT ![p] = l]
      \/ Return(p, "none")
  BY DEF EvictGet
<1>3. pc' \in [Procs -> Labels] /\ loc' \in [Procs -> Locals]
  <2>. HIDE DEF l
  <2>. QED BY <1>1, <1>2, ReturnType DEF Goto, TypeOK, Labels
<1>4. QED
  BY <1>3 DEF EvictGet, TypeOK, redisVars, nodeVars


LEMMA EvictOrphanType ==
    ASSUME TypeOK, NEW p \in Procs, EvictOrphan(p)
    PROVE  TypeOK'
BY ReturnType DEF EvictOrphan, TypeOK, Locals, nodeVars, Labels, Locked, Owning, Waiting, Creating

LEMMA MaxAllowedTTLType ==
    ASSUME NEW t \in Nat, NEW start \in Nat, NEW d \in Nat
    PROVE  MaxAllowedTTL(t, start, d) \in Nat
BY ConstantsAssumption DEF MaxAllowedTTL

LEMMA KeepAliveReadType ==
    ASSUME TypeOK, NEW p \in Procs, KeepAliveRead(p)
    PROVE  TypeOK'
<1>1. CASE Return(p, "error") /\ UNCHANGED lock
  BY <1>1, ReturnType DEF KeepAliveRead, TypeOK, nodeVars
<1>2. ASSUME NEW d \in Timeouts, NEW allowShorter \in BOOLEAN,
             lock' = p,
             loc' = [loc EXCEPT ![p] = [@ EXCEPT !.sbx =
                       IF ~allowShorter /\ (loc[p].at + MaxAllowedTTL(loc[p].at, rec.start, d)) < rec.end
                       THEN rec
                       ELSE [rec EXCEPT !.end =
                               loc[p].at + MaxAllowedTTL(loc[p].at, rec.start, d)],
                                                    !.old = rec.end]],
             Goto(p, "upd_set")
      PROVE  TypeOK'
  <2>. DEFINE e == loc[p].at + MaxAllowedTTL(loc[p].at, rec.start, d)
  <2>1. loc[p].at \in Nat /\ rec.start \in Nat /\ d \in Nat
    BY ConstantsAssumption DEF TypeOK, Locals, Sandboxes
  <2>2. e \in Nat
    <3>1. MaxAllowedTTL(loc[p].at, rec.start, d) \in Nat
      BY <2>1, MaxAllowedTTLType
    <3>2. QED BY <2>1, <3>1
  <2>3. [rec EXCEPT !.end = e] \in Sandboxes
    BY <2>2 DEF TypeOK, Sandboxes
  <2>4. loc' \in [Procs -> Locals]
    <3>. DEFINE n == IF ~allowShorter /\ e < rec.end THEN rec ELSE [rec EXCEPT !.end = e]
    <3>1. n \in Sandboxes /\ rec.end \in Nat
      BY <2>3 DEF TypeOK, Sandboxes
    <3>2. loc' = [loc EXCEPT ![p] = [loc[p] EXCEPT !.sbx = n, !.old = rec.end]]
      BY <1>2
    <3>. HIDE DEF e, n
    <3>3. loc[p] \in Locals
      BY DEF TypeOK
    <3>4. [loc[p] EXCEPT !.sbx = n, !.old = rec.end] \in Locals
      BY <3>1, <3>3 DEF Locals
    <3>. QED BY <3>2, <3>4 DEF TypeOK
  <2>5. pc' \in [Procs -> Labels] /\ lock' \in Procs \cup {None}
    BY <1>2 DEF Goto, TypeOK, Labels, Locked
  <2>6. QED
    BY <2>4, <2>5 DEF KeepAliveRead, TypeOK, nodeVars
<1>3. QED
  BY <1>1, <1>2 DEF KeepAliveRead

LEMMA PlaceType ==
    ASSUME TypeOK, NEW p \in Procs, Place(p)
    PROVE  TypeOK'
<1>1. loc' \in [Procs -> Locals]
  <2>1. ASSUME NEW d \in Timeouts, NEW ap \in AutoPauses
        PROVE  [st |-> "running", start |-> now, end |-> CappedEnd(now, now + d),
                ex |-> nextEx, ap |-> ap] \in Sandboxes
    BY <2>1, ConstantsAssumption DEF TypeOK, CappedEnd, Sandboxes, States
  <2>2. QED
    BY <2>1, SMTT(60) DEF Place, TypeOK, Locals
<1>2. live' \subseteq Nat /\ addr' \in Nat /\ nextEx' \in Nat
  BY DEF Place, TypeOK
<1>3. QED
  BY <1>1, <1>2 DEF Place, TypeOK, Goto, redisVars, Labels, Creating

LEMMA BeginType ==
    ASSUME TypeOK, NEW p \in Procs, Begin(p)
    PROVE  TypeOK'
<1>1. PICK r \in Requests :
        /\ Goto(p, FirstLabel(r))
        /\ loc' = [loc EXCEPT ![p] =
                     [IdleLocals(loc[p].budget - 1) EXCEPT
                        !.req = r,
                        !.act = IF r \in Actions THEN r ELSE "kill",
                        !.at  = now]]
  BY DEF Begin
<1>2. FirstLabel(r) \in Labels
  BY ConstantsAssumption DEF FirstLabel, RequestKinds, Actions, Labels
<1>3. [IdleLocals(loc[p].budget - 1) EXCEPT
         !.req = r, !.act = IF r \in Actions THEN r ELSE "kill", !.at = now] \in Locals
  <2>1. loc[p].budget - 1 \in Nat
    BY DEF Begin, TypeOK, Locals
  <2>2. r \in RequestKinds
    BY ConstantsAssumption
  <2>3. QED
    BY <2>1, <2>2 DEF IdleLocals, Locals, NoRec, Sandboxes, Actions, TypeOK
<1>4. QED
  BY <1>1, <1>2, <1>3 DEF Begin, Goto, TypeOK, redisVars, nodeVars

LEMMA EnvironmentType ==
    ASSUME TypeOK,
           \/ \E p \in Procs : Cancel(p) \/ Crash(p)
           \/ Tick \/ Expiry \/ Quiescent \/ UNCHANGED vars
    PROVE  TypeOK'
<1>1. ASSUME NEW p \in Procs, Cancel(p) PROVE TypeOK'
  BY <1>1 DEF Cancel, TypeOK, Locals, redisVars, nodeVars
<1>2. ASSUME NEW p \in Procs, Crash(p) PROVE TypeOK'
  <2>1. lost' \subseteq Nat
    BY <1>2, LoseOutcomeType DEF Crash
  <2>2. QED BY <1>2, <2>1 DEF Crash, Goto, TypeOK, Labels, redisVars
<1>3. CASE Tick
  BY <1>3 DEF Tick, TypeOK, redisVars, nodeVars
<1>4. CASE Expiry
  <2>1. CASE LockExpires
    BY <2>1 DEF LockExpires, TypeOK, nodeVars
  <2>2. CASE TransitionKeyExpires
    BY <2>2 DEF TransitionKeyExpires, TypeOK, nodeVars
  <2>3. CASE ResultKeyExpires
    BY <2>3 DEF ResultKeyExpires, TypeOK, nodeVars
  <2>4. CASE PendingExpires
    BY <2>4 DEF PendingExpires, TypeOK, nodeVars
  <2>5. QED BY <1>4, <2>1, <2>2, <2>3, <2>4 DEF Expiry
<1>5. CASE Quiescent \/ UNCHANGED vars
  BY <1>5 DEF Quiescent, vars, TypeOK
<1>6. QED BY <1>1, <1>2, <1>3, <1>4, <1>5

LEMMA InitType == Init => TypeOK
<1>. SUFFICES ASSUME Init PROVE TypeOK
  OBVIOUS
<1>2. IdleLocals(MaxRequests) \in Locals
  BY ConstantsAssumption DEF IdleLocals, Locals, NoRec, Sandboxes, Actions
<1>3. rec \in Sandboxes /\ exp \in Nat
  <2>1. PICK t \in Timeouts, ap \in AutoPauses :
          /\ rec = [st |-> "running", start |-> 0, end |-> t, ex |-> 1, ap |-> ap]
          /\ exp = t
    BY DEF Init
  <2>2. t \in Nat /\ ap \in BOOLEAN
    BY ConstantsAssumption
  <2>3. QED BY <2>1, <2>2 DEF Sandboxes, States
<1>4. pc \in [Procs -> Labels] /\ loc \in [Procs -> Locals]
  <2>1. pc = [p \in Procs |-> "idle"] /\ loc = [p \in Procs |-> IdleLocals(MaxRequests)]
    BY DEF Init
  <2>2. QED BY <1>2, <2>1 DEF Labels
<1>5. /\ tkey = 0 /\ failed = {} /\ lock = None /\ tlock = None
      /\ live = {1} /\ addr = 1 /\ snaps = {} /\ lost = {}
      /\ now = 0 /\ nextTid = 1 /\ nextEx = 2
  BY DEF Init
<1>6. pending \in BOOLEAN /\ hasSnap \in BOOLEAN
  BY DEF Init
<1>7. QED
  BY <1>3, <1>4, <1>5, <1>6 DEF TypeOK

(***************************************************************************)
(* Type correctness.                                                       *)
(***************************************************************************)

LEMMA StepType == TypeOK /\ [Next]_vars => TypeOK'
<1>. SUFFICES ASSUME TypeOK, [Next]_vars PROVE TypeOK'
  OBVIOUS
<1>1. ASSUME NEW p \in Procs, StorageStep(p) PROVE TypeOK'
  BY <1>1, StartRemovingReadType, StartRemovingCheckType, StartTransitionType,
     WaitTransitionType, FailedReturnType, KillOnNodeType, PauseOnNodeType,
     CheckpointOnNodeType, RemoveRecordType, RemoveIndexType,
     ReleaseReservationType, CancelledRemovalType, RestoreReadType,
     RestoreWriteType, CallbackResultType, CallbackDeleteType, OwnerCommandFailsType,
     DeleteSnapshotType, KeepAliveReadType, KeepAliveWriteType,
     KeepAliveIndexType, ResumeGetType, ResumeWaitType, ResumeSnapshotType,
     ReserveType, WaitForStartType, PlaceType, AddIndexType, AddRecordType,
     FailedAddType, FinishStartType, UndoPlaceType, EvictScanType,
     EvictGetType, EvictOrphanType
     DEF StorageStep
<1>2. QED
  BY <1>1, BeginType, EnvironmentType DEF Next

\* In every behaviour of the store, for any number of requests and any TTL,
\* the Redis keys, the node and the processes keep their types: the record a
\* transition, an update or a restore writes back is again a sandbox.
THEOREM TypeCorrect == Spec => []TypeOK
<1>1. QED BY InitType, StepType, PTL DEF Spec
=============================================================================
