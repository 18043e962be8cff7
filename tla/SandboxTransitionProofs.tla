----------------------- MODULE SandboxTransitionProofs -----------------------
(***************************************************************************)
(* Transitions of a sandbox exclude each other, for any number of requests *)
(* and API instances, crashes and cancellations included, as long as the   *)
(* key TTLs outlast their live holders.                                    *)
(*                                                                         *)
(* Most steps only move one process and perhaps take or drop the sandbox   *)
(* lock; Quiet says so, and one lemma shows that such a step preserves the *)
(* invariant.  The steps that touch the transition key are treated one by  *)
(* one.                                                                    *)
(***************************************************************************)
EXTENDS SandboxStoreProofs

\* The invariant without its type part.
Exclusion ==
    /\ nextTid > 0
    /\ LockHeld
    /\ \A p \in Procs : pc[p] = "sr_start" => tkey = 0
    /\ \A p \in Procs : pc[p] \in Owning => loc[p].tid # 0
    /\ OwnerKeepsKey
    /\ AtMostOneTransition

\* Process p alone moves.
OnlyMoves(p) ==
    \A q \in Procs \ {p} : pc'[q] = pc[q] /\ loc'[q] = loc[q]

\* What p does to the sandbox lock: nothing, obtain it, release it.
UsesLock(p) ==
    \/ lock' = lock /\ (pc'[p] \in Locked => pc[p] \in Locked)
    \/ lock = None /\ lock' = p
    \/ pc[p] \in Locked /\ lock' = None /\ pc'[p] \notin Locked

\* A step of p that starts and ends no transition in Redis.
Quiet(p) ==
    /\ tkey' = tkey /\ nextTid' = nextTid
    /\ OnlyMoves(p)
    /\ UsesLock(p)
    /\ pc'[p] = "sr_start" => pc[p] = "sr_start"
    /\ pc'[p] \in Owning => pc[p] \in Owning /\ loc'[p].tid = loc[p].tid

\* The lock discipline alone survives every step that respects it.
LEMMA UsesLockPreserves ==
    ASSUME LockHeld, NEW p \in Procs, OnlyMoves(p), UsesLock(p)
    PROVE  LockHeld'
BY ConstantsAssumption DEF LockHeld, OnlyMoves, UsesLock, Procs

LEMMA QuietPreserves ==
    ASSUME Exclusion, NEW p \in Procs, Quiet(p)
    PROVE  Exclusion'
<1>1. LockHeld'
  BY UsesLockPreserves DEF Exclusion, Quiet
<1>2. \A q \in Procs : pc'[q] \in Owning => pc[q] \in Owning /\ loc'[q].tid = loc[q].tid
  BY DEF Quiet, OnlyMoves
<1>3. \A q \in Procs : pc'[q] = "sr_start" => pc[q] = "sr_start"
  BY DEF Quiet, OnlyMoves
<1>4. tkey' = tkey /\ nextTid' = nextTid
  BY DEF Quiet
<1>5. OwnerKeepsKey' /\ AtMostOneTransition'
  BY <1>2, <1>4 DEF OwnerKeepsKey, AtMostOneTransition, Exclusion
<1>6. QED
  BY <1>1, <1>2, <1>3, <1>4, <1>5 DEF Exclusion

\* A request that returns leaves every other process alone.
LEMMA ReturnMoves ==
    ASSUME TypeOK, NEW p \in Procs, NEW o, Return(p, o)
    PROVE  OnlyMoves(p) /\ pc'[p] = "idle"
BY DEF Return, OnlyMoves, TypeOK

LEMMA RemovedMoves ==
    ASSUME TypeOK, NEW p \in Procs, NEW o, Removed(p, o)
    PROVE  OnlyMoves(p) /\ pc'[p] \in {"idle", "del_snap"}
BY ReturnMoves DEF Removed, Goto, OnlyMoves, TypeOK

LEMMA CallbackReturnsMoves ==
    ASSUME TypeOK, NEW p \in Procs, CallbackReturns(p)
    PROVE  OnlyMoves(p) /\ pc'[p] \in {"idle", "del_snap", "sr_lock"}
BY ReturnMoves, RemovedMoves DEF CallbackReturns, OnlyMoves, Goto, TypeOK

\* The steps of a process that start and end no transition.
QuietStep(p) ==
    \/ StartRemovingRead(p) \/ WaitTransition(p) \/ FailedReturn(p)
    \/ KillOnNode(p) \/ PauseOnNode(p) \/ CheckpointOnNode(p)
    \/ RemoveRecord(p) \/ RemoveIndex(p) \/ ReleaseReservation(p)
    \/ CancelledRemoval(p) \/ RestoreRead(p) \/ RestoreWrite(p)
    \/ CallbackResult(p) \/ DeleteSnapshot(p) \/ KeepAliveRead(p)
    \/ KeepAliveWrite(p) \/ KeepAliveIndex(p) \/ ResumeGet(p)
    \/ ResumeWait(p) \/ ResumeSnapshot(p) \/ Reserve(p) \/ WaitForStart(p)
    \/ Place(p) \/ AddIndex(p) \/ AddRecord(p) \/ FailedAdd(p)
    \/ FinishStart(p) \/ UndoPlace(p) \/ EvictScan(p) \/ EvictGet(p)
    \/ EvictOrphan(p) \/ Crash(p) \/ OwnerCommandFails(p)

LEMMA QuietSteps ==
    ASSUME TypeOK, NEW p \in Procs, QuietStep(p)
    PROVE  Quiet(p)
<1>. USE DEF Quiet, OnlyMoves, UsesLock, Goto, TypeOK, Locals, Locked, Owning,
             Waiting, redisVars, nodeVars
<1>1. CASE StartRemovingRead(p)
  BY <1>1, RemovedMoves DEF StartRemovingRead
<1>2. CASE WaitTransition(p)
  BY <1>2, ReturnMoves, RemovedMoves DEF WaitTransition
<1>3. CASE FailedReturn(p)
  BY <1>3, ReturnMoves, RemovedMoves DEF FailedReturn
<1>4. CASE KillOnNode(p)
  BY <1>4 DEF KillOnNode
<1>5. CASE PauseOnNode(p)
  BY <1>5 DEF PauseOnNode
<1>6. CASE CheckpointOnNode(p)
  BY <1>6 DEF CheckpointOnNode
<1>7. CASE RemoveRecord(p)
  BY <1>7 DEF RemoveRecord
<1>8. CASE RemoveIndex(p)
  BY <1>8 DEF RemoveIndex
<1>9. CASE ReleaseReservation(p)
  BY <1>9 DEF ReleaseReservation
<1>10. CASE CancelledRemoval(p)
  BY <1>10, ReturnMoves DEF CancelledRemoval
<1>11. CASE RestoreRead(p)
  BY <1>11 DEF RestoreRead
<1>12. CASE RestoreWrite(p)
  BY <1>12 DEF RestoreWrite
<1>13. CASE CallbackResult(p)
  BY <1>13 DEF CallbackResult
<1>14. CASE DeleteSnapshot(p)
  BY <1>14, ReturnMoves DEF DeleteSnapshot
<1>15. CASE KeepAliveRead(p)
  BY <1>15, ReturnMoves DEF KeepAliveRead
<1>16. CASE KeepAliveWrite(p)
  BY <1>16, ReturnMoves DEF KeepAliveWrite
<1>17. CASE KeepAliveIndex(p)
  BY <1>17, ReturnMoves DEF KeepAliveIndex
<1>18. CASE ResumeGet(p)
  BY <1>18, ReturnMoves DEF ResumeGet
<1>19. CASE ResumeWait(p)
  BY <1>19 DEF ResumeWait
<1>20. CASE ResumeSnapshot(p)
  BY <1>20, ReturnMoves DEF ResumeSnapshot
<1>21. CASE Reserve(p)
  BY <1>21, ReturnMoves DEF Reserve
<1>22. CASE WaitForStart(p)
  BY <1>22, ReturnMoves DEF WaitForStart
<1>23. CASE Place(p)
  BY <1>23 DEF Place
<1>24. CASE AddIndex(p)
  BY <1>24 DEF AddIndex
<1>25. CASE AddRecord(p)
  BY <1>25 DEF AddRecord
<1>26. CASE FailedAdd(p)
  BY <1>26 DEF FailedAdd
<1>27. CASE FinishStart(p)
  BY <1>27, ReturnMoves DEF FinishStart
<1>28. CASE UndoPlace(p)
  BY <1>28, ReturnMoves DEF UndoPlace
<1>29. CASE EvictScan(p)
  BY <1>29 DEF EvictScan
<1>30. CASE EvictGet(p)
  BY <1>30, ReturnMoves DEF EvictGet
<1>31. CASE EvictOrphan(p)
  BY <1>31, ReturnMoves DEF EvictOrphan
<1>32. CASE Crash(p)
  BY <1>32 DEF Crash
<1>33. CASE OwnerCommandFails(p)
  <2>1. CASE CallbackReturns(p)
    BY <1>33, <2>1, CallbackReturnsMoves DEF OwnerCommandFails
  <2>2. CASE loc' = [loc EXCEPT ![p].err = "restore"] /\ Goto(p, "cb")
    BY <1>33, <2>2 DEF OwnerCommandFails
  <2>3. CASE loc' = loc
    BY <1>33, <2>3 DEF OwnerCommandFails, CallbackReturns, Removed, Return
  <2>4. QED
    BY <1>33, <2>1, <2>2, <2>3 DEF OwnerCommandFails
<1>34. QED
  BY <1>1, <1>2, <1>3, <1>4, <1>5, <1>6, <1>7, <1>8, <1>9, <1>10, <1>11, 
     <1>12, <1>13, <1>14, <1>15, <1>16, <1>17, <1>18, <1>19, <1>20, <1>21, 
     <1>22, <1>23, <1>24, <1>25, <1>26, <1>27, <1>28, <1>29, <1>30, <1>31, 
     <1>32, <1>33
     DEF QuietStep

LEMMA BeginQuiet ==
    ASSUME TypeOK, NEW p \in Procs, Begin(p)
    PROVE  Quiet(p)
<1>1. PICK r \in Requests : Goto(p, FirstLabel(r))
  BY DEF Begin
<1>2. FirstLabel(r) \in {"sr_lock", "upd_lock", "res_get"}
  BY ConstantsAssumption DEF FirstLabel, RequestKinds, Actions
<1>3. pc'[p] \in {"sr_lock", "upd_lock", "res_get"} /\ OnlyMoves(p)
  BY <1>1, <1>2 DEF Begin, Goto, OnlyMoves, TypeOK
<1>4. QED
  BY <1>3 DEF Begin, Quiet, UsesLock, redisVars, Locked, Owning

LEMMA CancelQuiet ==
    ASSUME TypeOK, NEW p \in Procs, Cancel(p)
    PROVE  Quiet(p)
<1>1. loc[p] \in Locals
  BY DEF TypeOK
<1>2. loc' = [loc EXCEPT ![p].ctx = "cancelled"] /\ pc' = pc
  BY DEF Cancel
<1>3. loc'[p].tid = loc[p].tid /\ OnlyMoves(p)
  BY <1>1, <1>2 DEF TypeOK, OnlyMoves, Locals
<1>4. QED
  BY <1>2, <1>3 DEF Cancel, Quiet, UsesLock, redisVars

\* GET the transition key: the only way to "sr_start".
LEMMA StartRemovingCheckExcludes ==
    ASSUME TypeOK, Exclusion, NEW p \in Procs, StartRemovingCheck(p)
    PROVE  Exclusion'
<1>1. \/ Quiet(p)
      \/ pc' = [pc EXCEPT ![p] = "sr_start"] /\ tkey = 0 /\ UNCHANGED <<lock, loc>>
  BY ReturnMoves, RemovedMoves
     DEF StartRemovingCheck, Quiet, OnlyMoves, UsesLock, Goto, TypeOK, Locals,
         Locked, Owning, Waiting
<1>2. CASE Quiet(p)
  BY <1>2, QuietPreserves
<1>3. CASE pc' = [pc EXCEPT ![p] = "sr_start"] /\ tkey = 0 /\ UNCHANGED <<lock, loc>>
  <2>1. tkey' = tkey /\ nextTid' = nextTid /\ pc[p] = "sr_check"
    BY DEF StartRemovingCheck
  <2>2. LockHeld'
    BY <1>3, <2>1 DEF Exclusion, LockHeld, TypeOK, Locked
  <2>3. \A q \in Procs : pc'[q] \in Owning => pc[q] \in Owning
    BY <1>3 DEF TypeOK, Owning
  <2>4. QED
    BY <1>3, <2>1, <2>2, <2>3 DEF Exclusion, OwnerKeepsKey, AtMostOneTransition
<1>4. QED BY <1>1, <1>2, <1>3

\* startTransitionScript: no owner can be there, for the key is absent.
LEMMA StartTransitionExcludes ==
    ASSUME TypeOK, Exclusion, NEW p \in Procs, StartTransition(p)
    PROVE  Exclusion'
<1>1. pc[p] = "sr_start" /\ pc' = [pc EXCEPT ![p] = "node"] /\ lock' = None
      /\ tkey' = nextTid /\ nextTid' = nextTid + 1
  BY DEF StartTransition, Goto
<1>2. loc'[p].tid = nextTid /\ \A q \in Procs \ {p} : loc'[q] = loc[q]
  <2>1. PICK u : loc' = [loc EXCEPT ![p] = [@ EXCEPT !.sbx = u, !.tid = nextTid]]
    BY DEF StartTransition
  <2>2. loc[p] \in Locals
    BY DEF TypeOK
  <2>3. [loc[p] EXCEPT !.sbx = u, !.tid = nextTid].tid = nextTid
    BY <2>2 DEF Locals
  <2>4. QED BY <2>1, <2>3 DEF TypeOK
<1>3. tkey = 0 /\ lock = p
  BY <1>1 DEF Exclusion, LockHeld, Locked
<1>4. \A q \in Procs : pc[q] \notin Owning
  BY <1>3 DEF Exclusion, OwnerKeepsKey
<1>5. \A q \in Procs \ {p} : pc'[q] = pc[q] /\ pc[q] \notin Locked
  BY <1>1, <1>3 DEF Exclusion, LockHeld, TypeOK
<1>6. \A q \in Procs : pc'[q] \in Owning => q = p
  BY <1>4, <1>5
<1>7. \A q \in Procs : pc'[q] \notin Locked
  BY <1>1, <1>5 DEF TypeOK, Locked
<1>8. nextTid \in Nat /\ nextTid > 0
  BY DEF TypeOK, Exclusion
<1>9. QED
  BY <1>1, <1>2, <1>6, <1>7, <1>8
     DEF Exclusion, LockHeld, Locked, OwnerKeepsKey, AtMostOneTransition

\* DEL of the transition key: the key deleted is the deleter's own.
LEMMA CallbackDeleteExcludes ==
    ASSUME TypeOK, Exclusion, NEW p \in Procs, CallbackDelete(p)
    PROVE  Exclusion'
<1>1. /\ pc[p] = "cb_del" /\ tkey' = 0
      /\ lock' = lock /\ nextTid' = nextTid
  BY DEF CallbackDelete
<1>2. OnlyMoves(p) /\ pc'[p] \in {"idle", "del_snap", "sr_lock"}
  BY CallbackReturnsMoves DEF CallbackDelete
<1>3. \A q \in Procs : pc'[q] \notin Owning
  BY <1>1, <1>2 DEF Exclusion, AtMostOneTransition, OnlyMoves, Owning
<1>4. LockHeld'
  BY <1>1, <1>2, UsesLockPreserves DEF UsesLock, Locked, Exclusion
<1>5. QED
  BY <1>1, <1>3, <1>4 DEF Exclusion, OwnerKeepsKey, AtMostOneTransition

\* A TTL runs out: never under a live holder.
LEMMA ExpiryExcludes ==
    ASSUME TypeOK, Exclusion, TTLCovers, Expiry
    PROVE  Exclusion'
<1>1. CASE LockExpires
  <2>1. /\ tkey' = tkey /\ nextTid' = nextTid /\ pc' = pc /\ loc' = loc
        /\ \/ lock' = lock
           \/ lock # None /\ pc[lock] = "crashed"
    BY <1>1 DEF LockExpires
  <2>2. LockHeld'
    BY <2>1 DEF Exclusion, LockHeld, Locked
  <2>3. QED
    BY <2>1, <2>2 DEF Exclusion, OwnerKeepsKey, AtMostOneTransition
<1>2. CASE TransitionKeyExpires
  <2>1. ~OwnerLives /\ tkey' = 0 /\ UNCHANGED <<lock, nextTid, pc, loc>>
    BY <1>2 DEF TransitionKeyExpires
  <2>2. \A q \in Procs : pc[q] \notin Owning
    BY <2>1 DEF OwnerLives, Exclusion, OwnerKeepsKey
  <2>3. QED
    BY <2>1, <2>2 DEF Exclusion, LockHeld, OwnerKeepsKey, AtMostOneTransition
<1>3. CASE ResultKeyExpires \/ PendingExpires
  <2>1. UNCHANGED <<tkey, lock, nextTid, pc, loc>>
    BY <1>3 DEF ResultKeyExpires, PendingExpires
  <2>2. QED
    BY <2>1 DEF Exclusion, LockHeld, OwnerKeepsKey, AtMostOneTransition
<1>4. QED BY <1>1, <1>2, <1>3 DEF Expiry

LEMMA InitExcludes == Init => Exclusion
<1>. SUFFICES ASSUME Init PROVE Exclusion
  OBVIOUS
<1>1. nextTid = 1 /\ \A p \in Procs : pc[p] = "idle"
  BY DEF Init
<1>2. QED
  BY <1>1 DEF Exclusion, LockHeld, Locked, Owning, OwnerKeepsKey,
              AtMostOneTransition

LEMMA StepExcludes ==
    ASSUME TypeOK, Exclusion, TTLCovers, [Next]_vars
    PROVE  Exclusion'
<1>1. ASSUME NEW p \in Procs, Begin(p) \/ StorageStep(p) \/ Cancel(p) \/ Crash(p)
      PROVE  Exclusion'
  <2>1. CASE Begin(p)
    BY <2>1, BeginQuiet, QuietPreserves
  <2>2. CASE Cancel(p)
    BY <2>2, CancelQuiet, QuietPreserves
  <2>3. CASE QuietStep(p)
    BY <2>3, QuietSteps, QuietPreserves
  <2>4. CASE StartRemovingCheck(p) \/ StartTransition(p) \/ CallbackDelete(p)
    BY <2>4, StartRemovingCheckExcludes, StartTransitionExcludes,
       CallbackDeleteExcludes
  <2>5. QED
    BY <1>1, <2>1, <2>2, <2>3, <2>4 DEF StorageStep, QuietStep
<1>2. CASE Tick \/ Quiescent \/ UNCHANGED vars
  <2>1. UNCHANGED <<tkey, lock, nextTid, pc, loc>>
    BY <1>2 DEF Tick, Quiescent, vars, redisVars
  <2>2. QED
    BY <2>1 DEF Exclusion, LockHeld, OwnerKeepsKey, AtMostOneTransition
<1>3. CASE Expiry
  BY <1>3, ExpiryExcludes
<1>4. QED
  BY <1>1, <1>2, <1>3 DEF Next

\* The whole invariant of the transitions holds for any number of requests,
\* API instances and evictors, with crashes and cancelled requests, when the
\* transition key's TTL outlasts the transition (state_change.go).
THEOREM TransitionsInvariant ==
    ASSUME TTLCovers
    PROVE  Spec => []TransitionInv
<1>1. Init => Exclusion
  BY InitExcludes
<1>2. TypeOK /\ Exclusion /\ [Next]_vars => Exclusion'
  BY StepExcludes
<1>3. TypeOK /\ Exclusion => TransitionInv
  BY DEF TransitionInv, Exclusion
<1>4. QED
  BY <1>1, <1>2, <1>3, TypeCorrect, PTL DEF Spec

\* No two requests ever drive a transition of one sandbox at the same time
\* (StartRemoving until the callback's DEL).
THEOREM TransitionsExclusive ==
    ASSUME TTLCovers
    PROVE  Spec => []AtMostOneTransition
<1>1. TransitionInv => AtMostOneTransition
  BY DEF TransitionInv
<1>2. QED
  BY <1>1, TransitionsInvariant, PTL

\* The transition key in Redis is that of the transition which runs, so who
\* waits for it waits until the callback.
THEOREM OwnersKeepKeys ==
    ASSUME TTLCovers
    PROVE  Spec => []OwnerKeepsKey
<1>1. TransitionInv => OwnerKeepsKey
  BY DEF TransitionInv
<1>2. QED
  BY <1>1, TransitionsInvariant, PTL
=============================================================================
