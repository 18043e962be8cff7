-------------------------- MODULE SandboxWriteProofs --------------------------
(***************************************************************************)
(* The state of a sandbox execution moves only along AllowedTransitions,   *)
(* even when key TTLs run out under a live holder: every writer but Add    *)
(* writes a copy it read under the lock it still holds, and Add, which     *)
(* takes no lock, writes an execution that nobody has seen before.         *)
(***************************************************************************)
EXTENDS SandboxTransitionProofs

\* Between the read of the record and its write back; between the creation of
\* an execution and its Add.
Copying == {"sr_check", "sr_start", "upd_set", "restore_set"}
Adding  == {"cr_index", "cr_set"}

\* What p will write back is what is stored, but for an allowed change of
\* state, unless Add has replaced the execution meanwhile.
CopyIsCurrent(p) ==
    rec.ex = loc[p].sbx.ex =>
        \/ rec.st = loc[p].sbx.st
        \/ pc[p] = "restore_set" /\ rec.st = "snapshotting" /\ loc[p].sbx.st = "running"

\* What p will write back or add is a sandbox: a running one, unless a snapshot
\* found it in another state when it came to restore it.
CopyIsSandbox(p) ==
    /\ pc[p] \in Adding \/ pc[p] = "upd_set" => loc[p].sbx.st = "running"
    /\ pc[p] = "restore_set" => Present(loc[p].sbx)

WritesInv ==
    /\ LockHeld
    /\ nextEx > 0 /\ rec.ex < nextEx
    /\ \A p \in Procs : pc[p] \in Copying \cup Adding => loc[p].sbx.ex < nextEx
    /\ \A p \in Procs : pc[p] \in Copying => CopyIsCurrent(p)
    /\ \A p \in Procs :
          pc[p] = "sr_start" => Allowed(loc[p].sbx.st, TargetState(loc[p].act))
    /\ \A p \in Procs :
          pc[p] \in Adding => loc[p].sbx.ex > 0 /\ rec.ex # loc[p].sbx.ex
    /\ \A p, q \in Procs :
          p # q /\ pc[p] \in Adding /\ pc[q] \in Copying \cup Adding
          => loc[p].sbx.ex # loc[q].sbx.ex
    /\ \A p \in Procs : CopyIsSandbox(p)

\* A step of p that touches neither the record nor p's copy of it.
Calm(p) ==
    /\ rec' = rec /\ nextEx' = nextEx
    /\ OnlyMoves(p) /\ UsesLock(p)
    /\ pc'[p] \in Copying => /\ pc'[p] = pc[p]
                             /\ loc'[p].sbx = loc[p].sbx
                             /\ loc'[p].act = loc[p].act
    /\ pc'[p] \in Adding => pc[p] \in Adding /\ loc'[p].sbx = loc[p].sbx

LEMMA CalmPreserves ==
    ASSUME WritesInv, NEW p \in Procs, Calm(p)
    PROVE  WritesInv'
<1>1. LockHeld'
  BY UsesLockPreserves DEF WritesInv, Calm
<1>2. rec' = rec /\ nextEx' = nextEx
  BY DEF Calm
<1>3. \A q \in Procs : pc'[q] \in Copying =>
         pc'[q] = pc[q] /\ loc'[q].sbx = loc[q].sbx /\ loc'[q].act = loc[q].act
  BY DEF Calm, OnlyMoves
<1>4. \A q \in Procs : pc'[q] \in Adding =>
         pc[q] \in Adding /\ loc'[q].sbx = loc[q].sbx
  BY DEF Calm, OnlyMoves
<1>5. \A q \in Procs : pc'[q] \in Copying => CopyIsCurrent(q)'
  BY <1>2, <1>3 DEF WritesInv, CopyIsCurrent
<1>6. \A q \in Procs :
         pc'[q] = "sr_start" => Allowed(loc'[q].sbx.st, TargetState(loc'[q].act))
  BY <1>3 DEF WritesInv, Copying
<1>7. \A q \in Procs : CopyIsSandbox(q)'
  <2> SUFFICES ASSUME NEW q \in Procs PROVE CopyIsSandbox(q)'
    OBVIOUS
  <2>1. CopyIsSandbox(q)
    BY DEF WritesInv
  <2>2. "upd_set" \in Copying /\ "restore_set" \in Copying
    BY DEF Copying
  <2> QED
    BY <1>3, <1>4, <2>1, <2>2 DEF CopyIsSandbox, Present
<1>8. QED
  BY <1>1, <1>2, <1>3, <1>4, <1>5, <1>6, <1>7 DEF WritesInv

\* A step of p that reads the record under the lock.
Reads(p) ==
    /\ rec' = rec /\ nextEx' = nextEx
    /\ OnlyMoves(p) /\ UsesLock(p)
    /\ pc'[p] \in Copying \ {"sr_start"}
    /\ loc'[p].sbx.ex = rec.ex
    /\ \/ rec.st = loc'[p].sbx.st
       \/ pc'[p] = "restore_set" /\ rec.st = "snapshotting" /\ loc'[p].sbx.st = "running"
    /\ pc'[p] = "upd_set" => loc'[p].sbx.st = "running"
    /\ Present(loc'[p].sbx)

LEMMA ReadsPreserves ==
    ASSUME WritesInv, NEW p \in Procs, Reads(p)
    PROVE  WritesInv'
<1>1. LockHeld'
  BY UsesLockPreserves DEF WritesInv, Reads
<1>2. rec' = rec /\ nextEx' = nextEx /\ loc'[p].sbx.ex = rec.ex
      /\ pc'[p] \notin Adding /\ pc'[p] # "sr_start"
  BY DEF Reads, Copying, Adding
<1>3. \A q \in Procs \ {p} : pc'[q] = pc[q] /\ loc'[q] = loc[q]
  BY DEF Reads, OnlyMoves
<1>4. \A q \in Procs : pc'[q] \in Copying => CopyIsCurrent(q)'
  <2>1. CopyIsCurrent(p)'
    BY <1>2 DEF Reads, CopyIsCurrent
  <2>2. QED
    BY <1>2, <1>3, <2>1 DEF WritesInv, CopyIsCurrent
<1>5. \A q \in Procs : CopyIsSandbox(q)'
  <2>1. CopyIsSandbox(p)'
    BY <1>2 DEF Reads, CopyIsSandbox
  <2>2. \A q \in Procs : CopyIsSandbox(q)
    BY DEF WritesInv
  <2>3. QED
    BY <1>3, <2>1, <2>2 DEF CopyIsSandbox
<1>6. QED
  BY <1>1, <1>2, <1>3, <1>4, <1>5 DEF WritesInv

\* A step of the lock's holder p that stores a record of the execution e it
\* has a copy of, or that Add stores, or none.
Writes(p) ==
    /\ nextEx' = nextEx /\ rec'.ex < nextEx
    /\ OnlyMoves(p) /\ LockHeld'
    /\ pc'[p] \notin Copying \cup Adding
    /\ \A q \in Procs \ {p} : pc[q] \in Copying => rec'.ex # loc[q].sbx.ex
    /\ \A q \in Procs \ {p} : pc[q] \in Adding => rec'.ex # loc[q].sbx.ex

LEMMA WritesPreserves ==
    ASSUME WritesInv, NEW p \in Procs, Writes(p)
    PROVE  WritesInv'
<1>1. nextEx' = nextEx /\ rec'.ex < nextEx /\ LockHeld'
      /\ pc'[p] \notin Copying /\ pc'[p] \notin Adding
  BY DEF Writes
<1>2. \A q \in Procs \ {p} : pc'[q] = pc[q] /\ loc'[q] = loc[q]
  BY DEF Writes, OnlyMoves
<1>3. \A q \in Procs : pc'[q] \in Copying => CopyIsCurrent(q)'
  BY <1>1, <1>2 DEF Writes, CopyIsCurrent
<1>4. \A q \in Procs : pc'[q] \in Adding =>
         loc'[q].sbx.ex > 0 /\ rec'.ex # loc'[q].sbx.ex
  BY <1>1, <1>2 DEF Writes, WritesInv
<1>5. pc'[p] # "sr_start"
  BY <1>1 DEF Copying
<1>6. \A q \in Procs : CopyIsSandbox(q)'
  <2>1. CopyIsSandbox(p)'
    BY <1>1 DEF Copying, CopyIsSandbox
  <2>2. \A q \in Procs : CopyIsSandbox(q)
    BY DEF WritesInv
  <2>3. QED
    BY <1>2, <2>1, <2>2 DEF CopyIsSandbox
<1>7. QED
  BY <1>1, <1>2, <1>3, <1>4, <1>5, <1>6 DEF WritesInv

\* The steps of a process that neither read nor write the record.
CalmStep(p) ==
    \/ WaitTransition(p) \/ FailedReturn(p) \/ KillOnNode(p)
    \/ PauseOnNode(p) \/ CheckpointOnNode(p) \/ RemoveIndex(p)
    \/ ReleaseReservation(p) \/ CancelledRemoval(p) \/ CallbackResult(p)
    \/ DeleteSnapshot(p) \/ KeepAliveIndex(p) \/ ResumeGet(p)
    \/ ResumeWait(p) \/ ResumeSnapshot(p) \/ Reserve(p) \/ WaitForStart(p)
    \/ AddIndex(p) \/ FailedAdd(p) \/ FinishStart(p) \/ UndoPlace(p)
    \/ EvictScan(p) \/ EvictGet(p) \/ EvictOrphan(p) \/ Crash(p)
    \/ CallbackDelete(p) \/ OwnerCommandFails(p)

LEMMA CalmSteps ==
    ASSUME TypeOK, NEW p \in Procs, CalmStep(p)
    PROVE  Calm(p)
<1>. USE DEF Calm, OnlyMoves, UsesLock, Goto, TypeOK, Locals, Locked, Waiting,
             Copying, Adding, redisVars, nodeVars
<1>1. CASE WaitTransition(p)
  BY <1>1, ReturnMoves, RemovedMoves DEF WaitTransition
<1>2. CASE FailedReturn(p)
  BY <1>2, ReturnMoves, RemovedMoves DEF FailedReturn
<1>3. CASE KillOnNode(p)
  BY <1>3 DEF KillOnNode
<1>4. CASE PauseOnNode(p)
  BY <1>4 DEF PauseOnNode
<1>5. CASE CheckpointOnNode(p)
  BY <1>5 DEF CheckpointOnNode
<1>6. CASE RemoveIndex(p)
  BY <1>6 DEF RemoveIndex
<1>7. CASE ReleaseReservation(p)
  BY <1>7 DEF ReleaseReservation
<1>8. CASE CancelledRemoval(p)
  BY <1>8, ReturnMoves DEF CancelledRemoval
<1>9. CASE CallbackResult(p)
  BY <1>9 DEF CallbackResult
<1>10. CASE DeleteSnapshot(p)
  BY <1>10, ReturnMoves DEF DeleteSnapshot
<1>11. CASE KeepAliveIndex(p)
  BY <1>11, ReturnMoves DEF KeepAliveIndex
<1>12. CASE ResumeGet(p)
  BY <1>12, ReturnMoves DEF ResumeGet
<1>13. CASE ResumeWait(p)
  BY <1>13 DEF ResumeWait
<1>14. CASE ResumeSnapshot(p)
  BY <1>14, ReturnMoves DEF ResumeSnapshot
<1>15. CASE Reserve(p)
  BY <1>15, ReturnMoves DEF Reserve
<1>16. CASE WaitForStart(p)
  BY <1>16, ReturnMoves DEF WaitForStart
<1>17. CASE AddIndex(p)
  BY <1>17 DEF AddIndex
<1>18. CASE FailedAdd(p)
  BY <1>18 DEF FailedAdd
<1>19. CASE FinishStart(p)
  BY <1>19, ReturnMoves DEF FinishStart
<1>20. CASE UndoPlace(p)
  BY <1>20, ReturnMoves DEF UndoPlace
<1>21. CASE EvictScan(p)
  BY <1>21 DEF EvictScan
<1>22. CASE EvictGet(p)
  BY <1>22, ReturnMoves DEF EvictGet
<1>23. CASE EvictOrphan(p)
  BY <1>23, ReturnMoves DEF EvictOrphan
<1>24. CASE Crash(p)
  BY <1>24 DEF Crash
<1>25. CASE CallbackDelete(p)
  BY <1>25, CallbackReturnsMoves DEF CallbackDelete
<1>26. CASE OwnerCommandFails(p)
  <2>1. CASE CallbackReturns(p)
    BY <1>26, <2>1, CallbackReturnsMoves DEF OwnerCommandFails
  <2>2. CASE loc' = [loc EXCEPT ![p].err = "restore"] /\ Goto(p, "cb")
    BY <1>26, <2>2 DEF OwnerCommandFails
  <2>3. CASE loc' = loc /\ (Goto(p, "rm_release") \/ Goto(p, "cb"))
    BY <1>26, <2>3 DEF OwnerCommandFails
  <2>4. QED
    BY <1>26, <2>1, <2>2, <2>3 DEF OwnerCommandFails
<1>27. QED
  BY <1>1, <1>2, <1>3, <1>4, <1>5, <1>6, <1>7, <1>8, <1>9, <1>10, <1>11, 
     <1>12, <1>13, <1>14, <1>15, <1>16, <1>17, <1>18, <1>19, <1>20, <1>21, 
     <1>22, <1>23, <1>24, <1>25, <1>26
     DEF CalmStep

LEMMA BeginCalm ==
    ASSUME TypeOK, NEW p \in Procs, Begin(p)
    PROVE  Calm(p)
<1>1. PICK r \in Requests : Goto(p, FirstLabel(r))
  BY DEF Begin
<1>2. FirstLabel(r) \in {"sr_lock", "upd_lock", "res_get"}
  BY ConstantsAssumption DEF FirstLabel, RequestKinds, Actions
<1>3. pc'[p] \in {"sr_lock", "upd_lock", "res_get"} /\ OnlyMoves(p)
  BY <1>1, <1>2 DEF Begin, Goto, OnlyMoves, TypeOK
<1>4. QED
  BY <1>3 DEF Begin, Calm, UsesLock, redisVars, Locked, Copying, Adding

LEMMA CancelCalm ==
    ASSUME TypeOK, NEW p \in Procs, Cancel(p)
    PROVE  Calm(p)
<1>1. loc[p] \in Locals
  BY DEF TypeOK
<1>2. loc' = [loc EXCEPT ![p].ctx = "cancelled"] /\ pc' = pc
  BY DEF Cancel
<1>3. loc'[p].sbx = loc[p].sbx /\ loc'[p].act = loc[p].act /\ OnlyMoves(p)
  BY <1>1, <1>2 DEF TypeOK, OnlyMoves, Locals
<1>4. QED
  BY <1>2, <1>3 DEF Cancel, Calm, UsesLock, redisVars

\* StartRemoving reads the record.
LEMMA StartRemovingReadWrites ==
    ASSUME TypeOK, WritesInv, NEW p \in Procs, StartRemovingRead(p)
    PROVE  WritesInv'
<1>1. CASE Present(rec)
  <2>1. Reads(p)
    BY <1>1 DEF StartRemovingRead, Reads, OnlyMoves, UsesLock, Goto, TypeOK,
                Locals, Copying, nodeVars
  <2>2. QED BY <2>1, ReadsPreserves
<1>2. CASE ~Present(rec)
  <2>1. Calm(p)
    BY <1>2, RemovedMoves
       DEF StartRemovingRead, Calm, UsesLock, Locked, Copying, Adding
  <2>2. QED BY <2>1, CalmPreserves
<1>3. QED BY <1>1, <1>2

\* KeepAliveFor reads the record; its update keeps execution and state.
LEMMA KeepAliveReadWrites ==
    ASSUME TypeOK, WritesInv, NEW p \in Procs, KeepAliveRead(p)
    PROVE  WritesInv'
<1>1. CASE Goto(p, "upd_set")
  <2>1. PICK e : /\ lock = None /\ lock' = p
                 /\ loc' = [loc EXCEPT ![p] = [@ EXCEPT !.sbx = e, !.old = rec.end]]
                 /\ e = rec \/ \E x : e = [rec EXCEPT !.end = x]
    BY <1>1, ReturnMoves DEF KeepAliveRead, Goto, TypeOK
  <2>2. e.ex = rec.ex /\ e.st = rec.st
    BY <2>1 DEF TypeOK, Sandboxes
  <2>3. loc'[p].sbx = e /\ pc'[p] = "upd_set" /\ OnlyMoves(p)
    BY <1>1, <2>1 DEF TypeOK, Locals, Goto, OnlyMoves
  <2>4. rec.st = "running" /\ rec' = rec /\ nextEx' = nextEx
    BY <1>1, ReturnMoves DEF KeepAliveRead, Goto, TypeOK
  <2>5. Reads(p)
    BY <2>1, <2>2, <2>3, <2>4 DEF Reads, UsesLock, Copying, Present
  <2>6. QED BY <2>5, ReadsPreserves
<1>2. CASE Return(p, "error") /\ UNCHANGED lock
  <2>1. Calm(p)
    BY <1>2, ReturnMoves
       DEF KeepAliveRead, Calm, UsesLock, Locked, Copying, Adding
  <2>2. QED BY <2>1, CalmPreserves
<1>3. QED BY <1>1, <1>2 DEF KeepAliveRead

\* restoreToRunning reads the record; its update is an allowed transition.
LEMMA RestoreReadWrites ==
    ASSUME TypeOK, WritesInv, NEW p \in Procs, RestoreRead(p)
    PROVE  WritesInv'
<1>1. CASE Present(rec)
  <2>1. /\ lock = None /\ lock' = p /\ rec' = rec /\ nextEx' = nextEx
        /\ loc' = [loc EXCEPT ![p].sbx = Restored(rec)]
        /\ pc' = [pc EXCEPT ![p] = "restore_set"]
    BY <1>1 DEF RestoreRead, Goto
  <2>2. /\ Restored(rec).ex = rec.ex /\ Present(Restored(rec))
        /\ \/ Restored(rec).st = rec.st
           \/ rec.st = "snapshotting" /\ Restored(rec).st = "running"
    BY <1>1 DEF Restored, Present, TypeOK, Sandboxes
  <2>3. loc'[p].sbx = Restored(rec) /\ pc'[p] = "restore_set" /\ OnlyMoves(p)
    BY <2>1 DEF TypeOK, Locals, OnlyMoves
  <2>4. Reads(p)
    BY <2>1, <2>2, <2>3 DEF Reads, UsesLock, Copying
  <2>5. QED BY <2>4, ReadsPreserves
<1>2. CASE ~Present(rec)
  <2>1. Calm(p)
    BY <1>2 DEF RestoreRead, Calm, OnlyMoves, UsesLock, Goto, TypeOK, Locals,
                Locked, Copying, Adding
  <2>2. QED BY <2>1, CalmPreserves
<1>3. QED BY <1>1, <1>2

\* StartRemoving decides to start: the transition is an allowed one.
LEMMA StartRemovingCheckWrites ==
    ASSUME TypeOK, WritesInv, NEW p \in Procs, StartRemovingCheck(p)
    PROVE  WritesInv'
<1>1. \/ Calm(p)
      \/ /\ pc' = [pc EXCEPT ![p] = "sr_start"] /\ UNCHANGED <<lock, loc>>
         /\ Allowed(loc[p].sbx.st, TargetState(loc[p].act))
  BY ReturnMoves, RemovedMoves
     DEF StartRemovingCheck, Calm, OnlyMoves, UsesLock, Goto, TypeOK, Locals,
         Locked, Waiting, Copying, Adding
<1>2. CASE Calm(p)
  BY <1>2, CalmPreserves
<1>3. CASE /\ pc' = [pc EXCEPT ![p] = "sr_start"] /\ UNCHANGED <<lock, loc>>
           /\ Allowed(loc[p].sbx.st, TargetState(loc[p].act))
  <2>1. rec' = rec /\ nextEx' = nextEx /\ pc[p] = "sr_check" /\ loc' = loc
    BY <1>3 DEF StartRemovingCheck
  <2>2. LockHeld'
    BY <1>3, <2>1 DEF WritesInv, LockHeld, TypeOK, Locked
  <2>3. pc[p] \in Copying /\ pc'[p] = "sr_start"
    BY <1>3, <2>1 DEF TypeOK, Copying
  <2>4. \A q \in Procs \ {p} : pc'[q] = pc[q]
    BY <1>3 DEF TypeOK
  <2>5. \A q \in Procs : pc'[q] \in Copying => CopyIsCurrent(q)'
    <3>1. CopyIsCurrent(p)'
      BY <2>1, <2>3 DEF WritesInv, CopyIsCurrent
    <3>2. QED BY <2>1, <2>4, <3>1 DEF WritesInv, CopyIsCurrent
  <2>6. pc'[p] \notin Adding
    BY <2>3 DEF Adding
  <2>7. \A q \in Procs : CopyIsSandbox(q)'
    <3>1. CopyIsSandbox(p)'
      BY <2>3, <2>6 DEF CopyIsSandbox
    <3>2. \A q \in Procs : CopyIsSandbox(q)
      BY DEF WritesInv
    <3>3. QED BY <2>1, <2>4, <3>1, <3>2 DEF CopyIsSandbox
  <2>8. QED
    BY <1>3, <2>1, <2>2, <2>3, <2>4, <2>5, <2>6, <2>7 DEF WritesInv
<1>4. QED BY <1>1, <1>2, <1>3

\* The holder of the lock is the only one with a copy.
LEMMA HolderAlone ==
    ASSUME WritesInv, NEW p \in Procs, pc[p] \in Copying
    PROVE  \A q \in Procs \ {p} : pc[q] \notin Copying /\ pc[q] \notin Locked
BY DEF WritesInv, LockHeld, Copying, Locked

\* A copy written back under the lock.
LEMMA WriteBack ==
    ASSUME TypeOK, WritesInv, NEW p \in Procs, pc[p] \in Copying,
           rec'.ex = loc[p].sbx.ex, nextEx' = nextEx, OnlyMoves(p),
           pc'[p] \notin Copying, pc'[p] \notin Adding,
           lock' = lock \/ pc'[p] \notin Locked
    PROVE  WritesInv'
<1>1. \A q \in Procs \ {p} : pc[q] \notin Copying /\ pc[q] \notin Locked
  BY HolderAlone
<1>2. LockHeld'
  <2>1. lock = p
    BY DEF WritesInv, LockHeld, Copying, Locked
  <2>2. QED BY <1>1, <2>1 DEF OnlyMoves, LockHeld
<1>3. Writes(p)
  BY <1>1, <1>2 DEF Writes, WritesInv
<1>4. QED BY <1>3, WritesPreserves

LEMMA StartTransitionWrites ==
    ASSUME TypeOK, WritesInv, NEW p \in Procs, StartTransition(p)
    PROVE  WritesInv' /\ (rec'.ex = rec.ex => Allowed(rec.st, rec'.st))
<1>1. pc[p] = "sr_start" /\ nextEx' = nextEx /\ pc' = [pc EXCEPT ![p] = "node"]
  BY DEF StartTransition, Goto
<1>2. PICK x : rec' = [loc[p].sbx EXCEPT !.st = TargetState(loc[p].act), !.end = x]
  BY DEF StartTransition
<1>3. loc[p].sbx \in Sandboxes
  BY DEF TypeOK, Locals
<1>4. rec'.ex = loc[p].sbx.ex /\ rec'.st = TargetState(loc[p].act)
  BY <1>2, <1>3 DEF Sandboxes
<1>5. OnlyMoves(p)
  BY <1>1 DEF StartTransition, OnlyMoves, TypeOK
<1>6. pc[p] \in Copying /\ pc'[p] = "node"
  BY <1>1 DEF Copying, TypeOK
<1>7. WritesInv'
  BY <1>1, <1>4, <1>5, <1>6, WriteBack DEF Copying, Adding, Locked
<1>8. rec'.ex = rec.ex => Allowed(rec.st, rec'.st)
  BY <1>1, <1>4, <1>6 DEF WritesInv, CopyIsCurrent
<1>9. QED BY <1>7, <1>8

LEMMA RestoreWriteWrites ==
    ASSUME TypeOK, WritesInv, NEW p \in Procs, RestoreWrite(p)
    PROVE  WritesInv' /\ (rec'.ex = rec.ex /\ rec'.st # rec.st => Allowed(rec.st, rec'.st))
<1>1. /\ pc[p] = "restore_set" /\ rec' = loc[p].sbx /\ nextEx' = nextEx
      /\ pc' = [pc EXCEPT ![p] = "cb"] /\ loc' = loc
  BY DEF RestoreWrite, Goto
<1>2. OnlyMoves(p) /\ pc'[p] = "cb" /\ pc[p] \in Copying
  BY <1>1 DEF OnlyMoves, TypeOK, Copying
<1>3. WritesInv'
  BY <1>1, <1>2, WriteBack DEF Copying, Adding, Locked
<1>4. QED
  BY <1>1, <1>2, <1>3 DEF WritesInv, CopyIsCurrent, Allowed

LEMMA KeepAliveWriteWrites ==
    ASSUME TypeOK, WritesInv, NEW p \in Procs, KeepAliveWrite(p)
    PROVE  WritesInv' /\ (rec'.ex = rec.ex => rec'.st = rec.st)
<1>1. pc[p] = "upd_set" /\ rec' = loc[p].sbx /\ nextEx' = nextEx
  BY DEF KeepAliveWrite
<1>2. OnlyMoves(p) /\ (\/ pc'[p] = "upd_index" /\ lock' = lock
                       \/ pc'[p] = "idle")
  BY ReturnMoves DEF KeepAliveWrite, Goto, OnlyMoves, TypeOK
<1>3. pc[p] \in Copying
  BY <1>1 DEF Copying
<1>4. WritesInv'
  BY <1>1, <1>2, <1>3, WriteBack DEF Copying, Adding, Locked
<1>5. QED
  BY <1>1, <1>3, <1>4 DEF WritesInv, CopyIsCurrent

\* Remove needs the lock, so nobody has a copy.
LEMMA RemoveRecordWrites ==
    ASSUME TypeOK, WritesInv, NEW p \in Procs, RemoveRecord(p)
    PROVE  WritesInv' /\ ~Present(rec')
<1>1. /\ pc[p] = "rm" /\ lock = None /\ lock' = p /\ rec' = NoRec
      /\ nextEx' = nextEx /\ pc' = [pc EXCEPT ![p] = "rm_index"] /\ loc' = loc
  BY DEF RemoveRecord, Goto
<1>2. OnlyMoves(p) /\ pc'[p] = "rm_index"
  BY <1>1 DEF OnlyMoves, TypeOK
<1>3. LockHeld'
  BY <1>1, <1>2, UsesLockPreserves DEF UsesLock, WritesInv
<1>4. \A q \in Procs : pc[q] \notin Copying
  BY <1>1, ConstantsAssumption DEF WritesInv, LockHeld, Copying, Locked, Procs
<1>5. rec'.ex = 0 /\ rec'.st = "absent"
  BY <1>1 DEF NoRec
<1>6. nextEx > 0 /\ \A q \in Procs : pc[q] \in Adding => loc[q].sbx.ex > 0
  BY DEF WritesInv
<1>7. Writes(p)
  BY <1>1, <1>2, <1>3, <1>4, <1>5, <1>6 DEF Writes, Copying, Adding
<1>8. QED
  BY <1>5, <1>7, WritesPreserves DEF Present

\* Add stores an execution nobody else has.
LEMMA AddRecordWrites ==
    ASSUME TypeOK, WritesInv, NEW p \in Procs, AddRecord(p)
    PROVE  WritesInv' /\ rec'.ex # rec.ex
<1>1. /\ pc[p] = "cr_set" /\ rec' = loc[p].sbx /\ nextEx' = nextEx
      /\ pc' = [pc EXCEPT ![p] = "cr_finish"] /\ loc' = loc /\ lock' = lock
  BY DEF AddRecord, Goto
<1>2. OnlyMoves(p) /\ pc'[p] = "cr_finish" /\ pc[p] \in Adding
  BY <1>1 DEF OnlyMoves, TypeOK, Adding
<1>3. LockHeld'
  BY <1>1, <1>2, UsesLockPreserves DEF UsesLock, WritesInv, Locked
<1>4. Writes(p)
  BY <1>1, <1>2, <1>3 DEF Writes, WritesInv, Copying, Adding
<1>5. QED
  BY <1>1, <1>2, <1>4, WritesPreserves DEF WritesInv

\* PlaceSandbox names a new execution.
LEMMA PlaceWrites ==
    ASSUME TypeOK, WritesInv, NEW p \in Procs, Place(p)
    PROVE  WritesInv'
<1>1. CASE /\ \E d \in Timeouts, ap \in AutoPauses :
                loc' = [loc EXCEPT ![p].sbx =
                          [st |-> "running", start |-> now,
                           end |-> CappedEnd(now, now + d), ex |-> nextEx,
                           ap |-> ap]]
           /\ pc' = [pc EXCEPT ![p] = "cr_index"] /\ nextEx' = nextEx + 1
  <2>1. PICK e : /\ loc' = [loc EXCEPT ![p].sbx = e]
                 /\ e.ex = nextEx /\ e.st = "running"
    BY <1>1, ZenonT(60)
  <2>2. loc'[p].sbx.ex = nextEx /\ loc'[p].sbx.st = "running" /\ pc'[p] = "cr_index" /\ OnlyMoves(p)
    BY <1>1, <2>1 DEF TypeOK, Locals, OnlyMoves
  <2>3. rec' = rec /\ lock' = lock
    BY DEF Place, redisVars
  <2>4. LockHeld'
    BY <2>2, <2>3, UsesLockPreserves DEF UsesLock, Locked, WritesInv
  <2>5. nextEx \in Nat /\ rec.ex \in Nat
        /\ \A q \in Procs : loc[q].sbx.ex \in Nat
    BY DEF TypeOK, Sandboxes, Locals
  <2>6. pc'[p] \notin Copying /\ pc'[p] # "sr_start"
    BY <2>2 DEF Copying
  <2>7. \A q \in Procs \ {p} : pc'[q] = pc[q] /\ loc'[q] = loc[q]
    BY <2>2 DEF OnlyMoves
  <2>8. \A q \in Procs : pc'[q] \in Copying => CopyIsCurrent(q)'
    BY <2>3, <2>6, <2>7 DEF WritesInv, CopyIsCurrent
  <2>9. nextEx > 0 /\ rec.ex < nextEx
        /\ \A q \in Procs : pc[q] \in Copying \cup Adding => loc[q].sbx.ex < nextEx
    BY DEF WritesInv
  <2>10. \A q \in Procs : pc'[q] \in Adding =>
            loc'[q].sbx.ex > 0 /\ rec'.ex # loc'[q].sbx.ex
    BY <2>2, <2>3, <2>5, <2>7, <2>9 DEF WritesInv
  <2>11. \A q, r \in Procs :
            q # r /\ pc'[q] \in Adding /\ pc'[r] \in Copying \cup Adding
            => loc'[q].sbx.ex # loc'[r].sbx.ex
    BY <2>2, <2>5, <2>6, <2>7, <2>9 DEF WritesInv
  <2>12. \A q \in Procs : pc'[q] \in Copying \cup Adding => loc'[q].sbx.ex < nextEx'
    BY <1>1, <2>2, <2>5, <2>6, <2>7, <2>9
  <2>13. \A q \in Procs :
            pc'[q] = "sr_start" => Allowed(loc'[q].sbx.st, TargetState(loc'[q].act))
    BY <2>6, <2>7 DEF WritesInv
  <2>14. nextEx' > 0 /\ rec'.ex < nextEx'
    BY <1>1, <2>3, <2>5, <2>9
  <2>15. \A q \in Procs : CopyIsSandbox(q)'
    <3>1. CopyIsSandbox(p)'
      BY <2>2 DEF CopyIsSandbox
    <3>2. \A q \in Procs : CopyIsSandbox(q)
      BY DEF WritesInv
    <3>3. QED BY <2>7, <3>1, <3>2 DEF CopyIsSandbox
  <2>16. QED
    BY <2>4, <2>8, <2>10, <2>11, <2>12, <2>13, <2>14, <2>15 DEF WritesInv
<1>2. CASE pc' = [pc EXCEPT ![p] = "cr_finish"] /\ UNCHANGED nextEx
  <2>1. Calm(p)
    BY <1>2 DEF Place, Goto, Calm, OnlyMoves, UsesLock, TypeOK, Locals, Locked,
                Copying, Adding, redisVars
  <2>2. QED BY <2>1, CalmPreserves
<1>3. QED BY <1>1, <1>2 DEF Place, Goto

\* The steps that belong to no process do not touch the record.
LEMMA EnvironmentWrites ==
    ASSUME WritesInv, Tick \/ Expiry \/ Quiescent \/ UNCHANGED vars
    PROVE  WritesInv' /\ rec' = rec
<1>1. UNCHANGED <<rec, nextEx, pc, loc>>
  BY DEF Tick, Expiry, LockExpires, TransitionKeyExpires, ResultKeyExpires,
         PendingExpires, Quiescent, vars, redisVars
<1>2. lock' = lock \/ (lock # None /\ pc[lock] = "crashed")
  BY DEF Tick, Expiry, LockExpires, TransitionKeyExpires, ResultKeyExpires,
         PendingExpires, Quiescent, vars, redisVars
<1>3. LockHeld'
  BY <1>1, <1>2 DEF WritesInv, LockHeld, Locked
<1>4. \A q \in Procs : CopyIsCurrent(q)' <=> CopyIsCurrent(q)
  BY <1>1 DEF CopyIsCurrent
<1>5. \A q \in Procs : CopyIsSandbox(q)' <=> CopyIsSandbox(q)
  BY <1>1 DEF CopyIsSandbox
<1>6. QED
  BY <1>1, <1>3, <1>4, <1>5 DEF WritesInv

\* The state change that StateChangesAllowed allows in one step.
StateChange ==
    Present(rec) /\ Present(rec') /\ rec'.ex = rec.ex /\ rec'.st # rec.st
        => Allowed(rec.st, rec'.st)

LEMMA StepWrites ==
    ASSUME TypeOK, WritesInv, [Next]_vars
    PROVE  WritesInv' /\ StateChange
<1>1. ASSUME NEW p \in Procs, Begin(p) \/ StorageStep(p) \/ Cancel(p) \/ Crash(p)
      PROVE  WritesInv' /\ StateChange
  <2>1. CASE Begin(p) \/ Cancel(p) \/ CalmStep(p)
    <3>1. Calm(p)
      BY <2>1, BeginCalm, CancelCalm, CalmSteps
    <3>2. QED BY <3>1, CalmPreserves DEF Calm, StateChange
  <2>2. CASE StartRemovingRead(p) \/ StartRemovingCheck(p) \/ KeepAliveRead(p)
             \/ RestoreRead(p) \/ Place(p)
    <3>1. rec' = rec
      BY <2>2 DEF StartRemovingRead, StartRemovingCheck, KeepAliveRead,
                  RestoreRead, Place, redisVars
    <3>2. QED
      BY <2>2, <3>1, StartRemovingReadWrites, StartRemovingCheckWrites,
         KeepAliveReadWrites, RestoreReadWrites, PlaceWrites DEF StateChange
  <2>3. CASE StartTransition(p) \/ RestoreWrite(p) \/ KeepAliveWrite(p)
             \/ RemoveRecord(p) \/ AddRecord(p)
    BY <2>3, StartTransitionWrites, RestoreWriteWrites, KeepAliveWriteWrites,
       RemoveRecordWrites, AddRecordWrites DEF StateChange
  <2>4. QED
    BY <1>1, <2>1, <2>2, <2>3 DEF StorageStep, CalmStep
<1>2. CASE Tick \/ Expiry \/ Quiescent \/ UNCHANGED vars
  BY <1>2, EnvironmentWrites DEF StateChange
<1>3. QED BY <1>1, <1>2 DEF Next

LEMMA InitWrites == Init => WritesInv
<1>. SUFFICES ASSUME Init PROVE WritesInv
  OBVIOUS
<1>1. nextEx = 2 /\ rec.ex = 1 /\ \A p \in Procs : pc[p] = "idle"
  BY DEF Init
<1>2. QED
  BY <1>1 DEF WritesInv, LockHeld, Locked, Copying, Adding, CopyIsSandbox

LEMMA WritesInvariant == Spec => []WritesInv
<1>1. TypeOK /\ WritesInv /\ [Next]_vars => WritesInv'
  BY StepWrites
<1>2. QED
  BY <1>1, InitWrites, TypeCorrect, PTL DEF Spec

\* Whatever overlaps, expires, crashes or is cancelled, one execution's state
\* changes only along AllowedTransitions: in particular a sandbox that is
\* being killed never goes back to running (states.go, state_change.go).
THEOREM StateChangesAreAllowed == Spec => StateChangesAllowed
<1>1. TypeOK /\ WritesInv /\ [Next]_vars => [StateChange]_vars
  BY StepWrites
<1>2. QED
  BY <1>1, WritesInvariant, TypeCorrect, PTL DEF Spec, StateChangesAllowed, StateChange
=============================================================================
