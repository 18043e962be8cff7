------------------------- MODULE SandboxPromiseProofs -------------------------
(***************************************************************************)
(* What the Redis store promises its callers: end times within the team's  *)
(* limit, evictions of expired sandboxes only, the life of a record as     *)
(* Lifecycle describes it, and answers to a pause that are true.           *)
(***************************************************************************)
EXTENDS SandboxWriteProofs, FiniteSetTheorems

-----------------------------------------------------------------------------
(* End times.                                                              *)

Short(r) == r.end <= r.start + MaxInstanceLength

\* Every copy of the record is as short as the record, whoever writes it back and
\* when; and no request is ahead of the clock, which KeepAliveFor relies on when
\* it adds the time that is left to the time it began.
EndInv ==
    /\ Short(rec)
    /\ \A p \in Procs : Short(loc[p].sbx) /\ loc[p].at <= now

\* A step of p that drops or keeps its copy.
Tame(p) ==
    /\ rec' = rec /\ now' = now
    /\ OnlyMoves(p)
    /\ loc'[p].sbx \in {loc[p].sbx, NoRec}
    /\ loc'[p].at \in {loc[p].at, now, 0}

LEMMA ReturnLocals ==
    ASSUME TypeOK, NEW p \in Procs, NEW o, Return(p, o)
    PROVE  /\ OnlyMoves(p) /\ pc'[p] = "idle"
           /\ loc'[p].sbx = NoRec /\ loc'[p].at = 0 /\ loc'[p].req = "none"
           /\ loc'[p].act = "kill" /\ loc'[p].out = o
<1>1. loc'[p] = [IdleLocals(loc[p].budget) EXCEPT !.out = o]
  BY DEF Return, TypeOK
<1> QED
  BY <1>1, ReturnMoves DEF IdleLocals

LEMMA RemovedLocals ==
    ASSUME TypeOK, NEW p \in Procs, NEW o, Removed(p, o)
    PROVE  /\ OnlyMoves(p)
           /\ loc'[p].sbx \in {loc[p].sbx, NoRec} /\ loc'[p].at \in {loc[p].at, 0}
BY RemovedMoves, ReturnLocals DEF Removed

LEMMA CallbackReturnsLocals ==
    ASSUME TypeOK, NEW p \in Procs, CallbackReturns(p)
    PROVE  /\ OnlyMoves(p)
           /\ loc'[p].sbx \in {loc[p].sbx, NoRec} /\ loc'[p].at \in {loc[p].at, 0}
<1>1. CASE Return(p, "error") \/ Removed(p, "ok")
  BY <1>1, ReturnLocals, RemovedLocals
<1>2. CASE /\ Goto(p, "sr_lock")
           /\ loc' = [loc EXCEPT ![p] = [loc[p] EXCEPT !.act = "kill", !.err = "nil"]]
  <2>1. loc'[p].sbx = loc[p].sbx /\ loc'[p].at = loc[p].at
    BY <1>2 DEF TypeOK, Locals
  <2> QED
    BY <1>2, <2>1, CallbackReturnsMoves
<1> QED
  BY <1>1, <1>2 DEF CallbackReturns

TameStep(p) == CalmStep(p) \/ StartRemovingCheck(p)

LEMMA TameSteps ==
    ASSUME TypeOK, NEW p \in Procs, TameStep(p)
    PROVE  Tame(p)
<1> USE DEF Tame, OnlyMoves, Goto, TypeOK, Locals, redisVars, nodeVars
<1>1. CASE WaitTransition(p)
  BY <1>1, ReturnLocals, RemovedLocals DEF WaitTransition, Waiting
<1>2. CASE FailedReturn(p)
  BY <1>2, ReturnLocals, RemovedLocals DEF FailedReturn
<1>3. CASE KillOnNode(p)
  BY <1>3 DEF KillOnNode
<1>4. CASE PauseOnNode(p)
  BY <1>4 DEF PauseOnNode
<1>5. CASE CheckpointOnNode(p)
  BY <1>5 DEF CheckpointOnNode
<1>6. CASE RemoveIndex(p) \/ ReleaseReservation(p)
  BY <1>6 DEF RemoveIndex, ReleaseReservation
<1>7. CASE CancelledRemoval(p)
  BY <1>7, ReturnLocals DEF CancelledRemoval
<1>8. CASE CallbackResult(p)
  BY <1>8 DEF CallbackResult
<1>9. CASE DeleteSnapshot(p) \/ KeepAliveIndex(p) \/ WaitForStart(p)
  BY <1>9, ReturnLocals DEF DeleteSnapshot, KeepAliveIndex, WaitForStart
<1>10. CASE ResumeGet(p) \/ ResumeSnapshot(p) \/ Reserve(p)
  BY <1>10, ReturnLocals DEF ResumeGet, ResumeSnapshot, Reserve
<1>11. CASE ResumeWait(p)
  BY <1>11 DEF ResumeWait
<1>12. CASE AddIndex(p) \/ FailedAdd(p)
  BY <1>12 DEF AddIndex, FailedAdd
<1>13. CASE FinishStart(p)
  BY <1>13, ReturnLocals DEF FinishStart
<1>14. CASE UndoPlace(p)
  BY <1>14, ReturnLocals DEF UndoPlace
<1>15. CASE EvictScan(p)
  BY <1>15 DEF EvictScan
<1>16. CASE EvictGet(p)
  <2>1. CASE Return(p, "none")
    BY <1>16, <2>1, ReturnLocals DEF EvictGet
  <2>2. CASE Goto(p, "ev_zrem") /\ loc' = loc
    BY <1>16, <2>2 DEF EvictGet
  <2>3. ASSUME NEW a, Goto(p, "sr_lock"),
               loc' = [loc EXCEPT ![p] = [loc[p] EXCEPT !.req = "evict", !.act = a]]
        PROVE  Tame(p)
    <3>1. loc'[p].sbx = loc[p].sbx /\ loc'[p].at = loc[p].at
      BY <2>3
    <3> QED
      BY <1>16, <2>3, <3>1 DEF EvictGet
  <2> QED
    BY <1>16, <2>1, <2>2, <2>3 DEF EvictGet
<1>17. CASE EvictOrphan(p)
  BY <1>17, ReturnLocals DEF EvictOrphan
<1>18. CASE Crash(p)
  BY <1>18 DEF Crash
<1>19. CASE CallbackDelete(p)
  BY <1>19, CallbackReturnsLocals DEF CallbackDelete
<1>20. CASE StartRemovingCheck(p)
  BY <1>20, ReturnLocals, RemovedLocals DEF StartRemovingCheck
<1>21. CASE OwnerCommandFails(p)
  <2>1. CASE CallbackReturns(p)
    BY <1>21, <2>1, CallbackReturnsLocals DEF OwnerCommandFails
  <2>2. CASE loc' = [loc EXCEPT ![p].err = "restore"] /\ Goto(p, "cb")
    BY <1>21, <2>2 DEF OwnerCommandFails
  <2>3. CASE loc' = loc /\ (Goto(p, "rm_release") \/ Goto(p, "cb"))
    BY <1>21, <2>3 DEF OwnerCommandFails
  <2> QED
    BY <1>21, <2>1, <2>2, <2>3 DEF OwnerCommandFails
<1> QED
  BY <1>1, <1>2, <1>3, <1>4, <1>5, <1>6, <1>7, <1>8, <1>9, <1>10, <1>11, <1>12, <1>13,
     <1>14, <1>15, <1>16, <1>17, <1>18, <1>19, <1>20, <1>21 DEF TameStep, CalmStep

LEMMA BeginTame ==
    ASSUME TypeOK, NEW p \in Procs, Begin(p) \/ Cancel(p)
    PROVE  Tame(p)
<1>1. CASE Begin(p)
  <2>1. PICK r \in Requests :
          loc' = [loc EXCEPT ![p] = [IdleLocals(loc[p].budget - 1) EXCEPT
                     !.req = r, !.act = IF r \in Actions THEN r ELSE "kill", !.at = now]]
    BY <1>1 DEF Begin
  <2>2. loc'[p] = [IdleLocals(loc[p].budget - 1) EXCEPT
                     !.req = r, !.act = IF r \in Actions THEN r ELSE "kill", !.at = now]
    BY <2>1 DEF TypeOK
  <2>3. loc'[p].sbx = NoRec /\ loc'[p].at = now
    BY <2>2 DEF IdleLocals
  <2>4. OnlyMoves(p) /\ rec' = rec /\ now' = now
    BY <1>1, BeginCalm DEF Calm, Begin
  <2> QED
    BY <2>3, <2>4 DEF Tame
<1>2. CASE Cancel(p)
  BY <1>2 DEF Cancel, Tame, OnlyMoves, TypeOK, Locals, redisVars
<1> QED
  BY <1>1, <1>2

LEMMA ShortNone == Short(NoRec)
BY ConstantsAssumption DEF Short, NoRec

\* A step of p that ends with short records.
LEMMA EndPreserved ==
    ASSUME TypeOK, EndInv, NEW p \in Procs, OnlyMoves(p), now' = now, Short(rec'),
           Short(loc'[p].sbx), loc'[p].at \in {loc[p].at, now, 0}
    PROVE  EndInv'
<1>1. now \in Nat /\ loc[p].at \in Nat
  BY DEF TypeOK, Locals
<1>2. loc'[p].at <= now'
  BY <1>1 DEF EndInv
<1> QED
  BY <1>2 DEF EndInv, OnlyMoves, Short

\* getMaxAllowedTTL: the new end is within the limit although the request may
\* have begun long before it got the lock.
LEMMA ExtensionIsShort ==
    ASSUME NEW at \in Nat, NEW t \in Nat, NEW start \in Nat, NEW d \in Nat,
           at <= t, t - start <= MaxInstanceLength
    PROVE  at + MaxAllowedTTL(at, start, d) <= start + MaxInstanceLength
BY ConstantsAssumption DEF MaxAllowedTTL

LEMMA KeepAliveReadEnd ==
    ASSUME TypeOK, EndInv, NEW p \in Procs, KeepAliveRead(p)
    PROVE  EndInv'
<1>1. rec' = rec /\ now' = now
  BY DEF KeepAliveRead
<1>2. CASE Return(p, "error")
  BY <1>1, <1>2, ReturnLocals, ShortNone, EndPreserved DEF EndInv
<1>3. ASSUME NEW d \in Timeouts, NEW r, now - rec.start <= MaxInstanceLength,
             loc' = [loc EXCEPT ![p] = [@ EXCEPT !.sbx = r, !.old = rec.end]],
             Goto(p, "upd_set"),
             r = rec \/ r = [rec EXCEPT !.end = loc[p].at + MaxAllowedTTL(loc[p].at, rec.start, d)]
      PROVE  EndInv'
  <2>1. loc[p].at \in Nat /\ now \in Nat /\ rec.start \in Nat /\ d \in Nat /\ loc[p].at <= now
    BY ConstantsAssumption DEF TypeOK, Locals, Sandboxes, EndInv
  <2>2. loc[p].at + MaxAllowedTTL(loc[p].at, rec.start, d) <= rec.start + MaxInstanceLength
    BY <1>3, <2>1, ExtensionIsShort
  <2> DEFINE e == loc[p].at + MaxAllowedTTL(loc[p].at, rec.start, d)
  <2>3. r = rec \/ r = [rec EXCEPT !.end = e]
    BY <1>3
  <2>4. e <= rec.start + MaxInstanceLength
    BY <2>2
  <2> HIDE DEF e
  <2>5. Short(r)
    BY <2>3, <2>4 DEF Short, TypeOK, Sandboxes, EndInv
  <2>6. loc'[p].sbx = r /\ loc'[p].at = loc[p].at /\ OnlyMoves(p)
    BY <1>3 DEF TypeOK, Locals, OnlyMoves, Goto
  <2> QED
    BY <1>1, <2>5, <2>6, EndPreserved DEF EndInv
<1> QED
  BY <1>2, <1>3 DEF KeepAliveRead

LEMMA StartTransitionEnd ==
    ASSUME TypeOK, EndInv, NEW p \in Procs, StartTransition(p)
    PROVE  EndInv'
<1> DEFINE s == loc[p].sbx
           x == IF Transient(loc[p].act) \/ Expired(s, now) THEN s.end ELSE now
           u == [s EXCEPT !.st = TargetState(loc[p].act), !.end = x]
<1>1. /\ rec' = u /\ now' = now
      /\ loc' = [loc EXCEPT ![p] = [loc[p] EXCEPT !.sbx = u, !.tid = nextTid]]
  BY DEF StartTransition
<1>2. s \in Sandboxes /\ now \in Nat /\ loc[p] \in Locals
  BY DEF TypeOK, Locals
<1>3. x <= s.end
  BY <1>2 DEF Expired, Sandboxes
<1>4. u.start = s.start /\ u.end = x
  BY <1>2 DEF Sandboxes
<1>5. Short(u)
  <2>1. s.end \in Nat /\ s.start \in Nat /\ x \in Nat /\ s.end <= s.start + MaxInstanceLength
    BY <1>2 DEF Sandboxes, EndInv, Short
  <2> QED
    BY <1>3, <1>4, <2>1, ConstantsAssumption DEF Short
<1> HIDE DEF u
<1>6. loc'[p].sbx = u /\ loc'[p].at = loc[p].at
  BY <1>1, <1>2 DEF TypeOK, Locals
<1>7. OnlyMoves(p)
  BY <1>1 DEF StartTransition, Goto, OnlyMoves, TypeOK
<1> QED
  BY <1>1, <1>5, <1>6, <1>7, EndPreserved

LEMMA PlaceEnd ==
    ASSUME TypeOK, EndInv, NEW p \in Procs, Place(p)
    PROVE  EndInv'
<1>1. rec' = rec /\ now' = now /\ OnlyMoves(p)
  BY DEF Place, Goto, OnlyMoves, TypeOK, redisVars
<1>2. CASE loc' = [loc EXCEPT ![p].err = "failed"]
  <2>1. loc'[p].sbx = loc[p].sbx /\ loc'[p].at = loc[p].at
    BY <1>2 DEF TypeOK, Locals
  <2> QED
    BY <1>1, <2>1, EndPreserved DEF EndInv
<1>3. ASSUME NEW d \in Timeouts, NEW ap \in AutoPauses,
             loc' = [loc EXCEPT ![p].sbx =
                       [st |-> "running", start |-> now, end |-> CappedEnd(now, now + d),
                        ex |-> nextEx, ap |-> ap]]
      PROVE  EndInv'
  <2> DEFINE r == [st |-> "running", start |-> now, end |-> CappedEnd(now, now + d),
                   ex |-> nextEx, ap |-> ap]
  <2>1. now \in Nat /\ d \in Nat
    BY ConstantsAssumption DEF TypeOK
  <2>2. CappedEnd(now, now + d) <= now + MaxInstanceLength
    BY <2>1, ConstantsAssumption DEF CappedEnd
  <2>3. Short(r)
    BY <2>2 DEF Short
  <2>4. loc' = [loc EXCEPT ![p].sbx = r]
    BY <1>3
  <2> HIDE DEF r
  <2>5. loc'[p].sbx = r /\ loc'[p].at = loc[p].at
    BY <2>4 DEF TypeOK, Locals
  <2> QED
    BY <1>1, <2>3, <2>5, EndPreserved DEF EndInv
<1> QED
  BY <1>2, <1>3 DEF Place

\* The copy that is written back, or dropped, or taken.
LEMMA CopyEnd ==
    ASSUME TypeOK, EndInv, NEW p \in Procs,
           \/ StartRemovingRead(p) \/ RestoreRead(p) \/ RestoreWrite(p) \/ KeepAliveWrite(p)
           \/ RemoveRecord(p) \/ AddRecord(p)
    PROVE  EndInv'
<1>1. rec' \in {rec, loc[p].sbx, NoRec} /\ now' = now
  BY DEF StartRemovingRead, RestoreRead, RestoreWrite, KeepAliveWrite, RemoveRecord, AddRecord
<1>2. OnlyMoves(p)
  BY ReturnMoves, RemovedMoves
     DEF StartRemovingRead, RestoreRead, RestoreWrite, KeepAliveWrite, RemoveRecord, AddRecord,
         OnlyMoves, Goto, TypeOK
<1>3. loc'[p].at \in {loc[p].at, 0}
  BY ReturnLocals, RemovedLocals
     DEF StartRemovingRead, RestoreRead, RestoreWrite, KeepAliveWrite, RemoveRecord, AddRecord,
         TypeOK, Locals
<1>4. loc'[p].sbx \in {loc[p].sbx, NoRec, rec, Restored(rec)}
  BY ReturnLocals, RemovedLocals
     DEF StartRemovingRead, RestoreRead, RestoreWrite, KeepAliveWrite, RemoveRecord, AddRecord,
         TypeOK, Locals
<1>5. Short(Restored(rec))
  BY DEF EndInv, Short, Restored, TypeOK, Sandboxes
<1> QED
  BY <1>1, <1>2, <1>3, <1>4, <1>5, ShortNone, EndPreserved DEF EndInv

LEMMA EndStep ==
    ASSUME TypeOK, EndInv, [Next]_vars
    PROVE  EndInv'
<1>1. ASSUME NEW p \in Procs, Tame(p)
      PROVE  EndInv'
  BY <1>1, ShortNone, EndPreserved DEF Tame, EndInv
<1>2. ASSUME NEW p \in Procs, StorageStep(p)
      PROVE  EndInv'
  BY <1>1, <1>2, TameSteps, KeepAliveReadEnd, StartTransitionEnd, PlaceEnd, CopyEnd
     DEF StorageStep, TameStep, CalmStep
<1>3. ASSUME NEW p \in Procs, Crash(p)
      PROVE  EndInv'
  BY <1>1, <1>3, TameSteps DEF TameStep, CalmStep
<1>4. CASE Tick \/ Expiry \/ Quiescent \/ UNCHANGED vars
  <2>1. UNCHANGED <<rec, loc>> /\ now' \in {now, now + 1}
    BY <1>4 DEF Tick, Expiry, LockExpires, TransitionKeyExpires, ResultKeyExpires,
                PendingExpires, Quiescent, vars, redisVars
  <2>2. now \in Nat /\ \A p \in Procs : loc[p].at \in Nat
    BY DEF TypeOK, Locals
  <2>3. \A p \in Procs : loc[p].at <= now'
    BY <2>1, <2>2 DEF EndInv
  <2> QED
    BY <2>1, <2>3 DEF EndInv, Short
<1> QED
  BY <1>1, <1>2, <1>3, <1>4, BeginTame DEF Next

\* No sequence of creations and extensions keeps a sandbox longer than the team's
\* limit: not a keepalive that computed its end long ago, not a copy that is
\* written back after an extension (Store.Add, getMaxAllowedTTL, state_change.go).
THEOREM EndsWithinLimit == Spec => []EndWithinMaxLength
<1>1. Init => EndInv
  <2> SUFFICES ASSUME Init PROVE EndInv
    OBVIOUS
  <2>1. Short(rec)
    BY ConstantsAssumption DEF Init, Short
  <2>2. \A p \in Procs : loc[p].sbx = NoRec /\ loc[p].at = 0 /\ now = 0
    BY DEF Init, IdleLocals
  <2> QED
    BY <2>1, <2>2, ShortNone DEF EndInv
<1>2. EndInv => EndWithinMaxLength
  BY DEF EndInv, Short, EndWithinMaxLength
<1> QED
  BY <1>1, <1>2, EndStep, TypeCorrect, PTL DEF Spec

-----------------------------------------------------------------------------
(* Evictions.                                                              *)

\* StartRemoving between its read of the record and its write.
Deciding == {"sr_check", "sr_start"}

\* The copy an eviction decides on has the end time that is stored, unless Add has
\* put another execution there; and once it has decided, the copy stays expired.
EvictInv ==
    \A p \in Procs :
        /\ pc[p] \in Deciding /\ rec.ex = loc[p].sbx.ex => rec.end = loc[p].sbx.end
        /\ pc[p] = "sr_start" /\ loc[p].req = "evict" => Expired(loc[p].sbx, now)

\* p has read the record just now, or still has what it read.
Decides(p) ==
    \/ pc'[p] = "sr_check" /\ loc'[p].sbx = rec /\ rec' = rec
    \/ /\ pc[p] \in Deciding
       /\ loc'[p].sbx = loc[p].sbx /\ loc'[p].req = loc[p].req
       /\ rec' = rec \/ rec'.ex # loc[p].sbx.ex
       /\ \/ pc'[p] = "sr_check" \/ pc[p] = "sr_start"
          \/ loc[p].req = "evict" => Expired(loc[p].sbx, now)

\* Who decides holds the lock: only an Add writes meanwhile.
LEMMA OthersWrite ==
    ASSUME TypeOK, WritesInv, NEW p \in Procs, NEW q \in Procs \ {p}, pc[p] \in Copying,
           Begin(q) \/ StorageStep(q) \/ Cancel(q) \/ Crash(q)
    PROVE  rec' = rec \/ rec'.ex # loc[p].sbx.ex
<1>1. pc[q] \notin Copying /\ lock # None
  <2>1. pc[q] \notin Copying
    BY HolderAlone
  <2>2. lock = p
    BY DEF WritesInv, LockHeld, Copying, Locked
  <2> QED
    BY <2>1, <2>2, ConstantsAssumption DEF Procs
<1>2. CASE AddRecord(q)
  <2>1. rec' = loc[q].sbx /\ pc[q] \in Adding
    BY <1>2 DEF AddRecord, Adding
  <2> QED
    BY <2>1 DEF WritesInv
<1>3. CASE Begin(q) \/ Cancel(q) \/ CalmStep(q)
  BY <1>3, BeginCalm, CancelCalm, CalmSteps DEF Calm
<1>4. CASE StartRemovingRead(q) \/ StartRemovingCheck(q) \/ KeepAliveRead(q) \/ RestoreRead(q) \/ Place(q)
  BY <1>4 DEF StartRemovingRead, StartRemovingCheck, KeepAliveRead, RestoreRead, Place, redisVars
<1>5. ~(StartTransition(q) \/ RestoreWrite(q) \/ KeepAliveWrite(q) \/ RemoveRecord(q))
  BY <1>1 DEF StartTransition, RestoreWrite, KeepAliveWrite, RemoveRecord, Copying
<1> QED
  BY <1>2, <1>3, <1>4, <1>5 DEF StorageStep, CalmStep

\* The steps of a process by which it can be deciding afterwards.
LEMMA OwnDecision ==
    ASSUME TypeOK, NEW p \in Procs, Begin(p) \/ StorageStep(p) \/ Cancel(p) \/ Crash(p),
           pc'[p] \in Deciding
    PROVE  Decides(p)
<1>1. CASE StartRemovingRead(p)
  <2>1. CASE Present(rec)
    BY <1>1, <2>1 DEF StartRemovingRead, Decides, Goto, TypeOK, Locals
  <2>2. CASE ~Present(rec)
    BY <1>1, <2>2, RemovedMoves DEF StartRemovingRead, Deciding
  <2> QED
    BY <2>1, <2>2
<1>2. CASE StartRemovingCheck(p)
  <2>1. CASE Goto(p, "sr_start") /\ loc' = loc
    <3>1. pc[p] = "sr_check" /\ rec' = rec
      BY <1>2 DEF StartRemovingCheck
    <3>2. loc[p].req = "evict" => Expired(loc[p].sbx, now)
      <4>1. CASE Return(p, "error")
        BY <4>1, ReturnMoves DEF Deciding
      <4>2. CASE loc[p].req = "evict" => Evictable(loc[p].sbx)
        BY <4>2 DEF Evictable
      <4> QED
        BY <1>2, <4>1, <4>2 DEF StartRemovingCheck
    <3> QED
      BY <2>1, <3>1, <3>2 DEF Decides, Deciding
  <2>2. CASE Return(p, "error") \/ Removed(p, "ok")
    BY <2>2, ReturnMoves, RemovedMoves DEF Deciding
  <2>3. CASE Goto(p, "wait_same") \/ Goto(p, "wait_diff")
    BY <2>3 DEF Goto, TypeOK, Deciding
  <2> QED
    BY <1>2, <2>1, <2>2, <2>3 DEF StartRemovingCheck
<1>3. CASE Cancel(p)
  <2>1. loc' = [loc EXCEPT ![p].ctx = "cancelled"] /\ pc' = pc /\ rec' = rec
    BY <1>3 DEF Cancel, redisVars
  <2>2. loc'[p].sbx = loc[p].sbx /\ loc'[p].req = loc[p].req
    BY <2>1 DEF TypeOK, Locals
  <2> QED
    BY <2>1, <2>2 DEF Decides, Deciding
<1>4. CASE Begin(p) \/ CalmStep(p)
  <2>1. Calm(p)
    BY <1>4, BeginCalm, CalmSteps
  <2>2. pc[p] \in Deciding
    BY <2>1 DEF Calm, Copying, Deciding
  <2>3. Return(p, "error") \/ Removed(p, "ok") \/ Crash(p)
    BY <1>4, <2>2
       DEF Begin, CalmStep, WaitTransition, FailedReturn, KillOnNode, PauseOnNode,
           CheckpointOnNode, RemoveIndex, ReleaseReservation, CancelledRemoval, CallbackResult,
           DeleteSnapshot, KeepAliveIndex, ResumeGet, ResumeWait, ResumeSnapshot, Reserve,
           WaitForStart, AddIndex, FailedAdd, FinishStart, UndoPlace, EvictScan, EvictGet,
           EvictOrphan, CallbackDelete, OwnerCommandFails, Waiting, Deciding
  <2> QED
    BY <2>3, ReturnMoves, RemovedMoves DEF Crash, Goto, TypeOK, Deciding
<1>5. CASE StartTransition(p) \/ RemoveRecord(p) \/ Place(p) \/ AddRecord(p)
  BY <1>5 DEF StartTransition, RemoveRecord, Place, AddRecord, Goto, TypeOK, Deciding
<1>6. CASE RestoreRead(p) \/ RestoreWrite(p) \/ KeepAliveRead(p) \/ KeepAliveWrite(p)
  <2>1. pc'[p] \in {"cb", "restore_set", "cb_del", "upd_set", "upd_index", "idle"}
    BY <1>6, ReturnMoves
       DEF RestoreRead, RestoreWrite, KeepAliveRead, KeepAliveWrite, Goto, TypeOK
  <2> QED
    BY <2>1 DEF Deciding
<1> QED
  BY <1>1, <1>2, <1>3, <1>4, <1>5, <1>6 DEF StorageStep, CalmStep

LEMMA DecisionStep ==
    ASSUME TypeOK, WritesInv, [Next]_vars, NEW p \in Procs, pc'[p] \in Deciding
    PROVE  Decides(p)
<1>1. ASSUME NEW q \in Procs \ {p}, Begin(q) \/ StorageStep(q) \/ Cancel(q) \/ Crash(q)
      PROVE  Decides(p)
  <2>1. OnlyMoves(q)
    <3>1. CASE Begin(q) \/ Cancel(q) \/ QuietStep(q)
      BY <3>1, BeginQuiet, CancelQuiet, QuietSteps DEF Quiet
    <3>2. CASE StartRemovingCheck(q) \/ StartTransition(q) \/ CallbackDelete(q)
      BY <3>2, ReturnMoves, RemovedMoves, CallbackReturnsMoves
         DEF StartRemovingCheck, StartTransition, CallbackDelete, OnlyMoves, Goto, TypeOK
    <3> QED
      BY <1>1, <3>1, <3>2 DEF StorageStep, QuietStep
  <2>2. pc'[p] = pc[p] /\ loc'[p] = loc[p] /\ pc[p] \in Copying
    BY <2>1 DEF OnlyMoves, Deciding, Copying
  <2>3. rec' = rec \/ rec'.ex # loc[p].sbx.ex
    BY <1>1, <2>2, OthersWrite
  <2> QED
    BY <2>2, <2>3 DEF Decides, Deciding
<1>2. CASE Tick \/ Expiry \/ Quiescent \/ UNCHANGED vars
  <2>1. UNCHANGED <<rec, pc, loc>>
    BY <1>2 DEF Tick, Expiry, LockExpires, TransitionKeyExpires, ResultKeyExpires,
                PendingExpires, Quiescent, vars, redisVars
  <2> QED
    BY <2>1 DEF Decides, Deciding
<1> QED
  BY <1>1, <1>2, OwnDecision DEF Next

\* Only Tick moves the clock.
LEMMA ClockStands ==
    ASSUME NEW p \in Procs, Begin(p) \/ StorageStep(p) \/ Cancel(p) \/ Crash(p)
    PROVE  now' = now
<1>1. CASE Begin(p) \/ Cancel(p) \/ Crash(p)
  BY <1>1 DEF Begin, Cancel, Crash
<1>2. CASE \/ StartRemovingRead(p) \/ StartRemovingCheck(p) \/ StartTransition(p)
           \/ WaitTransition(p) \/ FailedReturn(p) \/ KillOnNode(p) \/ PauseOnNode(p)
           \/ CheckpointOnNode(p) \/ RemoveRecord(p) \/ RemoveIndex(p)
           \/ ReleaseReservation(p) \/ CancelledRemoval(p)
  BY <1>2 DEF StartRemovingRead, StartRemovingCheck, StartTransition, WaitTransition,
       FailedReturn, KillOnNode, PauseOnNode, CheckpointOnNode, RemoveRecord, RemoveIndex,
       ReleaseReservation, CancelledRemoval
<1>3. CASE \/ RestoreRead(p) \/ RestoreWrite(p) \/ CallbackResult(p) \/ CallbackDelete(p)
           \/ DeleteSnapshot(p) \/ KeepAliveRead(p) \/ KeepAliveWrite(p) \/ KeepAliveIndex(p)
           \/ ResumeGet(p) \/ ResumeWait(p) \/ ResumeSnapshot(p) \/ Reserve(p)
  BY <1>3 DEF RestoreRead, RestoreWrite, CallbackResult, CallbackDelete, DeleteSnapshot,
       KeepAliveRead, KeepAliveWrite, KeepAliveIndex, ResumeGet, ResumeWait, ResumeSnapshot,
       Reserve
<1>4. CASE \/ WaitForStart(p) \/ Place(p) \/ AddIndex(p) \/ AddRecord(p) \/ FailedAdd(p)
           \/ FinishStart(p) \/ UndoPlace(p) \/ EvictScan(p) \/ EvictGet(p) \/ EvictOrphan(p)
           \/ OwnerCommandFails(p)
  BY <1>4 DEF OwnerCommandFails, WaitForStart, Place, AddIndex, AddRecord, FailedAdd, FinishStart, UndoPlace,
       EvictScan, EvictGet, EvictOrphan
<1> QED
  BY <1>1, <1>2, <1>3, <1>4 DEF StorageStep

LEMMA EvictStep ==
    ASSUME TypeOK, TypeOK', WritesInv, EvictInv, [Next]_vars
    PROVE  EvictInv'
<1> SUFFICES ASSUME NEW p \in Procs
             PROVE  /\ pc'[p] \in Deciding /\ rec'.ex = loc'[p].sbx.ex =>
                          rec'.end = loc'[p].sbx.end
                    /\ pc'[p] = "sr_start" /\ loc'[p].req = "evict" =>
                          Expired(loc'[p].sbx, now')
  BY DEF EvictInv
<1>1. pc'[p] \in Deciding => Decides(p)
  BY DecisionStep
<1>2. now \in Nat /\ now' \in Nat /\ now' >= now /\ loc[p].sbx.end \in Nat
  <2>1. ASSUME NEW q \in Procs, Begin(q) \/ StorageStep(q) \/ Cancel(q) \/ Crash(q)
        PROVE  now' = now
    BY <2>1, ClockStands
  <2>2. ASSUME Tick \/ Expiry \/ Quiescent \/ UNCHANGED vars
        PROVE  now' \in {now, now + 1}
    BY <2>2 DEF Tick, Expiry, LockExpires, TransitionKeyExpires, ResultKeyExpires,
                PendingExpires, Quiescent, vars
  <2>3. now' \in {now, now + 1}
    BY <2>1, <2>2 DEF Next
  <2> QED
    BY <2>3 DEF TypeOK, Locals, Sandboxes
<1>3. ASSUME Expired(loc[p].sbx, now)
      PROVE  Expired(loc[p].sbx, now')
  BY <1>2, <1>3 DEF Expired
<1>4. pc[p] \in Deciding /\ rec.ex = loc[p].sbx.ex => rec.end = loc[p].sbx.end
  BY DEF EvictInv
<1>5. pc[p] = "sr_start" /\ loc[p].req = "evict" => Expired(loc[p].sbx, now)
  BY DEF EvictInv
<1> QED
  BY <1>1, <1>3, <1>4, <1>5 DEF Decides, Deciding

\* An eviction starts only on a sandbox that is expired when it starts, although the
\* evictor looked at it before it got the lock: an extension in between saves it.
\* Only an Add without the lock can put something else under the eviction.
THEOREM OnlyExpiredAreEvicted == Spec => EvictsOnlyExpired
<1>1. Init => EvictInv
  BY DEF Init, EvictInv, Deciding
<1>2. ASSUME EvictInv, NEW p \in Procs, loc[p].req = "evict", pc[p] = "sr_start",
             rec.ex = loc[p].sbx.ex
      PROVE  Expired(rec, now)
  <2>1. rec.end = loc[p].sbx.end /\ Expired(loc[p].sbx, now)
    BY <1>2 DEF EvictInv, Deciding
  <2> QED
    BY <2>1 DEF Expired
<1>3. EvictInv =>
         [\A p \in Procs :
            /\ loc[p].req = "evict" /\ pc[p] = "sr_start" /\ pc'[p] = "node"
            /\ rec.ex = loc[p].sbx.ex
            => Expired(rec, now)]_vars
  BY <1>2
<1>4. TypeOK /\ TypeOK' /\ WritesInv /\ EvictInv /\ [Next]_vars => EvictInv'
  BY EvictStep
<1> QED
  BY <1>1, <1>3, <1>4, TypeCorrect, WritesInvariant, PTL DEF Spec, EvictsOnlyExpired

-----------------------------------------------------------------------------
(* The store implements Lifecycle.                                         *)

\* The state of execution e, and whether a transition of it is in progress.
StateOf(r, e)   == IF r.ex = e THEN r.st ELSE "absent"
BusyOf(r, t, e) == r.ex = e /\ t # 0

\* What Lifecycle allows an execution to do, said of the sandbox key and the
\* transition key before and after.
Lives(r, t, s, u, e) ==
    \/ StateOf(s, e) = StateOf(r, e) /\ BusyOf(s, u, e) = BusyOf(r, t, e)
    \/ StateOf(r, e) = "absent" /\ StateOf(s, e) = "running"
    \/ /\ ~BusyOf(r, t, e) /\ BusyOf(s, u, e)
       /\ StateOf(s, e) \in {TargetState(a) : a \in Actions}
       /\ Allowed(StateOf(r, e), StateOf(s, e))
    \/ /\ StateOf(r, e) = "absent" /\ BusyOf(s, u, e)
       /\ StateOf(s, e) \in {TargetState(a) : a \in Actions}
    \/ /\ BusyOf(r, t, e)
       /\ StateOf(r, e) = "snapshotting" /\ StateOf(s, e) = "running"
    \/ BusyOf(r, t, e) /\ ~BusyOf(s, u, e) /\ StateOf(s, e) = StateOf(r, e)
    \/ StateOf(s, e) = "absent" /\ ~BusyOf(s, u, e)

LEMMA LivesIsStep ==
    ASSUME \A e \in Executions : Lives(rec, tkey, rec', tkey', e)
    PROVE  Abstract!Next
<1> SUFFICES ASSUME NEW e \in Executions
             PROVE  \/ Abstract!Same(e) \/ Abstract!Store(e) \/ Abstract!Start(e)
                    \/ Abstract!Revive(e) \/ Abstract!Restore(e) \/ Abstract!Finish(e)
                    \/ Abstract!Drop(e)
  BY DEF Abstract!Next
<1>1. Lives(rec, tkey, rec', tkey', e)
  OBVIOUS
<1> QED
  BY <1>1 DEF Lives, StateOf, BusyOf, Abstract!Same, Abstract!Store, Abstract!Start,
     Abstract!Revive, Abstract!Restore, Abstract!Finish, Abstract!Drop, Abstract!TargetState,
     Abstract!Actions, Abstract!Allowed, TargetState, Actions, Allowed

\* Execution 0 is that of the absent record.
LEMMA ExecutionsPositive == \A e \in Executions : e # 0
<1>1. Cardinality(Users) \in Nat /\ MaxRequests \in Nat
  BY UsersAssumption, ConstantsAssumption, FS_CardinalityType
<1>2. 1 + Cardinality(Users) * MaxRequests \in Int
  BY <1>1
<1> QED
  BY <1>2 DEF Executions

\* A record that is not stored under e any more, or never was, is dropped.
LEMMA OthersDrop ==
    ASSUME NEW e, rec'.ex # e
    PROVE  Lives(rec, tkey, rec', tkey', e)
BY DEF Lives, StateOf, BusyOf

\* startTransitionScript.
LEMMA StartTransitionLives ==
    ASSUME TypeOK, TransitionInv, WritesInv, NEW p \in Procs, StartTransition(p), NEW e
    PROVE  Lives(rec, tkey, rec', tkey', e)
<1>1. pc[p] = "sr_start" /\ tkey' = nextTid
  BY DEF StartTransition
<1>2. rec'.ex = loc[p].sbx.ex /\ rec'.st = TargetState(loc[p].act)
  <2>1. loc[p].sbx \in Sandboxes
    BY DEF TypeOK, Locals
  <2> QED
    BY <2>1 DEF StartTransition, Sandboxes
<1>3. tkey = 0 /\ tkey' # 0
  BY <1>1 DEF TransitionInv, TypeOK
<1>4. rec'.st \in {TargetState(a) : a \in Actions}
  BY <1>2 DEF TypeOK, Locals
<1>5. rec'.ex = rec.ex => Allowed(rec.st, rec'.st)
  BY StartTransitionWrites
<1>6. CASE rec'.ex = e /\ rec.ex = e
  BY <1>3, <1>4, <1>5, <1>6 DEF Lives, StateOf, BusyOf
<1>7. CASE rec'.ex = e /\ rec.ex # e
  BY <1>3, <1>4, <1>7 DEF Lives, StateOf, BusyOf
<1> QED
  BY <1>6, <1>7, OthersDrop

\* The SET of restoreToRunning: the snapshot's own key is still there.
LEMMA RestoreWriteLives ==
    ASSUME TypeOK, TransitionInv, WritesInv, NEW p \in Procs, RestoreWrite(p), NEW e
    PROVE  Lives(rec, tkey, rec', tkey', e)
<1>1. pc[p] = "restore_set" /\ rec' = loc[p].sbx /\ tkey' = tkey
  BY DEF RestoreWrite
<1>2. tkey # 0
  BY <1>1 DEF TransitionInv, OwnerKeepsKey, Owning
<1>3. rec'.st \in States
  BY <1>1 DEF WritesInv, CopyIsSandbox, Present, TypeOK, Locals, Sandboxes
<1>4. rec'.st = "running" \/ rec'.st \in {TargetState(a) : a \in Actions}
  BY <1>3 DEF States, TargetState, Actions
<1>5. rec.ex = rec'.ex =>
         rec'.st = rec.st \/ (rec.st = "snapshotting" /\ rec'.st = "running")
  BY <1>1 DEF WritesInv, CopyIsCurrent, Copying
<1>6. CASE rec'.ex = e /\ rec.ex = e
  BY <1>1, <1>2, <1>5, <1>6 DEF Lives, StateOf, BusyOf
<1>7. CASE rec'.ex = e /\ rec.ex # e
  BY <1>1, <1>2, <1>4, <1>7 DEF Lives, StateOf, BusyOf
<1> QED
  BY <1>6, <1>7, OthersDrop

\* The SET of KeepAliveFor.
LEMMA KeepAliveWriteLives ==
    ASSUME TypeOK, WritesInv, NEW p \in Procs, KeepAliveWrite(p), NEW e
    PROVE  Lives(rec, tkey, rec', tkey', e)
<1>1. pc[p] = "upd_set" /\ rec' = loc[p].sbx /\ tkey' = tkey
  BY DEF KeepAliveWrite
<1>2. rec'.st = "running"
  BY <1>1 DEF WritesInv, CopyIsSandbox
<1>3. rec'.ex = rec.ex => rec'.st = rec.st
  BY KeepAliveWriteWrites
<1> QED
  BY <1>1, <1>2, <1>3, OthersDrop DEF Lives, StateOf, BusyOf

\* addSandboxScript: what it stores was nowhere before.
LEMMA AddRecordLives ==
    ASSUME TypeOK, WritesInv, NEW p \in Procs, AddRecord(p), NEW e
    PROVE  Lives(rec, tkey, rec', tkey', e)
<1>1. pc[p] \in Adding /\ rec' = loc[p].sbx
  BY DEF AddRecord, Adding
<1>2. rec'.st = "running" /\ rec.ex # rec'.ex
  BY <1>1 DEF WritesInv, CopyIsSandbox
<1> QED
  BY <1>2, OthersDrop DEF Lives, StateOf, BusyOf

\* The record stays; at most the transition key goes.
LEMMA KeptLives ==
    ASSUME rec' = rec, tkey' \in {tkey, 0}, NEW e
    PROVE  Lives(rec, tkey, rec', tkey', e)
BY DEF Lives, StateOf, BusyOf

LEMMA StepLives ==
    ASSUME TypeOK, TransitionInv, WritesInv, [Next]_vars, NEW e, e # 0
    PROVE  Lives(rec, tkey, rec', tkey', e)
<1>1. ASSUME NEW p \in Procs, Begin(p) \/ StorageStep(p) \/ Cancel(p) \/ Crash(p)
      PROVE  Lives(rec, tkey, rec', tkey', e)
  <2>1. CASE CallbackDelete(p)
    BY <2>1, KeptLives DEF CallbackDelete
  <2>2. CASE Begin(p) \/ Cancel(p) \/ (CalmStep(p) /\ ~CallbackDelete(p))
    <3>1. rec' = rec
      BY <2>2, BeginCalm, CancelCalm, CalmSteps DEF Calm
    <3>2. tkey' = tkey
      BY <2>2, BeginQuiet, CancelQuiet, QuietSteps DEF Quiet, CalmStep, QuietStep
    <3> QED
      BY <3>1, <3>2, KeptLives
  <2>3. CASE StartRemovingRead(p) \/ StartRemovingCheck(p) \/ KeepAliveRead(p)
             \/ RestoreRead(p) \/ Place(p)
    <3>1. rec' = rec /\ tkey' = tkey
      BY <2>3 DEF StartRemovingRead, StartRemovingCheck, KeepAliveRead,
                  RestoreRead, Place, redisVars
    <3> QED
      BY <3>1, KeptLives
  <2>4. CASE RemoveRecord(p)
    <3>1. rec'.ex # e
      BY <2>4 DEF RemoveRecord, NoRec
    <3> QED
      BY <3>1, OthersDrop
  <2> QED
    BY <1>1, <2>1, <2>2, <2>3, <2>4, StartTransitionLives, RestoreWriteLives,
       KeepAliveWriteLives, AddRecordLives
       DEF StorageStep, CalmStep
<1>2. CASE Tick \/ Expiry \/ Quiescent \/ UNCHANGED vars
  <2>1. rec' = rec /\ tkey' \in {tkey, 0}
    BY <1>2 DEF Tick, Expiry, LockExpires, TransitionKeyExpires, ResultKeyExpires,
                PendingExpires, Quiescent, vars, redisVars
  <2> QED
    BY <2>1, KeptLives
<1> QED
  BY <1>1, <1>2 DEF Next

\* The Redis storage keeps the promise every storage makes (Lifecycle), with its
\* locks, TTLs, cancelled requests and crashed instances hidden: no execution leaves
\* its state but by an allowed transition, none starts a second transition while
\* one is in progress, and a record that Add stores is a new execution.  Its Add
\* does not take the lock, hence Revives.
THEOREM Refinement ==
    ASSUME TTLCovers
    PROVE  Spec => Implements
<1>1. Init => Abstract!Init
  <2> SUFFICES ASSUME Init PROVE Abstract!Init
    OBVIOUS
  <2>1. rec.st = "running" /\ tkey = 0
    BY DEF Init
  <2> QED
    BY <2>1 DEF Abstract!Init
<1>2. TypeOK /\ TransitionInv /\ WritesInv /\ [Next]_vars => Abstract!Next
  BY StepLives, LivesIsStep, ExecutionsPositive
<1> QED
  BY <1>1, <1>2, TypeCorrect, TransitionsInvariant, WritesInvariant, PTL
     DEF Spec, Implements, Abstract!Spec

-----------------------------------------------------------------------------
(* The unlocked Add and overlapping creations are all that is to Revives.  *)

Strict == INSTANCE Lifecycle WITH
    Records <- Executions,
    Revives <- FALSE,
    st   <- [e \in Executions |-> IF rec.ex = e THEN rec.st ELSE "absent"],
    busy <- [e \in Executions |-> rec.ex = e /\ tkey # 0]

\* Between the reservation and the Add.
Unstored == {"cr_place", "cr_index", "cr_set"}

\* As long as creations do not overlap, Add stores over nothing, so what a holder of
\* the lock has read stays stored until it writes.
StrictInv ==
    /\ \A p \in Procs : pc[p] \in Unstored => ~Present(rec)
    /\ \A p \in Procs : pc[p] \in Copying => Present(rec) /\ rec.ex = loc[p].sbx.ex

\* A creation begins with the reservation, which looks at the index.
LEMMA ReservedAbsent ==
    ASSUME TypeOK, NEW p \in Procs, Begin(p) \/ StorageStep(p) \/ Cancel(p) \/ Crash(p),
           pc'[p] \in Unstored
    PROVE  pc[p] \in Unstored \/ (rec' = rec /\ ~Present(rec))
<1>1. CASE Reserve(p)
  BY <1>1, ReturnMoves DEF Reserve, Goto, TypeOK, Unstored
<1>2. CASE Place(p) \/ AddIndex(p) \/ AddRecord(p)
  BY <1>2 DEF Place, AddIndex, AddRecord, Unstored
<1>3. CASE Begin(p)
  <2>1. PICK r \in Requests : Goto(p, FirstLabel(r))
    BY <1>3 DEF Begin
  <2>2. FirstLabel(r) \in {"sr_lock", "upd_lock", "res_get"}
    BY ConstantsAssumption DEF FirstLabel, RequestKinds, Actions
  <2> QED
    BY <2>1, <2>2 DEF Goto, TypeOK, Unstored
<1>4. CASE Cancel(p)
  BY <1>4 DEF Cancel
<1>5. CASE \/ StartRemovingRead(p) \/ StartRemovingCheck(p) \/ StartTransition(p)
           \/ WaitTransition(p) \/ FailedReturn(p) \/ KillOnNode(p) \/ PauseOnNode(p)
           \/ CheckpointOnNode(p) \/ RemoveRecord(p) \/ RemoveIndex(p)
           \/ ReleaseReservation(p) \/ CancelledRemoval(p) \/ Crash(p)
  <2>1. pc'[p] \in {"sr_check", "sr_start", "wait_same", "wait_diff", "node", "sr_lock",
                    "res_snap", "rm", "restore", "cb", "rm_index", "rm_release", "idle",
                    "del_snap", "crashed"}
    BY <1>5, ReturnMoves, RemovedMoves
       DEF StartRemovingRead, StartRemovingCheck, StartTransition, WaitTransition,
           FailedReturn, KillOnNode, PauseOnNode, CheckpointOnNode, RemoveRecord,
           RemoveIndex, ReleaseReservation, CancelledRemoval, Crash, Goto, TypeOK, Waiting
  <2> QED
    BY <2>1 DEF Unstored
<1>6. CASE \/ RestoreRead(p) \/ RestoreWrite(p) \/ CallbackResult(p) \/ CallbackDelete(p)
           \/ DeleteSnapshot(p) \/ KeepAliveRead(p) \/ KeepAliveWrite(p) \/ KeepAliveIndex(p)
           \/ OwnerCommandFails(p)
  <2>1. pc'[p] \in {"cb", "restore_set", "cb_del", "sr_lock", "idle", "del_snap", "upd_set",
                    "upd_index", "rm_release"}
    BY <1>6, ReturnMoves, CallbackReturnsMoves
       DEF OwnerCommandFails, RestoreRead, RestoreWrite, CallbackResult, CallbackDelete, DeleteSnapshot,
           KeepAliveRead, KeepAliveWrite, KeepAliveIndex, Goto, TypeOK
  <2> QED
    BY <2>1 DEF Unstored
<1>7. CASE \/ ResumeGet(p) \/ ResumeWait(p) \/ ResumeSnapshot(p) \/ WaitForStart(p)
           \/ FailedAdd(p) \/ FinishStart(p) \/ EvictScan(p) \/ EvictGet(p)
           \/ EvictOrphan(p)
  <2>1. pc'[p] \in {"res_snap", "res_wait", "wait_resume", "cr_reserve", "idle", "cr_finish",
                    "cr_undo", "ev_mget", "ev_zrem", "sr_lock"}
    BY <1>7, ReturnMoves
       DEF ResumeGet, ResumeWait, ResumeSnapshot, WaitForStart, FailedAdd, FinishStart,
           EvictScan, EvictGet, EvictOrphan, Goto, TypeOK
  <2> QED
    BY <2>1 DEF Unstored
<1>8. CASE UndoPlace(p)
  BY <1>8, ReturnMoves DEF UndoPlace, Unstored
<1> QED
  BY <1>1, <1>2, <1>3, <1>4, <1>5, <1>6, <1>7, <1>8 DEF StorageStep

\* A holder of the lock that has a copy, or a creation, keeps the others away.
LEMMA HolderWrites ==
    ASSUME TypeOK, WritesInv, StrictInv, NEW p \in Procs,
           StartTransition(p) \/ RestoreWrite(p) \/ KeepAliveWrite(p)
    PROVE  /\ Present(rec) /\ rec.ex = loc[p].sbx.ex
           /\ Present(rec') /\ rec'.ex = rec.ex
           /\ pc[p] \in Copying /\ pc'[p] \notin Copying
<1>1. pc[p] \in Copying
  BY DEF StartTransition, RestoreWrite, KeepAliveWrite, Copying
<1>2. Present(rec) /\ rec.ex = loc[p].sbx.ex
  BY <1>1 DEF StrictInv
<1>3. pc'[p] \notin Copying
  BY ReturnMoves DEF StartTransition, RestoreWrite, KeepAliveWrite, Goto, TypeOK, Copying
<1>4. CASE StartTransition(p)
  <2>1. rec'.ex = loc[p].sbx.ex /\ rec'.st = TargetState(loc[p].act) /\ loc[p].act \in Actions
    BY <1>4 DEF StartTransition, TypeOK, Locals, Sandboxes
  <2> QED
    BY <1>1, <1>2, <1>3, <2>1 DEF Present, TargetState, Actions
<1>5. CASE RestoreWrite(p)
  <2>1. rec' = loc[p].sbx /\ Present(loc[p].sbx)
    BY <1>5 DEF RestoreWrite, WritesInv, CopyIsSandbox
  <2> QED
    BY <1>1, <1>2, <1>3, <2>1
<1>6. CASE KeepAliveWrite(p)
  <2>1. rec' = loc[p].sbx /\ loc[p].sbx.st = "running"
    BY <1>6 DEF KeepAliveWrite, WritesInv, CopyIsSandbox
  <2> QED
    BY <1>1, <1>2, <1>3, <2>1 DEF Present
<1> QED
  BY <1>4, <1>5, <1>6

LEMMA StrictStep ==
    ASSUME TypeOK, WritesInv, OneCreator, StrictInv, [Next]_vars
    PROVE  StrictInv'
<1>1. ASSUME NEW p \in Procs, Begin(p) \/ StorageStep(p) \/ Cancel(p) \/ Crash(p)
      PROVE  StrictInv'
  <2>1. OnlyMoves(p)
    <3>1. CASE Begin(p) \/ Cancel(p) \/ QuietStep(p)
      BY <3>1, BeginQuiet, CancelQuiet, QuietSteps DEF Quiet
    <3>2. CASE StartRemovingCheck(p) \/ StartTransition(p) \/ CallbackDelete(p)
      BY <3>2, ReturnMoves, RemovedMoves, CallbackReturnsMoves
         DEF StartRemovingCheck, StartTransition, CallbackDelete, OnlyMoves, Goto, TypeOK
    <3> QED
      BY <1>1, <3>1, <3>2 DEF StorageStep, QuietStep
  <2>2. ASSUME rec' = rec,
               pc'[p] \in Copying => Present(rec) /\ rec.ex = loc'[p].sbx.ex
        PROVE  StrictInv'
    <3>1. \A q \in Procs : pc'[q] \in Unstored => ~Present(rec')
      BY <1>1, <2>1, <2>2, ReservedAbsent DEF OnlyMoves, StrictInv
    <3>2. \A q \in Procs : pc'[q] \in Copying => Present(rec') /\ rec'.ex = loc'[q].sbx.ex
      BY <2>1, <2>2 DEF OnlyMoves, StrictInv
    <3> QED
      BY <3>1, <3>2 DEF StrictInv
  <2>3. CASE Begin(p) \/ Cancel(p) \/ CalmStep(p)
    <3>1. Calm(p)
      BY <2>3, BeginCalm, CancelCalm, CalmSteps
    <3> QED
      BY <2>2, <3>1 DEF Calm, StrictInv
  <2>4. CASE StartRemovingRead(p)
    <3>1. rec' = rec
      BY <2>4 DEF StartRemovingRead
    <3>2. CASE Present(rec)
      <4>1. loc'[p].sbx = rec
        BY <2>4, <3>2 DEF StartRemovingRead, TypeOK, Locals
      <4> QED
        BY <2>2, <3>1, <3>2, <4>1
    <3>3. CASE ~Present(rec)
      <4>1. pc'[p] \notin Copying
        BY <2>4, <3>3, RemovedMoves DEF StartRemovingRead, Copying
      <4> QED
        BY <2>2, <3>1, <4>1
    <3> QED
      BY <3>2, <3>3
  <2>5. CASE StartRemovingCheck(p)
    <3>1. rec' = rec /\ pc[p] \in Copying
      BY <2>5 DEF StartRemovingCheck, Copying
    <3>2. pc'[p] \in Copying => loc'[p].sbx = loc[p].sbx
      BY <2>5, ReturnMoves, RemovedMoves DEF StartRemovingCheck, Goto, TypeOK, Locals, Copying
    <3> QED
      BY <2>2, <3>1, <3>2 DEF StrictInv
  <2>6. CASE KeepAliveRead(p)
    <3>1. rec' = rec
      BY <2>6 DEF KeepAliveRead
    <3>2. CASE Return(p, "error")
      BY <2>2, <3>1, <3>2, ReturnMoves DEF Copying
    <3>3. CASE ~Return(p, "error")
      <4>1. PICK e : /\ loc' = [loc EXCEPT ![p] = [@ EXCEPT !.sbx = e, !.old = rec.end]]
                     /\ e = rec \/ \E x : e = [rec EXCEPT !.end = x]
        BY <2>6, <3>3 DEF KeepAliveRead
      <4>2. e.ex = rec.ex /\ rec.st = "running"
        BY <2>6, <3>3, <4>1 DEF KeepAliveRead, TypeOK, Sandboxes
      <4>3. loc'[p].sbx = e
        BY <4>1 DEF TypeOK, Locals
      <4> QED
        BY <2>2, <3>1, <4>2, <4>3 DEF Present
    <3> QED
      BY <3>2, <3>3
  <2>7. CASE RestoreRead(p)
    <3>1. rec' = rec
      BY <2>7 DEF RestoreRead
    <3>2. CASE Present(rec)
      <4>1. loc'[p].sbx = Restored(rec)
        BY <2>7, <3>2 DEF RestoreRead, TypeOK, Locals
      <4>2. Restored(rec).ex = rec.ex
        BY DEF Restored, TypeOK, Sandboxes
      <4> QED
        BY <2>2, <3>1, <3>2, <4>1, <4>2
    <3>3. CASE ~Present(rec)
      <4>1. pc'[p] \notin Copying
        BY <2>7, <3>3 DEF RestoreRead, Goto, TypeOK, Copying
      <4> QED
        BY <2>2, <3>1, <4>1
    <3> QED
      BY <3>2, <3>3
  <2>8. CASE Place(p)
    <3>1. rec' = rec /\ pc'[p] \notin Copying
      BY <2>8 DEF Place, redisVars, Goto, TypeOK, Copying
    <3> QED
      BY <2>2, <3>1
  <2>9. CASE StartTransition(p) \/ RestoreWrite(p) \/ KeepAliveWrite(p)
    <3>1. /\ Present(rec) /\ Present(rec') /\ rec'.ex = rec.ex
          /\ pc[p] \in Copying /\ pc'[p] \notin Copying
      BY <2>9, HolderWrites
    <3>2. pc[p] \notin Unstored
      BY <3>1 DEF Copying, Unstored
    <3>3. \A q \in Procs : pc'[q] \notin Unstored
      BY <1>1, <2>1, <3>1, <3>2, ReservedAbsent DEF OnlyMoves, StrictInv
    <3>4. \A q \in Procs : pc'[q] \notin Copying
      BY <2>1, <3>1, HolderAlone DEF OnlyMoves
    <3> QED
      BY <3>3, <3>4 DEF StrictInv
  <2>10. CASE RemoveRecord(p)
    <3>1. ~Present(rec') /\ lock = None /\ pc'[p] = "rm_index"
      BY <2>10 DEF RemoveRecord, NoRec, Present, Goto, TypeOK
    <3>2. \A q \in Procs : pc[q] \notin Copying
      BY <3>1, ConstantsAssumption DEF WritesInv, LockHeld, Copying, Locked, Procs
    <3>3. \A q \in Procs : pc'[q] \notin Copying
      BY <2>1, <3>1, <3>2 DEF OnlyMoves, Copying
    <3> QED
      BY <3>1, <3>3 DEF StrictInv
  <2>11. CASE AddRecord(p)
    <3>1. pc[p] = "cr_set" /\ pc'[p] = "cr_finish"
      BY <2>11 DEF AddRecord, Goto, TypeOK
    <3>2. \A q \in Procs \ {p} : pc[q] \notin Unstored
      BY <3>1 DEF OneCreator, Creating, Unstored
    <3>3. \A q \in Procs : pc[q] \notin Copying
      BY <3>1 DEF StrictInv, Unstored
    <3> QED
      BY <2>1, <3>1, <3>2, <3>3 DEF OnlyMoves, StrictInv, Unstored, Copying
  <2> QED
    BY <1>1, <2>3, <2>4, <2>5, <2>6, <2>7, <2>8, <2>9, <2>10, <2>11 DEF StorageStep, CalmStep
<1>2. CASE Tick \/ Expiry \/ Quiescent \/ UNCHANGED vars
  <2>1. UNCHANGED <<rec, pc, loc>>
    BY <1>2 DEF Tick, Expiry, LockExpires, TransitionKeyExpires, ResultKeyExpires,
                PendingExpires, Quiescent, vars, redisVars
  <2> QED
    BY <2>1 DEF StrictInv
<1> QED
  BY <1>1, <1>2 DEF Next

\* An execution lives, and it does not come back from absence but by the Add that
\* stores it.
LivesStrictly(r, t, s, u, e) ==
    /\ Lives(r, t, s, u, e)
    /\ StateOf(r, e) = "absent" => StateOf(s, e) \in {"absent", "running"}

LEMMA LivesStrictlyIsStep ==
    ASSUME \A e \in Executions : LivesStrictly(rec, tkey, rec', tkey', e)
    PROVE  Strict!Next
<1> SUFFICES ASSUME NEW e \in Executions
             PROVE  \/ Strict!Same(e) \/ Strict!Store(e) \/ Strict!Start(e)
                    \/ Strict!Revive(e) \/ Strict!Restore(e) \/ Strict!Finish(e)
                    \/ Strict!Drop(e)
  BY DEF Strict!Next
<1>1. LivesStrictly(rec, tkey, rec', tkey', e)
  OBVIOUS
<1>2. "running" \notin {TargetState(a) : a \in Actions}
      /\ "absent" \notin {TargetState(a) : a \in Actions}
  BY DEF TargetState, Actions
<1> QED
  BY <1>1, <1>2 DEF LivesStrictly, Lives, StateOf, BusyOf, Strict!Same, Strict!Store,
     Strict!Start, Strict!Restore, Strict!Finish, Strict!Drop, Strict!TargetState,
     Strict!Actions, Strict!Allowed, TargetState, Actions, Allowed

LEMMA StepLivesStrictly ==
    ASSUME TypeOK, TransitionInv, WritesInv, StrictInv, [Next]_vars, NEW e, e # 0
    PROVE  LivesStrictly(rec, tkey, rec', tkey', e)
<1>1. Lives(rec, tkey, rec', tkey', e)
  BY StepLives
<1>2. CASE rec' = rec \/ rec'.ex # e
  BY <1>1, <1>2 DEF LivesStrictly, StateOf, Lives
<1>3. ASSUME NEW p \in Procs, Begin(p) \/ StorageStep(p) \/ Cancel(p) \/ Crash(p)
      PROVE  LivesStrictly(rec, tkey, rec', tkey', e)
  <2>1. CASE Begin(p) \/ Cancel(p) \/ CalmStep(p)
    BY <1>2, <2>1, BeginCalm, CancelCalm, CalmSteps DEF Calm
  <2>2. CASE StartRemovingRead(p) \/ StartRemovingCheck(p) \/ KeepAliveRead(p)
             \/ RestoreRead(p) \/ Place(p)
    BY <1>2, <2>2 DEF StartRemovingRead, StartRemovingCheck, KeepAliveRead, RestoreRead,
       Place, redisVars
  <2>3. CASE StartTransition(p) \/ RestoreWrite(p) \/ KeepAliveWrite(p)
    <3>1. Present(rec) /\ rec'.ex = rec.ex
      BY <2>3, HolderWrites
    <3>2. StateOf(rec, e) = "absent" => rec'.ex # e
      BY <3>1 DEF StateOf, Present
    <3> QED
      BY <1>1, <1>2, <3>2 DEF LivesStrictly
  <2>4. CASE RemoveRecord(p)
    <3>1. rec'.ex # e
      BY <2>4 DEF RemoveRecord, NoRec
    <3> QED
      BY <1>2, <3>1
  <2>5. CASE AddRecord(p)
    <3>1. rec' = loc[p].sbx /\ loc[p].sbx.st = "running"
      BY <2>5 DEF AddRecord, WritesInv, CopyIsSandbox, Adding
    <3> QED
      BY <1>1, <3>1 DEF LivesStrictly, StateOf
  <2> QED
    BY <1>3, <2>1, <2>2, <2>3, <2>4, <2>5 DEF StorageStep, CalmStep
<1>4. CASE Tick \/ Expiry \/ Quiescent \/ UNCHANGED vars
  BY <1>2, <1>4, EnvironmentWrites
<1> QED
  BY <1>3, <1>4 DEF Next

\* In a behaviour in which no two creations of the sandbox overlap, the Redis storage
\* keeps the same promise as the in-memory one: nothing that was stored over or
\* removed comes back.  The reservation is meant to exclude such an overlap
\* (TestReservation_ConcurrentSameSandbox).
THEOREM StrictRefinement ==
    ASSUME TTLCovers
    PROVE  Spec /\ []OneCreator => Strict!Spec
<1>1. Init => Strict!Init /\ StrictInv
  <2> SUFFICES ASSUME Init PROVE Strict!Init /\ StrictInv
    OBVIOUS
  <2>1. rec.st = "running" /\ tkey = 0 /\ \A p \in Procs : pc[p] = "idle"
    BY DEF Init
  <2>2. Strict!Init
    BY <2>1 DEF Strict!Init
  <2>3. StrictInv
    BY <2>1 DEF StrictInv, Unstored, Copying
  <2> QED
    BY <2>2, <2>3
<1>2. TypeOK /\ WritesInv /\ OneCreator /\ StrictInv /\ [Next]_vars => StrictInv'
  BY StrictStep
<1>3. TypeOK /\ TransitionInv /\ WritesInv /\ StrictInv /\ [Next]_vars => Strict!Next
  BY StepLivesStrictly, LivesStrictlyIsStep, ExecutionsPositive
<1> QED
  BY <1>1, <1>2, <1>3, TypeCorrect, TransitionsInvariant, WritesInvariant, PTL
     DEF Spec, Strict!Spec

-----------------------------------------------------------------------------
(* Answers to a pause.  An execution is settled once its pause is complete *)
(* or given up without a word: a pause that is given up leaves a record or *)
(* a key behind, and no result.                                            *)

Settled == snaps \cup lost

\* Where a pause may be.
PausePath == {"sr_lock", "sr_check", "sr_start", "wait_same", "wait_diff", "node", "rm",
              "rm_index", "rm_release", "cb", "cb_del"}

\* What p has decided and copied: a pause stays one, only a snapshot is restored,
\* and no keep-alive or creation is about to write a pausing record.
PathInv(p) ==
    /\ loc[p].req = "pause" => pc[p] \in PausePath \cup {"crashed"} /\ loc[p].act = "pause"
    /\ pc[p] \in {"restore", "restore_set"} => loc[p].act = "snapshot"
    /\ pc[p] \in {"upd_set", "cr_index", "cr_set"} => loc[p].sbx.st # "pausing"

\* p drives the pause of execution e.
Pausing(p, e) == pc[p] \in Owning /\ loc[p].act = "pause" /\ loc[p].sbx.ex = e

\* After the node's answer the owner knows whether the pause is complete, and an
\* error is in the result key before the transition key goes, if it can be stored.
KnowsInv(p) ==
    pc[p] \in Owning \ {"node"} /\ loc[p].act = "pause" =>
        /\ loc[p].err # "nil" \/ loc[p].sbx.ex \in snaps
        /\ pc[p] = "cb_del" /\ loc[p].err # "nil" =>
              loc[p].tid \in failed \/ loc[p].sbx.ex \in Settled

\* A record says pausing only until its owner removes it or leaves, and who has
\* read it under the lock can rely on the owner until the lock is released.
Driven(e) == \E q \in Procs : Pausing(q, e) /\ pc[q] \in {"node", "rm"}

ReadInv(p) ==
    /\ pc[p] = "sr_check" /\ loc[p].sbx.st = "pausing" =>
          Driven(loc[p].sbx.ex) \/ loc[p].sbx.ex \in Settled
    /\ pc[p] = "restore_set" /\ loc[p].sbx.st = "pausing" => loc[p].sbx.ex \in Settled

\* Who waits for a pause waits for the owner, or the outcome is known or lost.
AwaitInv(p) ==
    pc[p] = "wait_same" /\ loc[p].act = "pause" =>
        \/ \E q \in Procs : Pausing(q, loc[p].sbx.ex) /\ loc[q].tid = loc[p].tid
        \/ loc[p].tid \in failed
        \/ loc[p].sbx.ex \in Settled

PauseInv ==
    /\ rec.st = "pausing" => Driven(rec.ex) \/ rec.ex \in Settled
    /\ \A p \in Procs : PathInv(p) /\ KnowsInv(p) /\ ReadInv(p) /\ AwaitInv(p)

IsPausing(p) == pc[p] \in Owning /\ loc[p].act = "pause"

\* Nothing that is settled becomes open again.
Grows == snaps \subseteq snaps' /\ Settled \subseteq Settled' /\ failed \subseteq failed'

\* A step of p, which neither drives nor takes up a pause.
Beside(p) ==
    /\ OnlyMoves(p)
    /\ Grows
    /\ rec' = rec \/ rec'.st # "pausing" \/ rec'.ex \in Settled'
    /\ ~IsPausing(p) /\ ~IsPausing(p)'

\* A step of p that has nothing to do with a pause.
Aside(p) == Beside(p) /\ pc'[p] \notin {"sr_check", "wait_same", "restore_set"}

LEMMA SettledSame ==
    ASSUME UNCHANGED <<snaps, lost, failed>>
    PROVE  Grows /\ Settled' = Settled
BY DEF Grows, Settled

\* An owner that leaves settles what it was pausing.
LEMMA LosesOutcome ==
    ASSUME NEW p \in Procs, LoseOutcome(p), snaps' = snaps, failed \subseteq failed'
    PROVE  Grows /\ (IsPausing(p) => loc[p].sbx.ex \in Settled')
BY DEF Grows, Settled, LoseOutcome, IsPausing

\* The other processes, when p alone moves: p goes on with its pause or its outcome
\* is known or lost, and nobody who has read the record relies on p any longer when
\* p removes it.
LEMMA OthersPause ==
    ASSUME PauseInv, NEW p \in Procs, NEW q \in Procs, p # q, OnlyMoves(p), Grows,
           IsPausing(p) =>
             \/ /\ IsPausing(p)' /\ loc'[p].sbx.ex = loc[p].sbx.ex
                /\ loc'[p].tid = loc[p].tid
             \/ loc[p].tid \in failed' \/ loc[p].sbx.ex \in Settled',
           IsPausing(p) /\ pc[p] \in {"node", "rm"} =>
             \/ /\ IsPausing(p)' /\ loc'[p].sbx.ex = loc[p].sbx.ex
                /\ pc'[p] \in {"node", "rm"}
             \/ pc[q] # "sr_check" \/ loc[p].sbx.ex \in Settled'
    PROVE  PathInv(q)' /\ KnowsInv(q)' /\ ReadInv(q)' /\ AwaitInv(q)'
<1>1. pc'[q] = pc[q] /\ loc'[q] = loc[q]
  BY DEF OnlyMoves
<1>2. PathInv(q) /\ KnowsInv(q) /\ ReadInv(q) /\ AwaitInv(q)
  BY DEF PauseInv
<1>3. PathInv(q)' /\ KnowsInv(q)'
  BY <1>1, <1>2 DEF PathInv, KnowsInv, Grows
<1>4. ReadInv(q)'
  <2>1. ASSUME NEW r \in Procs, Pausing(r, loc[q].sbx.ex), pc[r] \in {"node", "rm"},
               pc[q] = "sr_check"
        PROVE  \/ Pausing(r, loc[q].sbx.ex)' /\ pc'[r] \in {"node", "rm"}
               \/ loc[q].sbx.ex \in Settled'
    BY <1>1, <2>1 DEF Pausing, IsPausing, OnlyMoves
  <2> QED
    BY <1>1, <1>2, <2>1 DEF ReadInv, Driven, Grows
<1>5. AwaitInv(q)'
  <2> SUFFICES ASSUME pc[q] = "wait_same", loc[q].act = "pause"
               PROVE  AwaitInv(q)'
    BY <1>1 DEF AwaitInv
  <2>1. ASSUME NEW r \in Procs, Pausing(r, loc[q].sbx.ex), loc[r].tid = loc[q].tid
        PROVE  \/ Pausing(r, loc[q].sbx.ex)' /\ loc'[r].tid = loc'[q].tid
               \/ loc[q].tid \in failed' \/ loc[q].sbx.ex \in Settled'
    BY <1>1, <2>1 DEF Pausing, IsPausing, OnlyMoves
  <2> QED
    BY <1>1, <1>2, <2>1 DEF AwaitInv, Grows
<1> QED
  BY <1>3, <1>4, <1>5

LEMMA BesidePauses ==
    ASSUME PauseInv, NEW p \in Procs, Beside(p), PathInv(p)', ReadInv(p)', AwaitInv(p)'
    PROVE  PauseInv'
<1>1. \A q \in Procs \ {p} : PathInv(q)' /\ KnowsInv(q)' /\ ReadInv(q)' /\ AwaitInv(q)'
  BY OthersPause DEF Beside
<1>2. KnowsInv(p)'
  BY DEF Beside, IsPausing, KnowsInv
<1>3. rec'.st = "pausing" => Driven(rec.ex)' \/ rec'.ex \in Settled'
  <2>1. ASSUME rec' = rec, Driven(rec.ex) PROVE Driven(rec.ex)'
    BY <2>1 DEF Beside, IsPausing, Driven, Pausing, OnlyMoves
  <2> QED
    BY <2>1 DEF PauseInv, Beside, Grows
<1> QED
  BY <1>1, <1>2, <1>3 DEF PauseInv

LEMMA AsidePauses ==
    ASSUME PauseInv, NEW p \in Procs, Aside(p), PathInv(p)'
    PROVE  PauseInv'
BY BesidePauses DEF Aside, ReadInv, AwaitInv

\* A step that leaves everything a pause depends on.
LEMMA StillPauses ==
    ASSUME PauseInv, UNCHANGED <<rec, snaps, lost, failed, pc>>,
           \A q \in Procs : /\ loc'[q].req = loc[q].req /\ loc'[q].act = loc[q].act
                            /\ loc'[q].sbx = loc[q].sbx /\ loc'[q].tid = loc[q].tid
                            /\ loc'[q].err = loc[q].err
    PROVE  PauseInv'
<1>1. Settled' = Settled
  BY SettledSame
<1>2. \A e : Driven(e) => Driven(e)'
  BY DEF Driven, Pausing
<1>3. ASSUME NEW q \in Procs
      PROVE  PathInv(q)' /\ KnowsInv(q)' /\ ReadInv(q)' /\ AwaitInv(q)'
  <2>1. PathInv(q) /\ KnowsInv(q) /\ ReadInv(q) /\ AwaitInv(q)
    BY DEF PauseInv
  <2>2. PathInv(q)' /\ KnowsInv(q)'
    BY <1>1, <2>1 DEF PathInv, KnowsInv
  <2>3. ReadInv(q)'
    BY <1>1, <2>1 DEF ReadInv, Driven, Pausing
  <2>4. AwaitInv(q)'
    BY <1>1, <2>1 DEF AwaitInv, Pausing
  <2> QED
    BY <2>2, <2>3, <2>4
<1>4. rec'.st = "pausing" => Driven(rec.ex)' \/ rec'.ex \in Settled'
  BY <1>1 DEF PauseInv, Driven, Pausing
<1> QED
  BY <1>3, <1>4 DEF PauseInv

LEMMA ReturnPath ==
    ASSUME TypeOK, NEW p \in Procs, NEW o, Return(p, o)
    PROVE  PathInv(p)' /\ OnlyMoves(p) /\ pc'[p] = "idle" /\ loc'[p].out = o
<1>1. loc'[p] = [IdleLocals(loc[p].budget) EXCEPT !.out = o]
  BY DEF Return, TypeOK
<1>2. loc'[p].req = "none" /\ loc'[p].out = o
  BY <1>1 DEF IdleLocals
<1> QED
  BY <1>2, ReturnLocals DEF PathInv

LEMMA RemovedPath ==
    ASSUME TypeOK, NEW p \in Procs, PathInv(p), NEW o, Removed(p, o)
    PROVE  PathInv(p)' /\ OnlyMoves(p) /\ pc'[p] \in {"idle", "del_snap"}
<1>1. CASE loc[p].req = "kill"
  BY <1>1 DEF Removed, Goto, TypeOK, PathInv, OnlyMoves
<1>2. CASE loc[p].req # "kill"
  BY <1>2, ReturnPath DEF Removed
<1> QED
  BY <1>1, <1>2

\* No record is being paused while somebody restores one.
LEMMA RestoringAlone ==
    ASSUME Exclusion, PauseInv, NEW p \in Procs, pc[p] \in Owning \ {"node", "rm"},
           rec.st = "pausing"
    PROVE  rec.ex \in Settled
BY DEF PauseInv, Driven, Pausing, Exclusion, AtMostOneTransition

\* The steps of requests and of the evictor outside the removals.
LEMMA RequestPauses ==
    ASSUME TypeOK, PauseInv, NEW p \in Procs,
           \/ WaitTransition(p) \/ DeleteSnapshot(p) \/ KeepAliveIndex(p) \/ ResumeGet(p)
           \/ ResumeWait(p) \/ ResumeSnapshot(p) \/ Reserve(p) \/ WaitForStart(p)
           \/ AddIndex(p) \/ FailedAdd(p) \/ FinishStart(p) \/ EvictScan(p)
           \/ EvictOrphan(p) \/ FailedReturn(p)
    PROVE  PauseInv'
<1>1. PathInv(p) /\ loc[p] \in Locals
  BY DEF PauseInv, TypeOK
<1>2. /\ rec' = rec /\ Grows
      /\ pc[p] \notin Owning
  <2>1. UNCHANGED <<rec, snaps, lost, failed>> /\ pc[p] \notin Owning
    BY DEF WaitTransition, DeleteSnapshot, KeepAliveIndex, ResumeGet, ResumeWait,
       ResumeSnapshot, Reserve, WaitForStart, AddIndex, FailedAdd, FinishStart, EvictScan,
       EvictOrphan, FailedReturn, redisVars, nodeVars, Owning, Waiting
  <2> QED
    BY <2>1, SettledSame
<1> USE DEF Goto, TypeOK, OnlyMoves, Locals
<1> DEFINE Ends == /\ PathInv(p)' /\ OnlyMoves(p)
                   /\ pc'[p] \notin Owning
                   /\ pc'[p] \notin {"sr_check", "wait_same", "restore_set"}
<1>3. ASSUME NEW o, Return(p, o) PROVE Ends
  BY <1>3, ReturnPath DEF Owning
<1>4. ASSUME NEW o, Removed(p, o) PROVE Ends
  BY <1>1, <1>4, RemovedPath DEF Owning
<1>5. CASE WaitTransition(p)
  <2>1. CASE \E o : Return(p, o) \/ Removed(p, o)
    BY <1>2, <1>3, <1>4, <2>1, AsidePauses DEF Aside, Beside, IsPausing
  <2>2. CASE Goto(p, "sr_lock") /\ pc[p] = "wait_diff" /\ loc' = loc
    <3>1. Ends
      BY <1>1, <2>2 DEF PathInv, PausePath, Owning
    <3> QED
      BY <1>2, <3>1, AsidePauses DEF Aside, Beside, IsPausing
  <2>3. CASE Goto(p, "res_snap") /\ pc[p] = "wait_resume" /\ loc' = loc
    <3>1. Ends
      BY <1>1, <2>3 DEF PathInv, PausePath, Owning
    <3> QED
      BY <1>2, <3>1, AsidePauses DEF Aside, Beside, IsPausing
  <2> QED
    BY <1>5, <2>1, <2>2, <2>3 DEF WaitTransition, Waiting
<1>6. CASE DeleteSnapshot(p) \/ KeepAliveIndex(p) \/ WaitForStart(p) \/ EvictOrphan(p)
  <2>1. \E o : Return(p, o)
    BY <1>6 DEF DeleteSnapshot, KeepAliveIndex, WaitForStart, EvictOrphan
  <2> QED
    BY <1>2, <1>3, <2>1, AsidePauses DEF Aside, Beside, IsPausing
<1>7. CASE ResumeGet(p) \/ ResumeSnapshot(p) \/ Reserve(p) \/ AddIndex(p) \/ FinishStart(p)
  <2>1. CASE \E o : Return(p, o)
    BY <1>2, <1>3, <2>1, AsidePauses DEF Aside, Beside, IsPausing
  <2>2. ASSUME NEW l, Goto(p, l), loc' = loc,
               pc[p] \notin PausePath \cup {"idle", "crashed"},
               l \in {"res_snap", "res_wait", "cr_reserve", "cr_wait", "cr_place",
                      "cr_undo", "cr_set"},
               l = "cr_set" => pc[p] = "cr_index"
        PROVE  PauseInv'
    <3>1. Ends
      BY <1>1, <2>2 DEF PathInv, Owning
    <3> QED
      BY <1>2, <3>1, AsidePauses DEF Aside, Beside, IsPausing
  <2> QED
    BY <1>7, <2>1, <2>2
       DEF ResumeGet, ResumeSnapshot, Reserve, AddIndex, FinishStart, PausePath
<1>8. CASE ResumeWait(p) \/ FailedAdd(p) \/ EvictScan(p)
  <2>1. /\ loc'[p].req = loc[p].req /\ OnlyMoves(p)
        /\ pc'[p] \in {"res_snap", "wait_resume", "cr_finish", "ev_mget"}
    BY <1>8 DEF ResumeWait, FailedAdd, EvictScan
  <2>2. loc'[p].req # "pause"
    BY <1>1, <1>8, <2>1 DEF ResumeWait, FailedAdd, EvictScan, PathInv, PausePath
  <2>3. Ends
    BY <1>1, <2>1, <2>2 DEF PathInv, Owning
  <2> QED
    BY <1>2, <2>3, AsidePauses DEF Aside, Beside, IsPausing
<1>9. CASE FailedReturn(p)
  <2>1. \E o : Return(p, o) \/ Removed(p, o)
    BY <1>9 DEF FailedReturn
  <2> QED
    BY <1>2, <1>3, <1>4, <2>1, AsidePauses DEF Aside, Beside, IsPausing, Owning
<1> QED
  BY <1>5, <1>6, <1>7, <1>8, <1>9

LEMMA BeginPauses ==
    ASSUME TypeOK, PauseInv, NEW p \in Procs, Begin(p)
    PROVE  PauseInv'
<1>1. PICK r \in Requests :
        /\ Goto(p, FirstLabel(r))
        /\ loc' = [loc EXCEPT ![p] = [IdleLocals(loc[p].budget - 1) EXCEPT
                     !.req = r, !.act = IF r \in Actions THEN r ELSE "kill", !.at = now]]
  BY DEF Begin
<1>2. loc'[p] = [IdleLocals(loc[p].budget - 1) EXCEPT
                   !.req = r, !.act = IF r \in Actions THEN r ELSE "kill", !.at = now]
  BY <1>1 DEF TypeOK
<1>3. /\ loc'[p].req = r /\ loc'[p].act = (IF r \in Actions THEN r ELSE "kill")
  BY <1>2 DEF IdleLocals
<1>4. /\ pc'[p] \in {"sr_lock", "upd_lock", "res_get"}
      /\ r = "pause" => pc'[p] = "sr_lock" /\ loc'[p].act = "pause"
  <2>1. pc'[p] = FirstLabel(r) /\ r \in RequestKinds
    BY <1>1, ConstantsAssumption DEF Goto, TypeOK
  <2> QED
    BY <1>3, <2>1 DEF FirstLabel, RequestKinds, Actions
<1>5. PathInv(p)'
  BY <1>3, <1>4 DEF PathInv, PausePath
<1>6. Aside(p)
  <2>1. UNCHANGED <<rec, snaps, lost, failed>> /\ pc[p] = "idle"
    BY DEF Begin, redisVars, nodeVars
  <2> QED
    BY <1>4, <2>1, BeginCalm, SettledSame DEF Aside, Beside, IsPausing, Owning, Calm
<1> QED
  BY <1>5, <1>6, AsidePauses

LEMMA EvictGetPauses ==
    ASSUME TypeOK, PauseInv, NEW p \in Procs, EvictGet(p)
    PROVE  PauseInv'
<1>1. PathInv(p) /\ loc[p] \in Locals
  BY DEF PauseInv, TypeOK
<1>2. rec' = rec /\ Grows /\ pc[p] = "ev_mget"
  BY SettledSame DEF EvictGet, redisVars, nodeVars
<1>3. CASE Return(p, "none")
  BY <1>2, <1>3, ReturnPath, AsidePauses DEF Aside, Beside, IsPausing, Owning
<1>4. CASE Goto(p, "ev_zrem") /\ loc' = loc
  <2>1. PathInv(p)'
    BY <1>1, <1>2, <1>4 DEF Goto, TypeOK, PathInv, PausePath
  <2> QED
    BY <1>2, <1>4, <2>1, AsidePauses DEF Aside, Beside, IsPausing, Owning, OnlyMoves, Goto, TypeOK
<1>5. ASSUME NEW a, Goto(p, "sr_lock"),
             loc' = [loc EXCEPT ![p] = [loc[p] EXCEPT !.req = "evict", !.act = a]]
      PROVE  PauseInv'
  <2>1. loc'[p].req = "evict" /\ pc'[p] = "sr_lock"
    BY <1>1, <1>5 DEF TypeOK, Locals, Goto
  <2>2. PathInv(p)'
    BY <1>1, <2>1 DEF PathInv
  <2>3. OnlyMoves(p)
    BY <1>5 DEF OnlyMoves, Goto, TypeOK
  <2> QED
    BY <1>2, <2>1, <2>2, <2>3, AsidePauses DEF Aside, Beside, IsPausing, Owning
<1> QED
  BY <1>3, <1>4, <1>5 DEF EvictGet

\* The creation writes a running record.
LEMMA CreatePauses ==
    ASSUME TypeOK, PauseInv, NEW p \in Procs, Place(p) \/ AddRecord(p) \/ UndoPlace(p)
    PROVE  PauseInv'
<1>1. PathInv(p) /\ loc[p] \in Locals
  BY DEF PauseInv, TypeOK
<1>2. CASE Place(p)
  <2>1. /\ rec' = rec /\ Grows /\ pc[p] = "cr_place"
        /\ pc'[p] \in {"cr_index", "cr_finish"} /\ OnlyMoves(p)
    BY <1>2, SettledSame DEF Place, redisVars, Goto, OnlyMoves, TypeOK
  <2>2. /\ loc'[p].req = loc[p].req
        /\ loc'[p].sbx.st = "running" \/ pc'[p] = "cr_finish"
    <3>1. CASE loc' = [loc EXCEPT ![p].err = "failed"] /\ Goto(p, "cr_finish")
      BY <1>1, <3>1 DEF TypeOK, Locals, Goto
    <3>2. ASSUME NEW r, r.st = "running", loc' = [loc EXCEPT ![p].sbx = r]
          PROVE  /\ loc'[p].req = loc[p].req
                 /\ loc'[p].sbx.st = "running"
      BY <1>1, <3>2 DEF TypeOK, Locals
    <3>3. ASSUME NEW d \in Timeouts, NEW ap \in AutoPauses,
                 loc' = [loc EXCEPT ![p].sbx =
                           [st |-> "running", start |-> now,
                            end |-> CappedEnd(now, now + d), ex |-> nextEx, ap |-> ap]]
          PROVE  /\ loc'[p].req = loc[p].req
                 /\ loc'[p].sbx.st = "running"
      <4> DEFINE r == [st |-> "running", start |-> now,
                       end |-> CappedEnd(now, now + d), ex |-> nextEx, ap |-> ap]
      <4>1. r.st = "running" /\ loc' = [loc EXCEPT ![p].sbx = r]
        BY <3>3
      <4> HIDE DEF r
      <4> QED
        BY <3>2, <4>1
    <3> QED
      BY <1>2, <3>1, <3>3 DEF Place
  <2>3. PathInv(p)'
    BY <1>1, <2>1, <2>2 DEF PathInv, PausePath
  <2> QED
    BY <2>1, <2>3, AsidePauses DEF Aside, Beside, IsPausing, Owning
<1>3. CASE AddRecord(p)
  <2>1. /\ pc[p] = "cr_set" /\ rec' = loc[p].sbx /\ Grows /\ loc' = loc
        /\ pc'[p] = "cr_finish" /\ OnlyMoves(p)
    BY <1>3, SettledSame DEF AddRecord, Goto, TypeOK, OnlyMoves, nodeVars
  <2>2. PathInv(p)' /\ rec'.st # "pausing"
    BY <1>1, <2>1 DEF PathInv, PausePath
  <2> QED
    BY <2>1, <2>2, AsidePauses DEF Aside, Beside, IsPausing, Owning
<1>4. CASE UndoPlace(p)
  <2>1. rec' = rec /\ Grows /\ pc[p] \in {"cr_finish", "cr_undo"}
    BY <1>4, SettledSame DEF UndoPlace, redisVars
  <2>2. CASE Return(p, "error")
    BY <2>1, <2>2, ReturnPath, AsidePauses DEF Aside, Beside, IsPausing, Owning
  <2>3. CASE loc' = [loc EXCEPT ![p].sbx = NoRec] /\ pc' = pc
    <3>1. loc'[p].req = loc[p].req /\ OnlyMoves(p)
      BY <1>1, <2>3 DEF TypeOK, Locals, OnlyMoves
    <3>2. PathInv(p)'
      BY <1>1, <2>1, <2>3, <3>1 DEF PathInv, PausePath
    <3> QED
      BY <2>1, <2>3, <3>1, <3>2, AsidePauses DEF Aside, Beside, IsPausing, Owning
  <2> QED
    BY <1>4, <2>2, <2>3 DEF UndoPlace
<1> QED
  BY <1>2, <1>3, <1>4

\* A keep-alive touches running records only.
LEMMA KeepAlivePauses ==
    ASSUME TypeOK, PauseInv, NEW p \in Procs, KeepAliveRead(p) \/ KeepAliveWrite(p)
    PROVE  PauseInv'
<1>1. PathInv(p) /\ loc[p] \in Locals
  BY DEF PauseInv, TypeOK
<1>2. /\ Grows /\ pc[p] \in {"upd_lock", "upd_set"}
      /\ pc[p] = "upd_set" => rec' = loc[p].sbx
      /\ pc[p] # "upd_set" => rec' = rec
  BY SettledSame DEF KeepAliveRead, KeepAliveWrite, nodeVars
<1>3. rec' = rec \/ rec'.st # "pausing"
  BY <1>1, <1>2 DEF PathInv
<1>4. CASE \E o : Return(p, o)
  BY <1>2, <1>3, <1>4, ReturnPath, AsidePauses DEF Aside, Beside, IsPausing, Owning
<1>5. CASE Goto(p, "upd_index") /\ loc' = loc
  <2>1. PathInv(p)'
    BY <1>1, <1>2, <1>5 DEF PathInv, PausePath, Goto, TypeOK
  <2> QED
    BY <1>2, <1>3, <1>5, <2>1, AsidePauses DEF Aside, Beside, IsPausing, Owning, OnlyMoves, Goto,
       TypeOK
<1>6. ASSUME NEW r, r.st # "pausing", Goto(p, "upd_set"),
             loc' = [loc EXCEPT ![p] = [loc[p] EXCEPT !.sbx = r, !.old = rec.end]]
      PROVE  PauseInv'
  <2>1. /\ loc'[p].req = loc[p].req /\ loc'[p].sbx = r
        /\ OnlyMoves(p) /\ pc'[p] = "upd_set"
    BY <1>1, <1>6 DEF TypeOK, Locals, OnlyMoves, Goto
  <2>2. PathInv(p)'
    BY <1>1, <1>2, <1>6, <2>1 DEF PathInv, PausePath
  <2> QED
    BY <1>2, <1>3, <2>1, <2>2, AsidePauses DEF Aside, Beside, IsPausing, Owning
<1>7. CASE KeepAliveRead(p)
  <2>1. ASSUME NEW e, NEW a \in BOOLEAN, rec.st = "running", Goto(p, "upd_set"),
               loc' = [loc EXCEPT ![p] = [loc[p] EXCEPT
                         !.sbx = IF ~a /\ e < rec.end THEN rec ELSE [rec EXCEPT !.end = e],
                         !.old = rec.end]]
        PROVE  PauseInv'
    <3> DEFINE r == IF ~a /\ e < rec.end THEN rec ELSE [rec EXCEPT !.end = e]
    <3>1. r.st = "running"
      BY <2>1 DEF TypeOK, Sandboxes
    <3>2. loc' = [loc EXCEPT ![p] = [loc[p] EXCEPT !.sbx = r, !.old = rec.end]]
      BY <2>1
    <3> HIDE DEF r
    <3> QED
      BY <1>6, <2>1, <3>1, <3>2
  <2> QED
    BY <1>4, <1>7, <2>1 DEF KeepAliveRead
<1>8. CASE KeepAliveWrite(p)
  BY <1>4, <1>5, <1>8 DEF KeepAliveWrite
<1> QED
  BY <1>7, <1>8

\* The owner of a kill or a snapshot.
LEMMA OtherOwnerPauses ==
    ASSUME TypeOK, Exclusion, PauseInv, NEW p \in Procs, loc[p].act # "pause",
           \/ KillOnNode(p) \/ CheckpointOnNode(p) \/ RemoveRecord(p) \/ RemoveIndex(p)
           \/ ReleaseReservation(p) \/ CallbackResult(p) \/ CallbackDelete(p)
           \/ RestoreRead(p) \/ RestoreWrite(p) \/ CancelledRemoval(p)
           \/ OwnerCommandFails(p)
    PROVE  PauseInv'
<1>1. PathInv(p) /\ ReadInv(p) /\ loc[p] \in Locals /\ loc[p].req # "pause"
  BY DEF PauseInv, PathInv, TypeOK
<1>2. pc[p] \in Owning /\ Grows
  <2>1. /\ pc[p] \in Owning /\ snaps' = snaps /\ failed \subseteq failed'
        /\ lost' = lost
    BY DEF KillOnNode, CheckpointOnNode, RemoveRecord, RemoveIndex, ReleaseReservation,
       CallbackResult, CallbackDelete, RestoreRead, RestoreWrite, CancelledRemoval,
       OwnerCommandFails, LoseOutcome, redisVars, nodeVars, Owning
  <2> QED
    BY <2>1 DEF Grows, Settled
<1>3. rec' = rec \/ rec'.st # "pausing" \/ rec'.ex \in Settled'
  <2>1. CASE RestoreWrite(p)
    BY <1>1, <1>2, <2>1 DEF RestoreWrite, ReadInv, Grows
  <2>2. CASE ~RestoreWrite(p)
    BY <2>2 DEF KillOnNode, CheckpointOnNode, RemoveRecord, RemoveIndex, RestoreRead,
       ReleaseReservation, CallbackResult, CallbackDelete, CancelledRemoval,
       OwnerCommandFails, redisVars, NoRec
  <2> QED
    BY <2>1, <2>2
<1>4. CASE \E o : Return(p, o) \/ Removed(p, o)
  BY <1>1, <1>2, <1>3, <1>4, ReturnPath, RemovedPath, AsidePauses
     DEF Aside, Beside, IsPausing, Owning
<1>5. ASSUME OnlyMoves(p), loc'[p].req = loc[p].req,
             loc'[p].act \in {loc[p].act, "kill"},
             pc'[p] \in (Owning \ {"node", "restore", "restore_set"}) \cup {"sr_lock"}
      PROVE  PauseInv'
  <2>1. PathInv(p)'
    BY <1>1, <1>5 DEF PathInv, Owning
  <2> QED
    BY <1>2, <1>3, <1>5, <2>1, AsidePauses DEF Aside, Beside, IsPausing, Owning
<1> USE DEF Goto, TypeOK, Locals, OnlyMoves, Owning
<1>6. CASE \/ KillOnNode(p) \/ RemoveRecord(p) \/ RemoveIndex(p)
           \/ ReleaseReservation(p) \/ CallbackResult(p) \/ RestoreWrite(p)
  BY <1>5, <1>6 DEF KillOnNode, RemoveRecord, RemoveIndex, ReleaseReservation,
     CallbackResult, RestoreWrite
<1>7. CASE CallbackReturns(p)
  <2>1. CASE /\ loc' = [loc EXCEPT ![p] = [loc[p] EXCEPT !.act = "kill", !.err = "nil"]]
             /\ Goto(p, "sr_lock")
    <3>1. loc'[p].req = loc[p].req /\ loc'[p].act = "kill"
      BY <2>1
    <3> QED
      BY <1>5, <2>1, <3>1
  <2> QED
    BY <1>4, <1>7, <2>1 DEF CallbackReturns
<1>8. CASE CheckpointOnNode(p)
  <2>1. CASE loc' = [loc EXCEPT ![p].err = "failed"] /\ Goto(p, "cb")
    BY <1>5, <2>1
  <2>2. CASE loc' = loc /\ Goto(p, "restore")
    <3>1. PathInv(p)'
      BY <1>1, <1>8, <2>2 DEF PathInv, CheckpointOnNode
    <3> QED
      BY <1>2, <1>3, <2>2, <3>1, AsidePauses DEF Aside, Beside, IsPausing
  <2> QED
    BY <1>8, <2>1, <2>2 DEF CheckpointOnNode
<1>9. CASE RestoreRead(p)
  <2>1. CASE loc' = [loc EXCEPT ![p].err = "restore"] /\ Goto(p, "cb")
    BY <1>5, <2>1
  <2>2. CASE loc' = [loc EXCEPT ![p].sbx = Restored(rec)] /\ Goto(p, "restore_set")
    <3>1. pc[p] = "restore" /\ (rec.st = "pausing" => rec.ex \in Settled)
      BY <1>9, RestoringAlone DEF RestoreRead
    <3>2. Restored(rec).st = "pausing" => Restored(rec).ex \in Settled
      BY <3>1 DEF Restored, Sandboxes
    <3>3. /\ loc'[p].sbx = Restored(rec)
          /\ loc'[p].req = loc[p].req /\ loc'[p].act = loc[p].act
          /\ pc'[p] = "restore_set" /\ OnlyMoves(p)
      BY <2>2
    <3>4. PathInv(p)'
      BY <1>1, <3>1, <3>3 DEF PathInv
    <3>5. ReadInv(p)' /\ AwaitInv(p)'
      BY <1>2, <3>2, <3>3 DEF ReadInv, AwaitInv, Grows
    <3> QED
      BY <1>2, <1>3, <3>3, <3>4, <3>5, BesidePauses DEF Beside, IsPausing
  <2> QED
    BY <1>9, <2>1, <2>2 DEF RestoreRead
<1>10. CASE CallbackDelete(p) \/ CancelledRemoval(p)
  BY <1>4, <1>7, <1>10 DEF CallbackDelete, CancelledRemoval
<1>11. CASE OwnerCommandFails(p)
  <2>1. ASSUME NEW l \in {"rm_release", "cb"}, Goto(p, l), loc' = loc
        PROVE  PauseInv'
    BY <1>5, <2>1
  <2>2. CASE loc' = [loc EXCEPT ![p].err = "restore"] /\ Goto(p, "cb")
    BY <1>5, <2>2
  <2> QED
    BY <1>7, <1>11, <2>1, <2>2 DEF OwnerCommandFails
<1> QED
  BY <1>6, <1>8, <1>9, <1>10, <1>11

\* The owner of a pause that is not yet at its end.
LEMMA GoesOnPauses ==
    ASSUME PauseInv, NEW p \in Procs, IsPausing(p), OnlyMoves(p), IsPausing(p)',
           loc'[p].sbx = loc[p].sbx, loc'[p].tid = loc[p].tid, PathInv(p)',
           KnowsInv(p)', Grows, pc'[p] # "restore_set",
           \/ /\ rec' = rec
              /\ pc[p] \in {"node", "rm"} =>
                    pc'[p] \in {"node", "rm"} \/ loc[p].sbx.ex \in Settled'
           \/ rec' = NoRec /\ \A q \in Procs : pc[q] # "sr_check"
    PROVE  PauseInv'
<1>1. \A q \in Procs \ {p} : PathInv(q)' /\ KnowsInv(q)' /\ ReadInv(q)' /\ AwaitInv(q)'
  BY OthersPause
<1>2. ReadInv(p)' /\ AwaitInv(p)'
  BY DEF IsPausing, Owning, ReadInv, AwaitInv
<1>3. rec'.st = "pausing" => Driven(rec.ex)' \/ rec'.ex \in Settled'
  <2> SUFFICES ASSUME rec'.st = "pausing"
               PROVE  Driven(rec.ex)' \/ rec'.ex \in Settled'
    OBVIOUS
  <2>1. /\ rec' = rec
        /\ pc[p] \in {"node", "rm"} =>
              pc'[p] \in {"node", "rm"} \/ loc[p].sbx.ex \in Settled'
    BY DEF NoRec
  <2>2. ASSUME NEW q \in Procs, Pausing(q, rec.ex), pc[q] \in {"node", "rm"}
        PROVE  Driven(rec.ex)' \/ rec.ex \in Settled'
    BY <2>1, <2>2 DEF IsPausing, Driven, Pausing, OnlyMoves
  <2> QED
    BY <2>1, <2>2 DEF PauseInv, Driven, Grows
<1> QED
  BY <1>1, <1>2, <1>3 DEF PauseInv

\* The owner of a pause leaves: the waiters find the error, or the pause is settled.
LEMMA LeavesPauses ==
    ASSUME PauseInv, NEW p \in Procs, IsPausing(p), OnlyMoves(p), Grows, rec' = rec,
           PathInv(p)', pc'[p] \in {"idle", "del_snap", "crashed"},
           loc[p].tid \in failed' \/ loc[p].sbx.ex \in Settled',
           pc[p] \in {"node", "rm"} => loc[p].sbx.ex \in Settled'
    PROVE  PauseInv'
<1>1. \A q \in Procs \ {p} : PathInv(q)' /\ KnowsInv(q)' /\ ReadInv(q)' /\ AwaitInv(q)'
  BY OthersPause
<1>2. KnowsInv(p)' /\ ReadInv(p)' /\ AwaitInv(p)'
  BY DEF KnowsInv, ReadInv, AwaitInv, Owning
<1>3. rec'.st = "pausing" => Driven(rec.ex)' \/ rec'.ex \in Settled'
  <2>1. ASSUME Driven(rec.ex) PROVE Driven(rec.ex)' \/ rec.ex \in Settled'
    BY <2>1 DEF Driven, Pausing, OnlyMoves
  <2> QED
    BY <2>1 DEF PauseInv, Grows
<1> QED
  BY <1>1, <1>2, <1>3 DEF PauseInv

LEMMA OwnerPauses ==
    ASSUME TypeOK, Exclusion, PauseInv, NEW p \in Procs, loc[p].act = "pause",
           \/ PauseOnNode(p) \/ RemoveRecord(p) \/ RemoveIndex(p) \/ ReleaseReservation(p)
           \/ CallbackResult(p)
    PROVE  PauseInv'
<1>1. PathInv(p) /\ KnowsInv(p) /\ loc[p] \in Locals
  BY DEF PauseInv, TypeOK
<1> USE DEF Goto, TypeOK, Locals, OnlyMoves
<1>2. IsPausing(p) /\ OnlyMoves(p)
  BY DEF PauseOnNode, RemoveRecord, RemoveIndex, ReleaseReservation, CallbackResult,
     IsPausing, Owning
<1>3. /\ pc'[p] \in Owning \ {"node", "restore", "restore_set"}
      /\ loc'[p].act = "pause" /\ loc'[p].sbx = loc[p].sbx /\ loc'[p].tid = loc[p].tid
      /\ loc'[p].req = loc[p].req
  BY DEF PauseOnNode, RemoveRecord, RemoveIndex, ReleaseReservation, CallbackResult, Owning
<1>4. PathInv(p)' /\ IsPausing(p)'
  BY <1>1, <1>3 DEF PathInv, IsPausing, Owning, PausePath
<1>5. CASE PauseOnNode(p)
  <2>1. /\ pc'[p] = "rm" /\ rec' = rec /\ failed' = failed /\ snaps \subseteq snaps'
        /\ lost' = lost
        /\ loc'[p].err = "failed" \/ loc[p].sbx.ex \in snaps'
    BY <1>5 DEF PauseOnNode, redisVars
  <2>2. KnowsInv(p)' /\ Grows
    BY <1>3, <2>1 DEF KnowsInv, Grows, Settled
  <2> QED
    BY <1>2, <1>3, <1>4, <2>1, <2>2, GoesOnPauses
<1>6. CASE RemoveRecord(p) \/ RemoveIndex(p) \/ ReleaseReservation(p)
  <2>1. /\ pc[p] \in Owning \ {"node"} /\ pc'[p] # "cb_del"
        /\ UNCHANGED <<snaps, lost, failed, loc>>
    BY <1>6 DEF RemoveRecord, RemoveIndex, ReleaseReservation, Owning, nodeVars
  <2>2. KnowsInv(p)' /\ Grows
    BY <1>1, <1>3, <2>1, SettledSame DEF KnowsInv
  <2>3. CASE RemoveRecord(p)
    <3>1. rec' = NoRec /\ lock = None
      BY <2>3 DEF RemoveRecord
    <3>2. \A q \in Procs : pc[q] # "sr_check"
      BY <3>1, ConstantsAssumption DEF Exclusion, LockHeld, Locked, Procs
    <3> QED
      BY <1>2, <1>3, <1>4, <2>1, <2>2, <3>1, <3>2, GoesOnPauses
  <2>4. CASE RemoveIndex(p) \/ ReleaseReservation(p)
    <3>1. rec' = rec /\ pc[p] \notin {"node", "rm"}
      BY <2>4 DEF RemoveIndex, ReleaseReservation
    <3> QED
      BY <1>2, <1>3, <1>4, <2>1, <2>2, <3>1, GoesOnPauses
  <2> QED
    BY <1>6, <2>3, <2>4
<1>7. CASE CallbackResult(p)
  <2>1. /\ pc[p] = "cb" /\ pc'[p] = "cb_del" /\ UNCHANGED <<rec, snaps, loc>>
        /\ \/ /\ failed' = IF ResultIsError(loc[p]) THEN failed \cup {loc[p].tid} ELSE failed
              /\ lost' = lost
           \/ LoseOutcome(p) /\ failed' = failed
    BY <1>7 DEF CallbackResult
  <2>2. loc[p].err # "nil" => ResultIsError(loc[p])
    BY <1>1 DEF ResultIsError, Transient
  <2>3. Grows /\ (loc[p].tid \in failed' \/ loc[p].err = "nil" \/ loc[p].sbx.ex \in Settled')
    <3>1. CASE LoseOutcome(p) /\ failed' = failed
      BY <1>2, <2>1, <3>1, LosesOutcome
    <3>2. CASE /\ failed' = IF ResultIsError(loc[p]) THEN failed \cup {loc[p].tid} ELSE failed
               /\ lost' = lost
      BY <2>1, <2>2, <3>2 DEF Grows, Settled
    <3> QED
      BY <2>1, <3>1, <3>2
  <2>4. KnowsInv(p)'
    BY <1>1, <1>3, <2>1, <2>3 DEF KnowsInv, Owning
  <2> QED
    BY <1>2, <1>3, <1>4, <2>1, <2>3, <2>4, GoesOnPauses
<1> QED
  BY <1>5, <1>6, <1>7

\* The ends of a pause: the callback, a cancelled context, a failed command.
LEMMA EndsPauses ==
    ASSUME TypeOK, PauseInv, NEW p \in Procs, loc[p].act = "pause",
           CallbackDelete(p) \/ CancelledRemoval(p) \/ OwnerCommandFails(p)
    PROVE  PauseInv'
<1>1. PathInv(p) /\ KnowsInv(p)
  BY DEF PauseInv
<1>2. IsPausing(p) /\ rec' = rec
  BY DEF CallbackDelete, CancelledRemoval, OwnerCommandFails, IsPausing, Owning
<1>3. ASSUME CallbackReturns(p) \/ \E o : Return(p, o)
      PROVE  PathInv(p)' /\ OnlyMoves(p) /\ pc'[p] \in {"idle", "del_snap", "crashed"}
  BY <1>1, <1>3, ReturnPath, RemovedPath DEF CallbackReturns
<1>4. ASSUME pc[p] = "cb_del"
      PROVE  loc[p].tid \in failed \/ loc[p].sbx.ex \in Settled
  BY <1>1, <1>4 DEF KnowsInv, Owning, Settled
<1>5. CASE CallbackDelete(p)
  <2>1. pc[p] = "cb_del" /\ Grows /\ CallbackReturns(p)
    BY <1>5, SettledSame DEF CallbackDelete, nodeVars
  <2> QED
    BY <1>2, <1>3, <1>4, <2>1, LeavesPauses DEF Grows
<1>6. CASE CancelledRemoval(p)
  <2>1. Grows /\ loc[p].sbx.ex \in Settled' /\ \E o : Return(p, o)
    BY <1>2, <1>6, LosesOutcome DEF CancelledRemoval
  <2> QED
    BY <1>2, <1>3, <2>1, LeavesPauses
<1>7. CASE OwnerCommandFails(p)
  <2>1. /\ Grows
        /\ pc[p] \in {"rm", "cb"} => loc[p].sbx.ex \in Settled'
    <3>1. CASE LoseOutcome(p)
      BY <1>2, <1>7, <3>1, LosesOutcome DEF OwnerCommandFails
    <3>2. CASE pc[p] \notin {"rm", "cb"} /\ lost' = lost
      BY <1>7, <3>2, SettledSame DEF OwnerCommandFails
    <3> QED
      BY <1>7, <3>1, <3>2 DEF OwnerCommandFails
  <2>2. ASSUME NEW l \in {"rm_release", "cb"}, Goto(p, l), loc' = loc,
               pc[p] \in {"rm", "rm_index", "rm_release"}
        PROVE  PauseInv'
    <3>1. OnlyMoves(p) /\ pc'[p] = l /\ loc'[p] = loc[p]
      BY <2>2 DEF Goto, TypeOK, OnlyMoves
    <3>2. IsPausing(p)' /\ PathInv(p)'
      BY <1>1, <3>1 DEF IsPausing, Owning, PathInv, PausePath
    <3>3. KnowsInv(p)'
      BY <1>1, <2>1, <2>2, <3>1 DEF KnowsInv, Owning, Grows
    <3> QED
      BY <1>2, <2>1, <2>2, <3>1, <3>2, <3>3, GoesOnPauses
  <2>3. CASE CallbackReturns(p) /\ pc[p] \in {"cb", "cb_del"}
    BY <1>2, <1>3, <1>4, <2>1, <2>3, LeavesPauses DEF Grows
  <2> QED
    BY <1>1, <1>7, <2>2, <2>3 DEF OwnerCommandFails, PathInv
<1> QED
  BY <1>5, <1>6, <1>7

LEMMA CrashPauses ==
    ASSUME TypeOK, PauseInv, NEW p \in Procs, Crash(p)
    PROVE  PauseInv'
<1>1. PathInv(p)
  BY DEF PauseInv
<1>2. /\ OnlyMoves(p) /\ pc'[p] = "crashed" /\ loc' = loc /\ rec' = rec
      /\ Grows /\ (IsPausing(p) => loc[p].sbx.ex \in Settled')
  BY LosesOutcome DEF Crash, Goto, TypeOK, OnlyMoves, redisVars
<1>3. PathInv(p)'
  BY <1>1, <1>2 DEF PathInv
<1>4. CASE IsPausing(p)
  BY <1>2, <1>3, <1>4, LeavesPauses
<1>5. CASE ~IsPausing(p)
  BY <1>2, <1>3, <1>5, AsidePauses DEF Aside, Beside, IsPausing, Owning
<1> QED
  BY <1>4, <1>5

\* StartRemoving takes a pause up: who reads pausing under the lock reads it of the
\* owner, and who decides to wait for the key waits for that owner's.
LEMMA StartRemovingReadPauses ==
    ASSUME TypeOK, PauseInv, NEW p \in Procs, StartRemovingRead(p)
    PROVE  PauseInv'
<1>1. PathInv(p) /\ loc[p] \in Locals
  BY DEF PauseInv, TypeOK
<1>2. pc[p] = "sr_lock" /\ rec' = rec /\ Grows
  BY SettledSame DEF StartRemovingRead, nodeVars
<1>3. CASE Removed(p, "error")
  BY <1>1, <1>2, <1>3, RemovedPath, AsidePauses DEF Aside, Beside, IsPausing, Owning
<1>4. CASE loc' = [loc EXCEPT ![p].sbx = rec] /\ Goto(p, "sr_check")
  <2>1. /\ loc'[p].req = loc[p].req
        /\ loc'[p].act = loc[p].act /\ loc'[p].sbx = rec
        /\ pc'[p] = "sr_check" /\ OnlyMoves(p)
    BY <1>1, <1>4 DEF Goto, TypeOK, Locals, OnlyMoves
  <2>2. PathInv(p)'
    BY <1>1, <2>1 DEF PathInv, PausePath
  <2>3. rec.st = "pausing" => Driven(rec.ex)' \/ rec.ex \in Settled'
    <3>1. Driven(rec.ex) => Driven(rec.ex)'
      BY <1>2, <2>1 DEF Driven, Pausing, Owning, OnlyMoves
    <3> QED
      BY <1>2, <3>1 DEF PauseInv, Grows
  <2>4. ReadInv(p)' /\ AwaitInv(p)'
    BY <1>2, <2>1, <2>3 DEF ReadInv, AwaitInv, Driven, Pausing
  <2>5. Beside(p)
    BY <1>2, <2>1 DEF Beside, IsPausing, Owning
  <2> QED
    BY <2>2, <2>4, <2>5, BesidePauses
<1> QED
  BY <1>3, <1>4 DEF StartRemovingRead

LEMMA StartRemovingCheckPauses ==
    ASSUME TypeOK, Exclusion, PauseInv, NEW p \in Procs, StartRemovingCheck(p)
    PROVE  PauseInv'
<1>1. PathInv(p) /\ ReadInv(p) /\ loc[p] \in Locals
  BY DEF PauseInv, TypeOK
<1>2. pc[p] = "sr_check" /\ rec' = rec /\ Grows
  BY SettledSame DEF StartRemovingCheck, nodeVars
<1>3. CASE \E o : Return(p, o) \/ Removed(p, o)
  BY <1>1, <1>2, <1>3, ReturnPath, RemovedPath, AsidePauses DEF Aside, Beside, IsPausing, Owning
<1>4. CASE Goto(p, "sr_start") /\ loc' = loc
  <2>1. PathInv(p)'
    BY <1>1, <1>2, <1>4 DEF Goto, TypeOK, PathInv, PausePath
  <2> QED
    BY <1>2, <1>4, <2>1, AsidePauses DEF Aside, Beside, IsPausing, Owning, OnlyMoves, Goto, TypeOK
<1>5. ASSUME NEW l \in {"wait_same", "wait_diff"}, Goto(p, l),
             loc' = [loc EXCEPT ![p].tid = tkey],
             l = "wait_same" => loc[p].sbx.st = TargetState(loc[p].act)
      PROVE  PauseInv'
  <2>1. /\ loc'[p].req = loc[p].req
        /\ loc'[p].act = loc[p].act /\ loc'[p].sbx = loc[p].sbx /\ loc'[p].tid = tkey
        /\ pc'[p] = l /\ OnlyMoves(p)
    BY <1>1, <1>5 DEF Goto, TypeOK, Locals, OnlyMoves
  <2>2. PathInv(p)'
    BY <1>1, <1>5, <2>1 DEF PathInv, PausePath
  <2>3. ASSUME l = "wait_same", loc[p].act = "pause"
        PROVE  AwaitInv(p)'
    <3>1. loc[p].sbx.st = "pausing"
      BY <1>5, <2>3 DEF TargetState
    <3>2. ASSUME NEW q \in Procs, Pausing(q, loc[p].sbx.ex)
          PROVE  AwaitInv(p)'
      <4>1. loc[q].tid = tkey /\ q # p
        BY <1>2, <3>2 DEF Pausing, Exclusion, OwnerKeepsKey, Owning
      <4> QED
        BY <2>1, <3>2, <4>1 DEF AwaitInv, Pausing, OnlyMoves
    <3>3. CASE loc[p].sbx.ex \in Settled
      BY <1>2, <2>1, <3>3 DEF AwaitInv, Grows
    <3> QED
      BY <1>1, <1>2, <3>1, <3>2, <3>3 DEF ReadInv, Driven
  <2>4. ReadInv(p)' /\ AwaitInv(p)'
    BY <1>5, <2>1, <2>3 DEF ReadInv, AwaitInv
  <2>5. Beside(p)
    BY <1>2, <1>5, <2>1 DEF Beside, IsPausing, Owning
  <2> QED
    BY <2>2, <2>4, <2>5, BesidePauses
<1> QED
  BY <1>3, <1>4, <1>5 DEF StartRemovingCheck

LEMMA StartTransitionPauses ==
    ASSUME TypeOK, PauseInv, NEW p \in Procs, StartTransition(p)
    PROVE  PauseInv'
<1> DEFINE s == loc[p].sbx
           x == IF Transient(loc[p].act) \/ Expired(s, now) THEN s.end ELSE now
           u == [s EXCEPT !.st = TargetState(loc[p].act), !.end = x]
<1>1. PathInv(p) /\ loc[p] \in Locals /\ s \in Sandboxes
  BY DEF PauseInv, TypeOK, Locals
<1>2. /\ pc[p] = "sr_start" /\ pc'[p] = "node" /\ Grows
      /\ rec' = u
      /\ loc' = [loc EXCEPT ![p] = [loc[p] EXCEPT !.sbx = u, !.tid = nextTid]]
  BY SettledSame DEF StartTransition, Goto, TypeOK, nodeVars
<1>3. u.ex = s.ex /\ u.st = TargetState(loc[p].act)
  BY <1>1 DEF Sandboxes
<1> HIDE DEF u
<1>4. /\ loc'[p].req = loc[p].req
      /\ loc'[p].act = loc[p].act /\ loc'[p].sbx = u
  BY <1>1, <1>2 DEF TypeOK, Locals
<1>5. OnlyMoves(p)
  BY <1>2 DEF StartTransition, Goto, OnlyMoves, TypeOK
<1>6. PathInv(p)'
  BY <1>1, <1>2, <1>4 DEF PathInv, PausePath
<1>7. KnowsInv(p)' /\ ReadInv(p)' /\ AwaitInv(p)'
  BY <1>2 DEF KnowsInv, ReadInv, AwaitInv
<1>8. \A q \in Procs \ {p} : PathInv(q)' /\ KnowsInv(q)' /\ ReadInv(q)' /\ AwaitInv(q)'
  BY <1>2, <1>5, OthersPause DEF IsPausing, Owning
<1>9. rec'.st = "pausing" => Driven(rec.ex)'
  <2> SUFFICES ASSUME rec'.st = "pausing" PROVE Driven(rec.ex)'
    OBVIOUS
  <2>1. loc[p].act = "pause"
    BY <1>1, <1>2, <1>3 DEF Locals, Actions, TargetState
  <2> QED
    BY <1>2, <1>3, <1>4, <2>1 DEF Driven, Pausing, Owning
<1> QED
  BY <1>6, <1>7, <1>8, <1>9 DEF PauseInv

\* A result key outlasts its readers and its transition key.
LEMMA ExpiryPauses ==
    ASSUME TypeOK, Exclusion, PauseInv, TTLCovers, Expiry
    PROVE  PauseInv'
<1>1. UNCHANGED <<rec, snaps, lost, pc, loc>> /\ Settled' = Settled
  BY DEF Expiry, LockExpires, TransitionKeyExpires, ResultKeyExpires, PendingExpires,
     nodeVars, Settled
<1>2. CASE ResultKeyExpires
  <2>1. PICK t \in failed :
          /\ \A p \in Procs : ~(pc[p] \in Waiting /\ loc[p].tid = t)
          /\ t # tkey /\ failed' = failed \ {t}
    BY <1>2 DEF ResultKeyExpires
  <2>2. ASSUME NEW p \in Procs
        PROVE  PathInv(p)' /\ KnowsInv(p)' /\ ReadInv(p)' /\ AwaitInv(p)'
    <3>1. PathInv(p) /\ KnowsInv(p) /\ ReadInv(p) /\ AwaitInv(p)
      BY DEF PauseInv
    <3>2. PathInv(p)' /\ ReadInv(p)'
      BY <1>1, <3>1 DEF PathInv, ReadInv, Driven, Pausing
    <3>3. KnowsInv(p)'
      BY <1>1, <2>1, <3>1 DEF KnowsInv, Exclusion, OwnerKeepsKey, Owning
    <3>4. AwaitInv(p)'
      BY <1>1, <2>1, <3>1 DEF AwaitInv, Pausing, Waiting
    <3> QED
      BY <3>2, <3>3, <3>4
  <2> QED
    BY <1>1, <2>2 DEF PauseInv, Driven, Pausing
<1>3. CASE failed' = failed
  BY <1>1, <1>3, StillPauses
<1> QED
  BY <1>2, <1>3 DEF Expiry, LockExpires, TransitionKeyExpires, PendingExpires

LEMMA StepPauses ==
    ASSUME TypeOK, Exclusion, PauseInv, TTLCovers, [Next]_vars
    PROVE  PauseInv'
<1>1. ASSUME NEW p \in Procs, Begin(p) \/ StorageStep(p) \/ Cancel(p) \/ Crash(p)
      PROVE  PauseInv'
  <2>1. CASE Cancel(p)
    BY <2>1, StillPauses DEF Cancel, redisVars, nodeVars, TypeOK, Locals
  <2>2. loc[p].act = "pause" => ~KillOnNode(p) /\ ~CheckpointOnNode(p)
                                  /\ ~RestoreRead(p) /\ ~RestoreWrite(p)
    BY DEF KillOnNode, CheckpointOnNode, RestoreRead, RestoreWrite, PauseInv, PathInv
  <2>3. loc[p].act # "pause" => ~PauseOnNode(p)
    BY DEF PauseOnNode
  <2> QED
    BY <1>1, <2>1, <2>2, <2>3, BeginPauses, RequestPauses, EvictGetPauses, CreatePauses,
       KeepAlivePauses, OtherOwnerPauses, OwnerPauses, EndsPauses, CrashPauses,
       StartRemovingReadPauses, StartRemovingCheckPauses, StartTransitionPauses
       DEF StorageStep
<1>2. CASE Tick \/ Quiescent \/ UNCHANGED vars
  BY <1>2, StillPauses DEF Tick, Quiescent, vars, redisVars, nodeVars
<1> QED
  BY <1>1, <1>2, ExpiryPauses DEF Next

\* A step that answers p's pause with success.
LEMMA PauseAnswered ==
    ASSUME TypeOK, Exclusion, PauseInv, [Next]_vars, NEW p \in Procs,
           loc[p].req = "pause", pc[p] # "idle", pc'[p] = "idle", loc'[p].out = "ok"
    PROVE  \/ loc[p].sbx.ex \in Settled
           \/ RedisFails /\ pc[p] = "wait_same" /\ tkey = loc[p].tid
<1>1. /\ PathInv(p) /\ KnowsInv(p) /\ ReadInv(p) /\ AwaitInv(p)
      /\ pc[p] \in PausePath \cup {"crashed"} /\ loc[p].act = "pause"
  BY DEF PauseInv, PathInv
<1>2. ASSUME NEW o, Removed(p, o)
      PROVE  o = "ok"
  BY <1>2, ReturnLocals DEF Removed
<1>3. ASSUME NEW o, Return(p, o)
      PROVE  o = "ok"
  BY <1>3, ReturnLocals
<1>4. CASE StartRemovingCheck(p)
  <2>1. pc[p] = "sr_check" /\ (\/ tkey = 0 /\ loc[p].sbx.st = "pausing"
                               \/ \E o \in {"error"} : Return(p, o)
                               \/ Goto(p, "wait_same") \/ Goto(p, "wait_diff")
                               \/ Goto(p, "sr_start"))
    BY <1>1, <1>4 DEF StartRemovingCheck, TargetState
  <2>2. tkey = 0 /\ loc[p].sbx.st = "pausing"
    BY <1>3, <2>1 DEF Goto, TypeOK
  <2>3. ~ Driven(loc[p].sbx.ex)
    BY <2>2 DEF Driven, Pausing, Exclusion, OwnerKeepsKey
  <2> QED
    BY <1>1, <2>1, <2>2, <2>3 DEF ReadInv
<1>5. CASE WaitTransition(p)
  <2>1. /\ pc[p] = "wait_same" /\ loc[p].tid \notin failed
        /\ tkey # loc[p].tid \/ RedisFails
    BY <1>1, <1>3, <1>5 DEF WaitTransition, Waiting, PausePath, Goto, TypeOK
  <2>2. CASE tkey # loc[p].tid
    BY <1>1, <2>1, <2>2 DEF AwaitInv, Pausing, Exclusion, OwnerKeepsKey
  <2> QED
    BY <2>1, <2>2
<1>6. CASE CallbackDelete(p) \/ CancelledRemoval(p) \/ OwnerCommandFails(p)
  <2>1. pc[p] \in Owning \ {"node"} /\ loc[p].err = "nil"
    <3>1. CASE CallbackReturns(p) /\ pc[p] \in {"cb", "cb_del"}
      BY <1>1, <1>3, <3>1 DEF CallbackReturns, Owning
    <3>2. CASE CancelledRemoval(p)
      BY <1>3, <3>2 DEF CancelledRemoval, Owning
    <3>3. CASE OwnerCommandFails(p) /\ pc[p] \notin {"cb", "cb_del"}
      BY <3>3 DEF OwnerCommandFails, Goto, TypeOK
    <3> QED
      BY <1>6, <3>1, <3>2, <3>3 DEF CallbackDelete, OwnerCommandFails
  <2> QED
    BY <1>1, <2>1 DEF KnowsInv, Settled
<1>7. CASE \/ StartRemovingRead(p) \/ StartTransition(p) \/ PauseOnNode(p) \/ RemoveRecord(p)
           \/ RemoveIndex(p) \/ ReleaseReservation(p) \/ CallbackResult(p)
           \/ KillOnNode(p) \/ CheckpointOnNode(p)
  BY <1>2, <1>7 DEF StartRemovingRead, StartTransition, PauseOnNode, RemoveRecord,
     RemoveIndex, ReleaseReservation, CallbackResult, KillOnNode, CheckpointOnNode, Goto, TypeOK
<1>8. CASE \/ Begin(p) \/ RestoreRead(p)
           \/ RestoreWrite(p) \/ DeleteSnapshot(p) \/ KeepAliveRead(p) \/ KeepAliveWrite(p)
           \/ KeepAliveIndex(p) \/ ResumeGet(p) \/ ResumeWait(p) \/ ResumeSnapshot(p)
           \/ Reserve(p) \/ WaitForStart(p) \/ Place(p) \/ AddIndex(p) \/ AddRecord(p)
           \/ FailedAdd(p) \/ FinishStart(p) \/ UndoPlace(p) \/ EvictScan(p)
           \/ EvictGet(p) \/ EvictOrphan(p)
  BY <1>1, <1>8 DEF Begin, RestoreRead, RestoreWrite,
     DeleteSnapshot, KeepAliveRead, KeepAliveWrite, KeepAliveIndex, ResumeGet, ResumeWait,
     ResumeSnapshot, Reserve, WaitForStart, Place, AddIndex, AddRecord, FailedAdd,
     FinishStart, UndoPlace, EvictScan, EvictGet, EvictOrphan, PausePath, PathInv
<1>9. CASE FailedReturn(p)
  <2>1. Return(p, "error")
    BY <1>1, <1>9 DEF FailedReturn, SeenKilled
  <2> QED
    BY <1>3, <2>1
<1>10. CASE Cancel(p) \/ Crash(p)
  BY <1>10 DEF Cancel, Crash, Goto, TypeOK
<1>11. ASSUME NEW q \in Procs, q # p,
              Begin(q) \/ StorageStep(q) \/ Cancel(q) \/ Crash(q)
       PROVE  pc'[p] = pc[p]
  <2>1. CASE Begin(q) \/ Cancel(q) \/ CalmStep(q) \/ StartRemovingCheck(q)
    BY <1>11, <2>1, TameSteps, BeginTame DEF TameStep, Tame, OnlyMoves
  <2>2. CASE \/ StartRemovingRead(q) \/ StartTransition(q) \/ RemoveRecord(q)
             \/ RestoreRead(q) \/ RestoreWrite(q) \/ KeepAliveRead(q) \/ KeepAliveWrite(q)
             \/ Place(q) \/ AddRecord(q)
    BY <1>11, <2>2, ReturnMoves, RemovedMoves
       DEF StartRemovingRead, StartTransition, RemoveRecord, RestoreRead, RestoreWrite,
           KeepAliveRead, KeepAliveWrite, Place, AddRecord, Goto, TypeOK, OnlyMoves
  <2>3. CASE Crash(q)
    BY <1>11, <2>3 DEF Crash, Goto, TypeOK
  <2> QED
    BY <1>11, <2>1, <2>2, <2>3 DEF StorageStep, CalmStep
<1>12. CASE Tick \/ Expiry \/ Quiescent \/ UNCHANGED vars
  BY <1>12 DEF Tick, Expiry, LockExpires, TransitionKeyExpires, ResultKeyExpires,
     PendingExpires, Quiescent, vars
<1> QED
  BY <1>4, <1>5, <1>6, <1>7, <1>8, <1>9, <1>10, <1>11, <1>12 DEF Next, StorageStep

\* A pause that is answered with success is complete, also when the answer comes
\* from waiting for another request's or the evictor's pause: for any number of
\* requests, with failures of the node, the database and Redis, with crashed
\* instances and cancelled requests.  The exceptions are those the property names:
\* the pause's owner was cut off before it could tell, or Redis failed the waiter's
\* poll (StartRemoving, createCallback, handleExistingTransition).
THEOREM PauseAnswersAreTrue ==
    ASSUME TTLCovers
    PROVE  Spec => PauseAnswerIsTrue
<1>1. Init => PauseInv
  <2> SUFFICES ASSUME Init PROVE PauseInv
    OBVIOUS
  <2>1. /\ rec.st = "running"
        /\ \A p \in Procs : pc[p] = "idle" /\ loc[p] = IdleLocals(MaxRequests)
    BY DEF Init
  <2> QED
    BY <2>1 DEF PauseInv, PathInv, KnowsInv, ReadInv, AwaitInv, IdleLocals, Owning
<1>2. TypeOK /\ Exclusion /\ PauseInv /\ [Next]_vars => Exclusion' /\ PauseInv'
  BY StepExcludes, StepPauses
<1>3. TypeOK /\ Exclusion /\ PauseInv /\ [Next]_vars
        => [\A p \in Procs :
              /\ loc[p].req = "pause" /\ pc[p] # "idle" /\ pc'[p] = "idle"
              /\ loc'[p].out = "ok"
              => \/ loc[p].sbx.ex \in snaps \cup lost
                 \/ RedisFails /\ pc[p] = "wait_same" /\ tkey = loc[p].tid]_vars
  BY PauseAnswered DEF Settled
<1>4. QED
  BY <1>1, <1>2, <1>3, InitExcludes, TypeCorrect, PTL DEF Spec, PauseAnswerIsTrue
===============================================================================
