--------------------------- MODULE MemoryStoreProofs ---------------------------
(***************************************************************************)
(* Proofs about MemoryStore, for every number of goroutines, objects,      *)
(* requests and executions.                                                *)
(***************************************************************************)
EXTENDS MemoryStore, WellFoundedInduction, TLAPS

\* Where a goroutine has a pointer to an object.
Pointing == Owning \cup {"sr_lock", "wait", "upd_lock", "res_read", "wait_res"}

\* The only labels of the synchronisation.
SyncLabels == {"idle", "sy_expire", "sy_check", "add_item", "add_reserve"}

\* A pointer leads to an object that is not garbage.
Pointers ==
    \A p \in Procs : /\ pc[p] \in Pointing => loc[p].it # 0
                     /\ loc[p].it # 0 => items[loc[p].it].st \in States

\* An object's transition is open exactly while somebody drives it.
OwnersOpen ==
    /\ \A p \in Procs : pc[p] \in Owning => items[loc[p].it].tr = "open"
    /\ \A o \in Items : items[o].tr = "open" =>
          \E p \in Procs : pc[p] \in Owning /\ loc[p].it = o

WaitersOpen ==
    \A p \in Procs : loc[p].got = "unset" /\ pc[p] \in {"wait", "wait_res"}
        => items[loc[p].it].tr = "open"

\* A reservation in progress is that of a request that is starting the sandbox,
\* and so is the one a goroutine waits for.
Starters ==
    /\ \A s \in Syncers : pc[s] \in SyncLabels
    /\ res \notin {"none", "done"} => res \in Procs \ Syncers /\ pc[res] \in Creating
    /\ \A p \in Procs : loc[p].got = "unset" /\ pc[p] = "wait_start"
          => loc[p].on \in Procs \ Syncers /\ pc[loc[p].on] \in Creating

\* Where a goroutine has an execution it got from the node: a synchronisation its
\* list, a request the sandbox it placed.
Listing == {"sy_expire", "sy_check", "add_item"}

\* Executions come from Place, in order, and what is stored has one.
Executions ==
    /\ addr < nextEx
    /\ \A o \in Items : items[o].ex < nextEx /\ (items[o].st # "absent" => items[o].ex # 0)
    /\ \A p \in Procs : pc[p] \in Listing =>
          loc[p].ex < nextEx /\ (pc[p] = "add_item" => loc[p].ex # 0)

\* While a synchronisation holds an empty list, a sandbox that is on the node
\* after all was placed later, and its item is in its grace period.
ListOutdated ==
    \A s \in Syncers :
        pc[s] = "sy_expire" /\ loc[s].ex = 0 /\ addr # 0 /\ cur # 0 /\ items[cur].ex = addr
        => ~old

Types == TypeOK /\ Pointers

-----------------------------------------------------------------------------
(* Types.                                                                  *)

\* A step of p that moves p and sets its locals: its pointer is the one it had, the
\* one in the map, or none.
Shape(p) ==
    /\ pc' \in [Procs -> Labels] /\ loc' \in [Procs -> Locals]
    /\ \A q \in Procs \ {p} : pc'[q] = pc[q] /\ loc'[q] = loc[q]
    /\ loc'[p].it \in {0, loc[p].it, cur}
    /\ pc'[p] \in Pointing => loc'[p].it # 0

LEMMA IdleType ==
    ASSUME NEW b \in Nat
    PROVE  IdleLocals(b) \in Locals /\ IdleLocals(b).it = 0
BY MemoryAssumption DEF IdleLocals, Locals, Actions, States, RequestKinds

LEMMA RequestType ==
    ASSUME NEW r \in Locals, NEW k \in RequestKinds
    PROVE  [r EXCEPT !.req = k] \in Locals /\ [r EXCEPT !.req = k].it = r.it
BY DEF Locals

LEMMA ActionType ==
    ASSUME NEW r \in Locals, NEW k \in RequestKinds \cup {"evict"}, NEW a \in Actions
    PROVE  /\ [r EXCEPT !.req = k, !.act = a] \in Locals
           /\ [r EXCEPT !.req = k, !.act = a].it = r.it
BY DEF Locals

LEMMA SeenType ==
    ASSUME NEW r \in Locals, NEW s \in States, NEW g \in {"unset", "nil", "err"}
    PROVE  /\ [r EXCEPT !.seen = s, !.got = g] \in Locals
           /\ [r EXCEPT !.seen = s, !.got = g].it = r.it
BY DEF Locals

LEMMA AgainType ==
    ASSUME NEW r \in Locals
    PROVE  /\ [r EXCEPT !.got = "unset", !.seen = "running"] \in Locals
           /\ [r EXCEPT !.got = "unset", !.seen = "running"].it = r.it
BY DEF Locals, States

\* The new locals of p, one record for another.
LEMMA MoveShape ==
    ASSUME Types, NEW p \in Procs, NEW l \in Labels, NEW r \in Locals,
           Goto(p, l), loc' = [loc EXCEPT ![p] = r],
           r.it \in {0, loc[p].it, cur}, l \in Pointing => r.it # 0
    PROVE  Shape(p)
BY DEF Shape, Goto, Types, TypeOK

LEMMA StayShape ==
    ASSUME Types, NEW p \in Procs, NEW l \in Labels, Goto(p, l), loc' = loc,
           l \in Pointing => loc[p].it # 0
    PROVE  Shape(p)
BY DEF Shape, Goto, Types, TypeOK

LEMMA ReturnShape ==
    ASSUME Types, NEW p \in Procs, Return(p)
    PROVE  Shape(p)
<1>1. loc[p].budget \in Nat
  BY DEF Types, TypeOK, Locals
<1>2. IdleLocals(loc[p].budget) \in Locals /\ IdleLocals(loc[p].budget).it = 0
  BY <1>1, IdleType
<1>3. "idle" \in Labels /\ "idle" \notin Pointing
  BY DEF Labels, Pointing, Owning
<1> QED
  BY <1>2, <1>3, MoveShape DEF Return

LEMMA RemovedShape ==
    ASSUME Types, NEW p \in Procs, Removed(p)
    PROVE  Shape(p)
<1>1. loc[p].budget \in Nat
  BY DEF Types, TypeOK, Locals
<1> DEFINE r == [IdleLocals(loc[p].budget) EXCEPT !.req = "kill"]
<1>2. r \in Locals /\ r.it = 0
  BY <1>1, IdleType, RequestType DEF RequestKinds
<1>3. "del_snap" \in Labels /\ "del_snap" \notin Pointing
  BY DEF Labels, Pointing, Owning
<1>4. CASE loc[p].req = "kill"
  <2>1. Goto(p, "del_snap") /\ loc' = [loc EXCEPT ![p] = r]
    BY <1>4 DEF Removed
  <2> HIDE DEF r
  <2> QED
    BY <1>2, <1>3, <2>1, MoveShape
<1>5. CASE loc[p].req # "kill"
  BY <1>5, ReturnShape DEF Removed
<1> QED
  BY <1>4, <1>5

LEMMA GetShape ==
    ASSUME Types, NEW p \in Procs, StartRemovingGet(p) \/ UpdateGet(p) \/ ResumeLookup(p)
    PROVE  Shape(p)
<1>1. CASE Removed(p) \/ Return(p)
  BY <1>1, ReturnShape, RemovedShape
<1>2. CASE ~(Removed(p) \/ Return(p))
  BY <1>2 DEF StartRemovingGet, UpdateGet, ResumeLookup, Shape, Goto, Types, TypeOK, Locals, Labels
<1> QED
  BY <1>1, <1>2

LEMMA BeginShape ==
    ASSUME Types, NEW p \in Procs, Begin(p)
    PROVE  Shape(p)
<1>1. loc[p].budget - 1 \in Nat
  BY DEF Types, TypeOK, Locals, Begin
<1> DEFINE b == loc[p].budget - 1
<1>2. PICK k \in Requests :
         /\ Goto(p, CASE k \in Actions   -> "sr_get"
                      [] k = "keepalive" -> "upd_get"
                      [] k = "resume"    -> "res_get")
         /\ loc' = [loc EXCEPT ![p] =
                      [IdleLocals(b) EXCEPT
                         !.req = k, !.act = IF k \in Actions THEN k ELSE "kill"]]
  BY DEF Begin
<1> DEFINE a == IF k \in Actions THEN k ELSE "kill"
           l == CASE k \in Actions   -> "sr_get"
                  [] k = "keepalive" -> "upd_get"
                  [] k = "resume"    -> "res_get"
<1>3. k \in RequestKinds /\ a \in Actions
  BY MemoryAssumption DEF Actions
<1>4. l \in Labels /\ l \notin Pointing
  BY <1>3 DEF Labels, Pointing, Owning, RequestKinds, Actions
<1>5. Goto(p, l) /\ loc' = [loc EXCEPT ![p] = [IdleLocals(b) EXCEPT !.req = k, !.act = a]]
  BY <1>2
<1>6. IdleLocals(b) \in Locals /\ IdleLocals(b).it = 0
  BY <1>1, IdleType
<1> HIDE DEF a, b, l
<1>7. [IdleLocals(b) EXCEPT !.req = k, !.act = a] \in Locals
      /\ [IdleLocals(b) EXCEPT !.req = k, !.act = a].it = 0
  BY <1>3, <1>6, ActionType
<1> QED
  BY <1>4, <1>5, <1>7, MoveShape

LEMMA LockedShape ==
    ASSUME Types, NEW p \in Procs, StartRemovingLocked(p)
    PROVE  Shape(p)
<1>1. CASE Removed(p) \/ Return(p)
  BY <1>1, ReturnShape, RemovedShape
<1>2. loc[p] \in Locals /\ loc[p].it # 0 /\ items[loc[p].it].st \in States
  BY DEF Types, TypeOK, Pointers, Pointing, StartRemovingLocked
<1>3. CASE Goto(p, "node") /\ UNCHANGED loc
  BY <1>2, <1>3, StayShape DEF Labels, Owning
<1>4. ASSUME NEW g \in {"unset", "nil", "err"}, Goto(p, "wait"),
             loc' = [loc EXCEPT ![p] = [loc[p] EXCEPT !.seen = items[loc[p].it].st, !.got = g]]
      PROVE  Shape(p)
  <2> DEFINE r == [loc[p] EXCEPT !.seen = items[loc[p].it].st, !.got = g]
  <2>1. r \in Locals /\ r.it = loc[p].it
    BY <1>2, SeenType
  <2>2. loc' = [loc EXCEPT ![p] = r] /\ "wait" \in Labels
    BY <1>4 DEF Labels
  <2> HIDE DEF r
  <2> QED
    BY <1>2, <1>4, <2>1, <2>2, MoveShape
<1> QED
  BY <1>1, <1>3, <1>4 DEF StartRemovingLocked

LEMMA FailedShape ==
    ASSUME Types, NEW p \in Procs, RemoveFailed(p)
    PROVE  Shape(p)
BY ReturnShape, RemovedShape DEF RemoveFailed

LEMMA WaitShape ==
    ASSUME Types, NEW p \in Procs, WaitTransition(p) \/ CancelWait(p)
    PROVE  Shape(p)
<1>1. CASE Removed(p) \/ Return(p) \/ RemoveFailed(p)
  BY <1>1, ReturnShape, RemovedShape, FailedShape
<1>2. ASSUME pc[p] = "wait", Goto(p, "sr_lock"),
             loc' = [loc EXCEPT ![p] = [loc[p] EXCEPT !.got = "unset", !.seen = "running"]]
      PROVE  Shape(p)
  <2> DEFINE r == [loc[p] EXCEPT !.got = "unset", !.seen = "running"]
  <2>1. loc[p] \in Locals /\ loc[p].it # 0
    BY <1>2 DEF Types, TypeOK, Pointers, Pointing
  <2>2. r \in Locals /\ r.it = loc[p].it
    BY <2>1, AgainType
  <2>3. loc' = [loc EXCEPT ![p] = r] /\ "sr_lock" \in Labels
    BY <1>2 DEF Labels
  <2> HIDE DEF r
  <2> QED
    BY <1>2, <2>1, <2>2, <2>3, MoveShape
<1> QED
  BY <1>1, <1>2 DEF WaitTransition, CancelWait

LEMMA NodeShape ==
    ASSUME Types, NEW p \in Procs, KillOnNode(p) \/ PauseOnNode(p) \/ CheckpointOnNode(p)
    PROVE  Shape(p)
<1>1. loc[p] \in Locals /\ loc[p].it # 0
  BY DEF Types, TypeOK, Pointers, Pointing, Owning, KillOnNode, PauseOnNode, CheckpointOnNode
<1> DEFINE r == [loc[p] EXCEPT !.err = TRUE]
<1>2. r \in Locals /\ r.it = loc[p].it
  BY <1>1 DEF Locals
<1>3. loc' = loc \/ loc' = [loc EXCEPT ![p] = r]
  BY DEF KillOnNode, PauseOnNode, CheckpointOnNode
<1>4. PICK l \in {"rm_item", "cb"} : Goto(p, l)
  BY DEF KillOnNode, PauseOnNode, CheckpointOnNode
<1>5. l \in Labels
  BY DEF Labels, Owning
<1> HIDE DEF r
<1> QED
  BY <1>1, <1>2, <1>3, <1>4, <1>5, MoveShape, StayShape

LEMMA StoreShape ==
    ASSUME Types, NEW p \in Procs,
           RemoveItem(p) \/ RemoveRelease(p) \/ AddItem(p) \/ AddReserve(p) \/ SyncExpire(p)
              \/ SyncCheck(p) \/ DeleteSnapshot(p) \/ Update(p) \/ WaitForStart(p)
              \/ ResumeSnapshot(p)
    PROVE  Shape(p)
<1>1. CASE Return(p)
  BY <1>1, ReturnShape
<1>2. CASE ~Return(p)
  <2>1. loc' = loc
    BY <1>2 DEF RemoveItem, RemoveRelease, AddItem, AddReserve, SyncExpire, SyncCheck,
                DeleteSnapshot, Update, WaitForStart, ResumeSnapshot
  <2>2. \/ pc[p] \in {"rm_item", "rm_release"} /\ (Goto(p, "rm_release") \/ Goto(p, "cb"))
        \/ \E l \in {"add_reserve", "finish", "sy_check", "add_item", "reserve"} : Goto(p, l)
    BY <1>2 DEF RemoveItem, RemoveRelease, AddItem, AddReserve, SyncExpire, SyncCheck,
                DeleteSnapshot, Update, WaitForStart, ResumeSnapshot
  <2>3. pc[p] \in {"rm_item", "rm_release"} => loc[p].it # 0
    BY DEF Types, Pointers, Pointing, Owning
  <2>4. /\ {"add_reserve", "finish", "sy_check", "add_item", "reserve"} \subseteq Labels \ Pointing
        /\ "rm_release" \in Labels /\ "cb" \in Labels
    BY DEF Labels, Pointing, Owning, Creating
  <2> QED
    BY <2>1, <2>2, <2>3, <2>4, StayShape
<1> QED
  BY <1>1, <1>2

LEMMA SnapshotShape ==
    ASSUME Types, NEW p \in Procs, ToSnapshot(p)
    PROVE  Shape(p)
<1>1. loc[p].budget \in Nat
  BY DEF Types, TypeOK, Locals
<1> DEFINE r == [IdleLocals(loc[p].budget) EXCEPT !.req = "resume"]
<1>2. r \in Locals /\ r.it = 0
  BY <1>1, IdleType, RequestType DEF RequestKinds
<1>3. Goto(p, "res_snap") /\ loc' = [loc EXCEPT ![p] = r]
  BY DEF ToSnapshot
<1>4. "res_snap" \in Labels /\ "res_snap" \notin Pointing
  BY DEF Labels, Pointing, Owning
<1> HIDE DEF r
<1> QED
  BY <1>2, <1>3, <1>4, MoveShape

LEMMA ResumeShape ==
    ASSUME Types, NEW p \in Procs, ResumeGet(p) \/ ResumeRead(p) \/ ResumeWait(p)
    PROVE  Shape(p)
<1>1. CASE Return(p) \/ ToSnapshot(p)
  BY <1>1, ReturnShape, SnapshotShape
<1>2. CASE Goto(p, "res_wait") /\ loc' = loc
  BY <1>2, StayShape DEF Labels, Pointing, Owning
<1>3. CASE pc[p] = "res_read" /\ Goto(p, "wait_res") /\ loc' = loc
  <2>1. loc[p].it # 0
    BY <1>3 DEF Types, Pointers, Pointing
  <2> QED
    BY <1>3, <2>1, StayShape DEF Labels
<1>4. pc[p] = "res_read" => items[loc[p].it].tr \in {"nil", "open", "failed"}
  <2>1. pc[p] = "res_read" => loc[p].it \in Items
    BY DEF Types, TypeOK, Pointers, Pointing, Locals, Items
  <2> QED
    BY <2>1 DEF Types, TypeOK, MemorySandbox
<1> QED
  BY <1>1, <1>2, <1>3, <1>4 DEF ResumeGet, ResumeRead, ResumeWait

LEMMA ReserveShape ==
    ASSUME Types, NEW p \in Procs, Reserve(p)
    PROVE  Shape(p)
<1>1. CASE Return(p)
  BY <1>1, ReturnShape
<1>2. CASE Goto(p, "place") /\ loc' = loc
  BY <1>2, StayShape DEF Labels, Pointing, Owning, Creating
<1>3. CASE res \notin {"none", "done"} /\ Goto(p, "wait_start") /\ loc' = [loc EXCEPT ![p].on = res]
  <2> DEFINE r == [loc[p] EXCEPT !.on = res]
  <2>1. r \in Locals /\ r.it = loc[p].it
    BY <1>3 DEF Types, TypeOK, Locals
  <2>2. loc' = [loc EXCEPT ![p] = r] /\ "wait_start" \in Labels /\ "wait_start" \notin Pointing
    BY <1>3 DEF Labels, Pointing, Owning
  <2> HIDE DEF r
  <2> QED
    BY <1>3, <2>1, <2>2, MoveShape
<1> QED
  BY <1>1, <1>2, <1>3 DEF Reserve

LEMMA PlaceShape ==
    ASSUME Types, NEW p \in Procs, Place(p) \/ SyncList(p)
    PROVE  Shape(p)
<1>1. loc[p] \in Locals
  BY DEF Types, TypeOK
<1>2. ASSUME NEW e \in 0 .. MaxExec
      PROVE  [loc[p] EXCEPT !.ex = e] \in Locals /\ [loc[p] EXCEPT !.ex = e].it = loc[p].it
  BY <1>1 DEF Locals
<1>3. [loc[p] EXCEPT !.err = TRUE] \in Locals /\ [loc[p] EXCEPT !.err = TRUE].it = loc[p].it
  BY <1>1 DEF Locals
<1>4. {"add_item", "finish", "sy_expire"} \subseteq Labels \ Pointing
  BY DEF Labels, Pointing, Owning, Creating
<1>5. CASE nextEx <= MaxExec /\ Goto(p, "add_item") /\ loc' = [loc EXCEPT ![p].ex = nextEx]
  <2>1. nextEx \in 0 .. MaxExec
    BY <1>5, MemoryAssumption DEF Types, TypeOK
  <2> QED
    BY <1>2, <1>4, <1>5, <2>1, MoveShape
<1>6. CASE Goto(p, "finish") /\ loc' = [loc EXCEPT ![p].err = TRUE]
  BY <1>3, <1>4, <1>6, MoveShape
<1>7. CASE Goto(p, "sy_expire") /\ loc' = [loc EXCEPT ![p].ex = addr]
  <2>1. addr \in 0 .. MaxExec
    BY DEF Types, TypeOK
  <2> QED
    BY <1>2, <1>4, <1>7, <2>1, MoveShape
<1> QED
  BY <1>5, <1>6, <1>7 DEF Place, SyncList

LEMMA ScanShape ==
    ASSUME Types, NEW p \in Procs, EvictScan(p)
    PROVE  Shape(p)
<1>1. loc[p] \in Locals
  BY DEF Types, TypeOK
<1>2. PICK a \in {"kill", "pause"} : loc' = [loc EXCEPT ![p] = [loc[p] EXCEPT !.req = "evict", !.act = a]]
  BY DEF EvictScan
<1> DEFINE r == [loc[p] EXCEPT !.req = "evict", !.act = a]
<1>3. r \in Locals /\ r.it = loc[p].it
  BY <1>1, ActionType DEF Actions
<1>4. Goto(p, "sr_get") /\ loc' = [loc EXCEPT ![p] = r] /\ "sr_get" \in Labels \ Pointing
  BY <1>2 DEF EvictScan, Labels, Pointing, Owning
<1> HIDE DEF r
<1> QED
  BY <1>3, <1>4, MoveShape

\* The two steps of p that also give others the result they wait for.
Wakes(p) ==
    /\ pc' \in [Procs -> Labels] /\ loc' \in [Procs -> Locals]
    /\ \A q \in Procs \ {p} : /\ pc'[q] = pc[q] /\ loc'[q].it = loc[q].it
                              /\ loc'[q].ex = loc[q].ex
    /\ loc'[p].it = 0 /\ loc'[p].ex = 0 /\ loc'[p].got = "unset"
    /\ pc'[p] \in {"idle", "sr_get", "del_snap"}

LEMMA WokenType ==
    ASSUME Types, NEW p \in Procs, NEW o, NEW r \in {"nil", "err"}
    PROVE  /\ Woken(p, o, r) \in [Procs -> Locals]
           /\ \A q \in Procs : /\ Woken(p, o, r)[q].it = loc[q].it
                               /\ Woken(p, o, r)[q].ex = loc[q].ex
                               /\ Woken(p, o, r)[q].on = loc[q].on
           /\ Woken(p, o, r)[p] = loc[p]
BY DEF Types, TypeOK, Woken, Locals

LEMMA CallbackWakes ==
    ASSUME Types, NEW p \in Procs, Callback(p)
    PROVE  Wakes(p)
<1> DEFINE w == Woken(p, loc[p].it, IF loc[p].err /\ ~Transient(loc[p].act) THEN "err" ELSE "nil")
           b == loc[p].budget
<1>1. /\ w \in [Procs -> Locals] /\ w[p] = loc[p]
      /\ \A q \in Procs : w[q].it = loc[q].it /\ w[q].ex = loc[q].ex
  BY WokenType
<1>2. b \in Nat
  BY DEF Types, TypeOK, Locals
<1>3. /\ IdleLocals(b) \in Locals
      /\ IdleLocals(b).it = 0 /\ IdleLocals(b).ex = 0 /\ IdleLocals(b).got = "unset"
  BY <1>2, IdleType DEF IdleLocals
<1>4. \E l \in {"idle", "sr_get", "del_snap"},
         r \in {IdleLocals(b), [IdleLocals(b) EXCEPT !.req = "kill"],
                [IdleLocals(b) EXCEPT !.req = "snapshot", !.act = "kill"]} :
            pc' = [pc EXCEPT ![p] = l] /\ loc' = [w EXCEPT ![p] = r]
  BY <1>1 DEF Callback, Goto
<1> HIDE DEF b, w
<1>5. /\ [IdleLocals(b) EXCEPT !.req = "kill"] \in Locals
      /\ [IdleLocals(b) EXCEPT !.req = "kill"].it = 0
      /\ [IdleLocals(b) EXCEPT !.req = "kill"].ex = 0
      /\ [IdleLocals(b) EXCEPT !.req = "kill"].got = "unset"
  BY <1>3 DEF Locals, RequestKinds
<1>6. /\ [IdleLocals(b) EXCEPT !.req = "snapshot", !.act = "kill"] \in Locals
      /\ [IdleLocals(b) EXCEPT !.req = "snapshot", !.act = "kill"].it = 0
      /\ [IdleLocals(b) EXCEPT !.req = "snapshot", !.act = "kill"].ex = 0
      /\ [IdleLocals(b) EXCEPT !.req = "snapshot", !.act = "kill"].got = "unset"
  BY <1>3 DEF Locals, RequestKinds, Actions
<1>7. PICK l \in {"idle", "sr_get", "del_snap"},
           r \in {IdleLocals(b), [IdleLocals(b) EXCEPT !.req = "kill"],
                  [IdleLocals(b) EXCEPT !.req = "snapshot", !.act = "kill"]} :
            pc' = [pc EXCEPT ![p] = l] /\ loc' = [w EXCEPT ![p] = r]
  BY <1>4
<1>8. r \in Locals /\ r.it = 0 /\ r.ex = 0 /\ r.got = "unset"
  BY <1>3, <1>5, <1>6
<1>9. l \in Labels
  BY DEF Labels
<1> QED
  BY <1>1, <1>7, <1>8, <1>9 DEF Wakes, Types, TypeOK

LEMMA FinishWakes ==
    ASSUME Types, NEW p \in Procs, FinishStart(p)
    PROVE  Wakes(p)
<1>1. loc[p].budget \in Nat
  BY DEF Types, TypeOK, Locals
<1>2. /\ IdleLocals(loc[p].budget) \in Locals /\ IdleLocals(loc[p].budget).it = 0
      /\ IdleLocals(loc[p].budget).ex = 0 /\ IdleLocals(loc[p].budget).got = "unset"
  BY <1>1, IdleType DEF IdleLocals
<1>3. \A q \in Procs : /\ [loc[q] EXCEPT !.on = None, !.got = "nil"] \in Locals
                       /\ [loc[q] EXCEPT !.on = None, !.got = "nil"].it = loc[q].it
                       /\ [loc[q] EXCEPT !.on = None, !.got = "nil"].ex = loc[q].ex
  BY DEF Types, TypeOK, Locals
<1>4. "idle" \in Labels
  BY DEF Labels
<1>5. pc' = [pc EXCEPT ![p] = "idle"]
  BY DEF FinishStart, Goto
<1>6. loc' \in [Procs -> Locals]
  BY <1>2, <1>3 DEF FinishStart, Types, TypeOK
<1>7. \A q \in Procs \ {p} : loc'[q].it = loc[q].it /\ loc'[q].ex = loc[q].ex
  BY <1>3 DEF FinishStart
<1>8. loc'[p] = IdleLocals(loc[p].budget)
  BY DEF FinishStart
<1> QED
  BY <1>2, <1>4, <1>5, <1>6, <1>7, <1>8 DEF Wakes, Types, TypeOK

\* The variables other than the objects and the goroutines.
RestTypes ==
    /\ cur \in 0 .. MaxItems /\ old \in BOOLEAN
    /\ res \in {"none", "done"} \cup Procs
    /\ addr \in 0 .. MaxExec /\ hasSnap \in BOOLEAN
    /\ nextEx \in 1 .. MaxExec + 1

\* No object stops being one.
ItemsStay ==
    /\ items' \in [Items -> MemorySandbox]
    /\ \A o \in Items : items[o].st \in States => items'[o].st \in States

LEMMA StepTypes ==
    ASSUME Types, NEW p \in Procs, Shape(p) \/ Wakes(p), ItemsStay, RestTypes',
           cur' # 0 => items'[cur'].st \in States
    PROVE  Types'
<1>1. TypeOK'
  BY DEF TypeOK, RestTypes, ItemsStay, Shape, Wakes
<1>2. \A q \in Procs : pc[q] \in Pointing => loc[q].it # 0
  BY DEF Types, Pointers
<1>3. \A o \in Items : o = cur \/ (\E q \in Procs : loc[q].it = o) => items[o].st \in States
  BY DEF Types, TypeOK, Pointers, Items
<1>4. cur \in 0 .. MaxItems /\ \A q \in Procs : loc[q].it \in 0 .. MaxItems
  BY DEF Types, TypeOK, Locals
<1>5. \A q \in Procs : loc'[q].it \in {0, loc[q].it, cur}
  BY DEF Shape, Wakes
<1>6. \A q \in Procs : pc'[q] \in Pointing => loc'[q].it # 0
  BY <1>2 DEF Shape, Wakes, Pointing, Owning
<1>7. ASSUME NEW q \in Procs, loc'[q].it # 0
      PROVE  items'[loc'[q].it].st \in States
  <2>1. loc'[q].it \in Items /\ items[loc'[q].it].st \in States
    BY <1>3, <1>4, <1>5, <1>7 DEF Items
  <2> QED
    BY <2>1 DEF ItemsStay
<1> QED
  BY <1>1, <1>6, <1>7 DEF Types, Pointers

LEMMA StartedType ==
    ASSUME NEW i \in MemorySandbox, NEW a \in Actions
    PROVE  /\ Started(i, a) \in MemorySandbox /\ Started(i, a).st \in States
           /\ Started(i, a).tr = "open" /\ Started(i, a).ex = i.ex
BY DEF Started, MemorySandbox, Actions, TargetState, States

LEMMA CompletedType ==
    ASSUME NEW i \in MemorySandbox, NEW a \in Actions, NEW e \in BOOLEAN
    PROVE  /\ Completed(i, a, e) \in MemorySandbox
           /\ i.st \in States => Completed(i, a, e).st \in States
           /\ Completed(i, a, e).tr # "open" /\ Completed(i, a, e).ex = i.ex
BY DEF Completed, MemorySandbox, Actions, TargetState, States, Transient

LEMMA FreshType ==
    ASSUME NEW e \in 0 .. MaxExec, NEW x \in BOOLEAN
    PROVE  /\ [Fresh(e) EXCEPT !.expired = x] \in MemorySandbox
           /\ [Fresh(e) EXCEPT !.expired = x].st = "running"
           /\ [Fresh(e) EXCEPT !.expired = x].tr = "nil"
           /\ [Fresh(e) EXCEPT !.expired = x].ex = e
BY MemoryAssumption DEF Fresh, Free, MemorySandbox, States

LEMMA FreeType == Free \in MemorySandbox /\ Free.st = "absent" /\ Free.tr = "nil" /\ Free.ex = 0
BY MemoryAssumption DEF Free, MemorySandbox

\* A set of objects has a lowest one.
LEMMA Lowest ==
    ASSUME NEW T \in SUBSET Items, T # {}
    PROVE  \E u \in T : \A v \in T : u <= v
<1>1. T \subseteq Nat
  BY MemoryAssumption DEF Items
<1>2. PICK u \in T : \A v \in T : ~(<<v, u>> \in OpToRel(<, Nat))
  BY <1>1, NatLessThanWellFounded, WFMin
<1>3. \A v \in T : ~(v < u)
  BY <1>1, <1>2 DEF OpToRel
<1> QED
  BY <1>1, <1>3

LEMMA Bounds ==
    /\ 0 \in 0 .. MaxItems /\ 0 \in 0 .. MaxExec /\ 1 \in 0 .. MaxItems /\ 1 \in 0 .. MaxExec
    /\ 1 \in Items /\ 2 \in 1 .. MaxExec + 1
    /\ \A e \in 1 .. MaxExec + 1 : e <= MaxExec => e \in 0 .. MaxExec /\ e + 1 \in 1 .. MaxExec + 1
BY MemoryAssumption DEF Items

\* Steps that leave the objects and the map alone.
LEMMA QuietTypes ==
    ASSUME Types, NEW p \in Procs, Shape(p) \/ Wakes(p), UNCHANGED <<items, cur, old>>,
           res' \in {"none", "done"} \cup Procs, addr' \in 0 .. MaxExec,
           hasSnap' \in BOOLEAN, nextEx' \in 1 .. MaxExec + 1
    PROVE  Types'
<1>1. ItemsStay /\ RestTypes' /\ (cur' # 0 => items'[cur'].st \in States)
  BY DEF Types, TypeOK, ItemsStay, RestTypes
<1> QED
  BY <1>1, StepTypes

LEMMA NextTypesQuiet ==
    ASSUME Types, NEW p \in Procs,
           \/ Begin(p) \/ CancelWait(p) \/ StartRemovingGet(p) \/ WaitTransition(p)
           \/ KillOnNode(p) \/ PauseOnNode(p) \/ CheckpointOnNode(p) \/ RemoveRelease(p)
           \/ DeleteSnapshot(p) \/ UpdateGet(p) \/ ResumeGet(p) \/ ResumeLookup(p)
           \/ ResumeRead(p) \/ ResumeWait(p) \/ ResumeSnapshot(p) \/ Reserve(p)
           \/ WaitForStart(p) \/ Place(p) \/ AddReserve(p) \/ FinishStart(p) \/ EvictScan(p)
           \/ SyncList(p) \/ SyncCheck(p)
    PROVE  Types'
<1>1. Shape(p) \/ Wakes(p)
  BY BeginShape, WaitShape, GetShape, NodeShape, StoreShape, ResumeShape, ReserveShape,
     PlaceShape, ScanShape, FinishWakes
<1>2. UNCHANGED <<items, cur, old>>
  BY DEF Begin, CancelWait, StartRemovingGet, WaitTransition, KillOnNode, PauseOnNode,
     CheckpointOnNode, RemoveRelease, DeleteSnapshot, UpdateGet, ResumeGet, ResumeLookup,
     ResumeRead, ResumeWait, ResumeSnapshot, Reserve, WaitForStart, Place, AddReserve,
     FinishStart, EvictScan, SyncList, SyncCheck, storeVars
<1>3. RestTypes
  BY DEF Types, TypeOK, RestTypes
<1>4. res' \in {"none", "done"} \cup Procs
  BY <1>3 DEF RestTypes, Begin, CancelWait, StartRemovingGet, WaitTransition, KillOnNode, PauseOnNode,
     CheckpointOnNode, RemoveRelease, DeleteSnapshot, UpdateGet, ResumeGet, ResumeLookup,
     ResumeRead, ResumeWait, ResumeSnapshot, Reserve, WaitForStart, Place, AddReserve,
     FinishStart, EvictScan, SyncList, SyncCheck, storeVars
<1>5. addr' \in {0, addr} \/ (nextEx <= MaxExec /\ addr' = nextEx)
  BY DEF Begin, CancelWait, StartRemovingGet, WaitTransition, KillOnNode, PauseOnNode,
     CheckpointOnNode, RemoveRelease, DeleteSnapshot, UpdateGet, ResumeGet, ResumeLookup,
     ResumeRead, ResumeWait, ResumeSnapshot, Reserve, WaitForStart, Place, AddReserve,
     FinishStart, EvictScan, SyncList, SyncCheck, worldVars
<1>6. nextEx' = nextEx \/ (nextEx <= MaxExec /\ nextEx' = nextEx + 1)
  BY DEF Begin, CancelWait, StartRemovingGet, WaitTransition, KillOnNode, PauseOnNode,
     CheckpointOnNode, RemoveRelease, DeleteSnapshot, UpdateGet, ResumeGet, ResumeLookup,
     ResumeRead, ResumeWait, ResumeSnapshot, Reserve, WaitForStart, Place, AddReserve,
     FinishStart, EvictScan, SyncList, SyncCheck, worldVars
<1>7. hasSnap' \in {hasSnap, TRUE, FALSE}
  BY DEF Begin, CancelWait, StartRemovingGet, WaitTransition, KillOnNode, PauseOnNode,
     CheckpointOnNode, RemoveRelease, DeleteSnapshot, UpdateGet, ResumeGet, ResumeLookup,
     ResumeRead, ResumeWait, ResumeSnapshot, Reserve, WaitForStart, Place, AddReserve,
     FinishStart, EvictScan, SyncList, SyncCheck, worldVars
<1>8. addr' \in 0 .. MaxExec /\ nextEx' \in 1 .. MaxExec + 1
  BY <1>3, <1>5, <1>6, Bounds DEF RestTypes
<1>9. hasSnap' \in BOOLEAN
  BY <1>3, <1>7 DEF RestTypes
<1> QED
  BY <1>1, <1>2, <1>4, <1>8, <1>9, QuietTypes

LEMMA LockedTypes ==
    ASSUME Types, NEW p \in Procs, StartRemovingLocked(p)
    PROVE  Types'
<1> DEFINE o == loc[p].it
<1>1. o \in Items /\ items[o] \in MemorySandbox /\ loc[p].act \in Actions
  BY DEF Types, TypeOK, Pointers, Pointing, StartRemovingLocked, Locals, Items
<1>2. items' = items \/ items' = [items EXCEPT ![o] = Started(items[o], loc[p].act)]
  BY DEF StartRemovingLocked
<1>3. Started(items[o], loc[p].act) \in MemorySandbox /\ Started(items[o], loc[p].act).st \in States
  BY <1>1, StartedType
<1>4. ItemsStay
  BY <1>1, <1>2, <1>3 DEF ItemsStay, Types, TypeOK
<1>5. RestTypes' /\ cur' = cur
  BY DEF StartRemovingLocked, Types, TypeOK, RestTypes, worldVars
<1>6. cur' # 0 => items'[cur'].st \in States
  BY <1>4, <1>5 DEF Types, TypeOK, ItemsStay, Items
<1> QED
  BY <1>4, <1>5, <1>6, LockedShape, StepTypes

LEMMA CallbackTypes ==
    ASSUME Types, NEW p \in Procs, Callback(p)
    PROVE  Types'
<1> DEFINE o == loc[p].it
<1>1. o \in Items /\ items[o] \in MemorySandbox /\ loc[p].act \in Actions /\ loc[p].err \in BOOLEAN
  BY DEF Types, TypeOK, Pointers, Pointing, Owning, Callback, Locals, Items
<1>2. items' = [items EXCEPT ![o] = Completed(items[o], loc[p].act, loc[p].err)]
  BY DEF Callback
<1>3. /\ Completed(items[o], loc[p].act, loc[p].err) \in MemorySandbox
      /\ items[o].st \in States => Completed(items[o], loc[p].act, loc[p].err).st \in States
  BY <1>1, CompletedType
<1>4. ItemsStay
  BY <1>1, <1>2, <1>3 DEF ItemsStay, Types, TypeOK
<1>5. RestTypes' /\ cur' = cur
  BY DEF Callback, Types, TypeOK, RestTypes, worldVars
<1>6. cur' # 0 => items'[cur'].st \in States
  BY <1>4, <1>5 DEF Types, TypeOK, ItemsStay, Items
<1> QED
  BY <1>4, <1>5, <1>6, CallbackWakes, StepTypes

LEMMA UpdateTypes ==
    ASSUME Types, NEW p \in Procs, Update(p) \/ SyncExpire(p) \/ RemoveItem(p)
    PROVE  Types'
<1>1. ItemsStay
  <2>1. \A o \in Items : /\ [items[o] EXCEPT !.expired = TRUE] \in MemorySandbox
                         /\ [items[o] EXCEPT !.expired = FALSE] \in MemorySandbox
                         /\ [items[o] EXCEPT !.expired = TRUE].st = items[o].st
                         /\ [items[o] EXCEPT !.expired = FALSE].st = items[o].st
    BY DEF Types, TypeOK, MemorySandbox
  <2>2. \/ items' = items
        \/ \E o \in Items, x \in BOOLEAN : items' = [items EXCEPT ![o] = [items[o] EXCEPT !.expired = x]]
    <3>1. pc[p] = "upd_lock" => loc[p].it \in Items
      BY DEF Types, TypeOK, Pointers, Pointing, Locals, Items
    <3>2. cur # 0 => cur \in Items
      BY DEF Types, TypeOK, Items
    <3> QED
      BY <3>1, <3>2 DEF Update, SyncExpire, RemoveItem
  <2> QED
    BY <2>1, <2>2 DEF ItemsStay, Types, TypeOK
<1>2. RestTypes' /\ cur' \in {0, cur}
  <2>1. /\ (cur' = cur /\ old' = old) \/ (cur' = 0 /\ old' = FALSE)
        /\ UNCHANGED <<res, addr, hasSnap, nextEx>>
    BY DEF Update, SyncExpire, RemoveItem, worldVars
  <2>2. RestTypes
    BY DEF Types, TypeOK, RestTypes
  <2> QED
    BY <2>1, <2>2, Bounds DEF RestTypes
<1>3. cur' # 0 => items'[cur'].st \in States
  BY <1>1, <1>2 DEF Types, TypeOK, ItemsStay, Items
<1> QED
  BY <1>1, <1>2, <1>3, StoreShape, StepTypes

\* Add takes the lowest identity that is free.
LEMMA AddItemShape ==
    ASSUME Types, NEW p \in Procs, AddItem(p)
    PROVE  \/ UNCHANGED <<items, cur, old>>
           \/ /\ cur = 0
              /\ \E o \in Items, x, late \in BOOLEAN :
                    /\ items[o] = Free /\ cur' = o /\ old' = late
                    /\ late => p \in Syncers
                    /\ items' = [items EXCEPT ![o] = [Fresh(loc[p].ex) EXCEPT !.expired = x]]
<1> DEFINE unused == {o \in Items : items[o] = Free}
           o == CHOOSE u \in unused : \A v \in unused : u <= v
<1>1. CASE cur # 0
  BY <1>1 DEF AddItem
<1>2. CASE cur = 0
  <2>1. unused # {} /\ cur' = o
    BY <1>2 DEF AddItem
  <2>2. o \in unused
    BY <2>1, Lowest
  <2>3. PICK late, x \in IF p \in Syncers THEN BOOLEAN ELSE {FALSE} :
           items' = [items EXCEPT ![o] = [Fresh(loc[p].ex) EXCEPT !.expired = x]] /\ old' = late
    BY <1>2 DEF AddItem
  <2> HIDE DEF o
  <2>4. late \in BOOLEAN /\ x \in BOOLEAN /\ (late => p \in Syncers)
    BY <2>3
  <2> QED
    BY <1>2, <2>1, <2>2, <2>3, <2>4
<1> QED
  BY <1>1, <1>2

LEMMA AddItemTypes ==
    ASSUME Types, NEW p \in Procs, AddItem(p)
    PROVE  Types'
<1>1. CASE UNCHANGED <<items, cur, old>>
  BY <1>1, StoreShape, QuietTypes DEF AddItem, worldVars, Types, TypeOK
<1>2. ASSUME NEW o \in Items, NEW x \in BOOLEAN, NEW late \in BOOLEAN, cur = 0,
             items[o] = Free, cur' = o, old' = late,
             items' = [items EXCEPT ![o] = [Fresh(loc[p].ex) EXCEPT !.expired = x]]
      PROVE  Types'
  <2>1. loc[p].ex \in 0 .. MaxExec
    BY DEF Types, TypeOK, Locals
  <2>2. /\ [Fresh(loc[p].ex) EXCEPT !.expired = x] \in MemorySandbox
        /\ [Fresh(loc[p].ex) EXCEPT !.expired = x].st = "running"
    BY <2>1, FreshType
  <2>3. ItemsStay /\ items'[cur'].st \in States
    BY <1>2, <2>2 DEF ItemsStay, Types, TypeOK, States
  <2>4. RestTypes'
    BY <1>2 DEF RestTypes, Types, TypeOK, AddItem, worldVars, Items
  <2> QED
    BY <2>3, <2>4, StoreShape, StepTypes
<1> QED
  BY <1>1, <1>2, AddItemShape

LEMMA WorldTypes ==
    ASSUME Types, Collect \/ (\E o \in Items : Expire(o)) \/ Age \/ VMDies
    PROVE  Types'
<1>1. CASE Age \/ VMDies
  <2>1. /\ UNCHANGED <<items, cur, res, hasSnap, nextEx, pc, loc>>
        /\ old' \in {old, TRUE} /\ addr' \in {0, addr}
    BY <1>1 DEF Age, VMDies, storeVars, worldVars
  <2>2. old' \in BOOLEAN /\ addr' \in 0 .. MaxExec
    BY <2>1, Bounds DEF Types, TypeOK
  <2> QED
    BY <2>1, <2>2 DEF Types, TypeOK, Pointers
<1>2. CASE \E o \in Items : Expire(o)
  <2>1. PICK o \in Items : items' = [items EXCEPT ![o] = [items[o] EXCEPT !.expired = TRUE]]
    BY <1>2 DEF Expire
  <2>2. [items[o] EXCEPT !.expired = TRUE] \in MemorySandbox
        /\ [items[o] EXCEPT !.expired = TRUE].st = items[o].st
    BY DEF Types, TypeOK, MemorySandbox
  <2>3. UNCHANGED <<cur, old, res, addr, hasSnap, nextEx, pc, loc>>
    BY <1>2 DEF Expire, worldVars
  <2>4. items' \in [Items -> MemorySandbox] /\ \A i \in Items : items'[i].st = items[i].st
    BY <2>1, <2>2 DEF Types, TypeOK
  <2>5. cur \in 0 .. MaxItems /\ \A p \in Procs : loc[p].it \in 0 .. MaxItems
    BY DEF Types, TypeOK, Locals
  <2>6. (cur # 0 => items'[cur].st \in States)
        /\ \A p \in Procs : loc[p].it # 0 => items'[loc[p].it].st \in States
    BY <2>4, <2>5 DEF Types, TypeOK, Pointers, Items
  <2> QED
    BY <2>3, <2>4, <2>6 DEF Types, TypeOK, Pointers
<1>3. CASE Collect
  <2>1. items' = [o \in Items |-> IF o \in Garbage THEN Free ELSE items[o]]
        /\ UNCHANGED <<cur, old, res, addr, hasSnap, nextEx, pc, loc>>
    BY <1>3 DEF Collect, worldVars
  <2>2. \A o \in Items : o \in Garbage => o # cur /\ \A p \in Procs : loc[p].it # o
    BY DEF Garbage, Referenced
  <2>3. items' \in [Items -> MemorySandbox]
    BY <2>1, FreeType DEF Types, TypeOK
  <2>4. cur # 0 => items'[cur] = items[cur]
    BY <2>1, <2>2 DEF Types, TypeOK, Items
  <2>5. \A p \in Procs : loc[p].it # 0 => items'[loc[p].it] = items[loc[p].it]
    BY <2>1, <2>2 DEF Types, TypeOK, Items, Locals
  <2> QED
    BY <2>1, <2>3, <2>4, <2>5 DEF Types, TypeOK, Pointers
<1> QED
  BY <1>1, <1>2, <1>3

LEMMA TypesStep ==
    ASSUME Types, [Next]_vars
    PROVE  Types'
<1>1. CASE UNCHANGED vars
  BY <1>1 DEF vars, Types, TypeOK, Pointers
<1> QED
  BY <1>1, NextTypesQuiet, LockedTypes, CallbackTypes, UpdateTypes, AddItemTypes, WorldTypes
     DEF Next, Step

LEMMA TypesInit == Init => Types
<1> SUFFICES ASSUME Init PROVE Types
  OBVIOUS
<1>1. Fresh(1) \in MemorySandbox /\ Fresh(1).st = "running" /\ Free \in MemorySandbox
  BY Bounds DEF Fresh, Free, MemorySandbox, States
<1>2. IdleLocals(MaxRequests) \in Locals /\ IdleLocals(MaxRequests).it = 0
  BY IdleType, MemoryAssumption
<1>3. pc \in [Procs -> Labels] /\ loc \in [Procs -> Locals]
  BY <1>2 DEF Init, Labels
<1>4. items \in [Items -> MemorySandbox] /\ (cur # 0 => items[cur].st \in States)
  BY <1>1, Bounds DEF Init, States
<1>5. RestTypes
  BY Bounds DEF Init, RestTypes
<1>6. Pointers
  BY <1>2 DEF Init, Pointers, Pointing, Owning
<1> QED
  BY <1>3, <1>4, <1>5, <1>6 DEF Types, TypeOK, RestTypes

LEMMA TypesInvariant == Spec => []Types
BY TypesInit, TypesStep, PTL DEF Spec

\* The store keeps to its types: in particular a pointer a goroutine holds never
\* leads to an object whose identity has been given to another sandbox.
THEOREM TypeCorrect == Spec => []TypeOK
BY TypesInvariant, PTL DEF Types

-----------------------------------------------------------------------------
(* The owners of transitions.                                              *)

Waiting == {"wait", "wait_res"}

OwnInv == OneOwner /\ OwnersOpen /\ WaitersOpen

\* A step of p that starts and ends no transition.
Calm(p) ==
    /\ \A o \in Items : items'[o].tr = items[o].tr
    /\ \A q \in Procs \ {p} :
          /\ pc'[q] = pc[q] /\ loc'[q].it = loc[q].it
          /\ pc[q] \in Waiting => loc'[q].got = loc[q].got
    /\ pc'[p] \in Owning <=> pc[p] \in Owning
    /\ pc[p] \in Owning => loc'[p].it = loc[p].it
    /\ pc'[p] \in Waiting /\ loc'[p].got = "unset" => items[loc'[p].it].tr = "open"

LEMMA PointsToItem ==
    ASSUME Types, NEW p \in Procs, pc[p] \in Pointing
    PROVE  loc[p].it \in Items
BY DEF Types, TypeOK, Pointers, Locals, Items

LEMMA WaitingPoints == Waiting \subseteq Pointing /\ Owning \subseteq Pointing /\ Owning \cap Waiting = {}
BY DEF Waiting, Pointing, Owning

LEMMA CalmPreserves ==
    ASSUME Types, Types', OwnInv, NEW p \in Procs, Calm(p)
    PROVE  OwnInv'
<1>1. \A q \in Procs : pc'[q] \in Owning <=> pc[q] \in Owning
  BY DEF Calm
<1>2. \A q \in Procs : pc[q] \in Owning => loc'[q].it = loc[q].it /\ loc[q].it \in Items
  BY PointsToItem, WaitingPoints DEF Calm
<1>3. OneOwner'
  BY <1>1, <1>2 DEF OwnInv, OneOwner
<1>4. OwnersOpen'
  BY <1>1, <1>2 DEF OwnInv, OwnersOpen, Calm
<1>5. ASSUME NEW q \in Procs, loc'[q].got = "unset", pc'[q] \in Waiting
      PROVE  items'[loc'[q].it].tr = "open"
  <2>1. loc'[q].it \in Items
    BY <1>5, WaitingPoints DEF Types, TypeOK, Pointers, Locals, Items
  <2>2. items[loc'[q].it].tr = "open"
    BY <1>5 DEF Calm, OwnInv, WaitersOpen, Waiting
  <2> QED
    BY <2>1, <2>2 DEF Calm
<1> QED
  BY <1>3, <1>4, <1>5 DEF OwnInv, WaitersOpen, Waiting

\* Most steps: p moves on or returns, and drives nothing before or after.
LEMMA MoveCalm ==
    ASSUME Types, NEW p \in Procs, Shape(p), \A o \in Items : items'[o].tr = items[o].tr,
           pc[p] \notin Owning, pc'[p] \notin Owning \cup Waiting
    PROVE  Calm(p)
BY DEF Calm, Shape

LEMMA ReturnLabels ==
    ASSUME Types, NEW p \in Procs,
           Return(p) \/ Removed(p) \/ RemoveFailed(p) \/ ToSnapshot(p)
    PROVE  pc'[p] \notin Owning \cup Waiting
BY DEF Types, TypeOK, Return, Removed, RemoveFailed, ToSnapshot, Goto, Owning, Waiting

LEMMA GotoLabel ==
    ASSUME Types, NEW p \in Procs, NEW l, Goto(p, l)
    PROVE  pc'[p] = l
BY DEF Types, TypeOK, Goto

LEMMA RequestCalm ==
    ASSUME Types, NEW p \in Procs,
           \/ Begin(p) \/ CancelWait(p) \/ StartRemovingGet(p) \/ WaitTransition(p)
           \/ DeleteSnapshot(p) \/ UpdateGet(p) \/ ResumeGet(p) \/ ResumeLookup(p)
           \/ ResumeWait(p) \/ ResumeSnapshot(p) \/ Reserve(p) \/ WaitForStart(p) \/ Place(p)
           \/ AddReserve(p) \/ EvictScan(p) \/ SyncList(p) \/ SyncCheck(p)
    PROVE  Calm(p)
<1>1. Shape(p)
  BY BeginShape, WaitShape, GetShape, StoreShape, ResumeShape, ReserveShape, PlaceShape, ScanShape
<1>2. items' = items
  BY DEF Begin, CancelWait, StartRemovingGet, WaitTransition, DeleteSnapshot, UpdateGet, ResumeGet,
     ResumeLookup, ResumeWait, ResumeSnapshot, Reserve, WaitForStart, Place, AddReserve,
     EvictScan, SyncList, SyncCheck, storeVars
<1>3. pc[p] \notin Owning
  BY DEF Begin, CancelWait, StartRemovingGet, WaitTransition, DeleteSnapshot, UpdateGet, ResumeGet,
     ResumeLookup, ResumeWait, ResumeSnapshot, Reserve, WaitForStart, Place, AddReserve,
     EvictScan, SyncList, SyncCheck, Owning
<1>4. pc'[p] \notin Owning \cup Waiting
  <2>1. \/ Return(p) \/ Removed(p) \/ RemoveFailed(p) \/ ToSnapshot(p)
        \/ \E l \in Labels \ (Owning \cup Waiting) : Goto(p, l)
    <3>1. {"sr_get", "upd_get", "res_get", "sr_lock", "upd_lock", "res_wait", "res_read", "reserve",
           "place", "wait_start", "add_item", "finish", "sy_expire"}
             \subseteq Labels \ (Owning \cup Waiting)
      BY DEF Labels, Owning, Waiting, Creating
    <3>2. Begin(p) => \E l \in {"sr_get", "upd_get", "res_get"} : Goto(p, l)
      BY MemoryAssumption DEF Begin, RequestKinds, Actions
    <3> QED
      BY <3>1, <3>2
      DEF CancelWait, StartRemovingGet, WaitTransition, DeleteSnapshot, UpdateGet, ResumeGet,
      ResumeLookup, ResumeWait, ResumeSnapshot, Reserve, WaitForStart, Place, AddReserve,
      EvictScan, SyncList, SyncCheck
  <2> QED
    BY <2>1, ReturnLabels, GotoLabel
<1> QED
  BY <1>1, <1>2, <1>3, <1>4, MoveCalm

LEMMA ReadCalm ==
    ASSUME Types, NEW p \in Procs, ResumeRead(p)
    PROVE  Calm(p)
<1>1. Shape(p) /\ items' = items /\ pc[p] \notin Owning
  BY ResumeShape DEF ResumeRead, storeVars, Owning
<1>2. items[loc[p].it].tr \in {"nil", "open", "failed"}
  <2>1. loc[p].it \in Items
    BY PointsToItem DEF ResumeRead, Pointing
  <2> QED
    BY <2>1 DEF Types, TypeOK, MemorySandbox
<1>3. CASE Return(p) \/ ToSnapshot(p)
  BY <1>1, <1>3, MoveCalm, ReturnLabels
<1>4. CASE items[loc[p].it].tr = "open" /\ Goto(p, "wait_res") /\ loc' = loc
  <2>1. pc'[p] = "wait_res" /\ "wait_res" \notin Owning
    BY <1>4, GotoLabel DEF Owning
  <2> QED
    BY <1>1, <1>4, <2>1 DEF Calm, Shape
<1> QED
  BY <1>2, <1>3, <1>4 DEF ResumeRead

\* The owner goes on.
LEMMA OwnerCalm ==
    ASSUME Types, NEW p \in Procs,
           KillOnNode(p) \/ PauseOnNode(p) \/ CheckpointOnNode(p) \/ RemoveItem(p) \/ RemoveRelease(p)
    PROVE  Calm(p)
<1>1. Shape(p) /\ items' = items /\ pc[p] \in Owning
  BY NodeShape, StoreShape DEF KillOnNode, PauseOnNode, CheckpointOnNode, RemoveItem, RemoveRelease,
     storeVars, Owning
<1>2. \E l \in {"rm_item", "rm_release", "cb"} : Goto(p, l)
  BY DEF KillOnNode, PauseOnNode, CheckpointOnNode, RemoveItem, RemoveRelease
<1>3. pc'[p] \in Owning /\ pc'[p] \notin Waiting
  BY <1>2, GotoLabel DEF Owning, Waiting
<1>4. loc'[p].it = loc[p].it
  <2>1. loc' = loc \/ loc' = [loc EXCEPT ![p].err = TRUE]
    BY DEF KillOnNode, PauseOnNode, CheckpointOnNode, RemoveItem, RemoveRelease
  <2> QED
    BY <2>1 DEF Types, TypeOK, Locals
<1> QED
  BY <1>1, <1>3, <1>4 DEF Calm, Shape

LEMMA ExpiryCalm ==
    ASSUME Types, NEW p \in Procs, Update(p) \/ SyncExpire(p)
    PROVE  Calm(p)
<1>1. Shape(p) /\ pc[p] \notin Owning
  BY StoreShape DEF Update, SyncExpire, Owning
<1>2. pc'[p] \notin Owning \cup Waiting
  BY ReturnLabels, GotoLabel DEF Update, SyncExpire, Owning, Waiting
<1>3. \A o \in Items : items'[o].tr = items[o].tr
  BY DEF Update, SyncExpire, Types, TypeOK, MemorySandbox
<1> QED
  BY <1>1, <1>2, <1>3, MoveCalm

LEMMA AddCalm ==
    ASSUME Types, NEW p \in Procs, AddItem(p)
    PROVE  Calm(p)
<1>1. Shape(p) /\ pc[p] \notin Owning /\ loc' = loc
  BY StoreShape DEF AddItem, Owning
<1>2. pc'[p] \notin Owning \cup Waiting
  BY GotoLabel DEF AddItem, Owning, Waiting
<1>3. \A o \in Items : items'[o].tr = items[o].tr
  <2>1. CASE UNCHANGED <<items, cur, old>>
    BY <2>1
  <2>2. ASSUME NEW o \in Items, NEW x \in BOOLEAN, items[o] = Free,
               items' = [items EXCEPT ![o] = [Fresh(loc[p].ex) EXCEPT !.expired = x]]
        PROVE  \A i \in Items : items'[i].tr = items[i].tr
    <3>1. loc[p].ex \in 0 .. MaxExec
      BY DEF Types, TypeOK, Locals
    <3>2. [Fresh(loc[p].ex) EXCEPT !.expired = x].tr = "nil" /\ Free.tr = "nil"
      BY <3>1, FreshType, FreeType
    <3> QED
      BY <2>2, <3>2 DEF Types, TypeOK
  <2> QED
    BY <2>1, <2>2, AddItemShape
<1> QED
  BY <1>1, <1>2, <1>3, MoveCalm

LEMMA FinishCalm ==
    ASSUME Types, NEW p \in Procs, FinishStart(p)
    PROVE  Calm(p)
<1>1. Wakes(p) /\ items' = items /\ pc[p] = "finish"
  BY FinishWakes DEF FinishStart
<1>2. pc'[p] = "idle"
  BY GotoLabel DEF FinishStart
<1>3. \A q \in Procs \ {p} : pc[q] \in Waiting => loc'[q] = loc[q]
  BY DEF FinishStart, Waiting
<1> QED
  BY <1>1, <1>2, <1>3 DEF Calm, Wakes, Owning, Waiting

\* startRemoving makes p the owner only of an object that has none.
LEMMA LockedOwns ==
    ASSUME Types, Types', OwnInv, NEW p \in Procs, StartRemovingLocked(p)
    PROVE  OwnInv'
<1> DEFINE o == loc[p].it
<1>1. /\ Shape(p) /\ pc[p] = "sr_lock" /\ pc[p] \notin Owning
      /\ o \in Items /\ items[o] \in MemorySandbox /\ loc[p].act \in Actions
  BY LockedShape, PointsToItem
     DEF StartRemovingLocked, Owning, Pointing, Types, TypeOK, Locals
<1>2. CASE items' = items /\ (Return(p) \/ Removed(p))
  BY <1>1, <1>2, ReturnLabels, MoveCalm, CalmPreserves
<1>3. CASE /\ items' = items /\ Goto(p, "wait")
           /\ loc' = [loc EXCEPT ![p] =
                        [loc[p] EXCEPT !.seen = items[o].st,
                                       !.got = IF items[o].tr = "failed" THEN "err" ELSE "unset"]]
           /\ items[o].tr # "nil"
  <2>1. pc'[p] = "wait" /\ "wait" \notin Owning
    BY <1>3, GotoLabel DEF Owning
  <2>2. /\ loc'[p].it = o
        /\ loc'[p].got = IF items[o].tr = "failed" THEN "err" ELSE "unset"
    BY <1>3 DEF Types, TypeOK, Locals
  <2>3. items[o].tr \in {"nil", "open", "failed"}
    BY <1>1 DEF MemorySandbox
  <2>4. Calm(p)
    BY <1>1, <1>3, <2>1, <2>2, <2>3 DEF Calm, Shape
  <2> QED
    BY <2>4, CalmPreserves
<1>4. CASE /\ MayStart(items[o], TargetState(loc[p].act))
           /\ items' = [items EXCEPT ![o] = Started(items[o], loc[p].act)]
           /\ Goto(p, "node") /\ loc' = loc
  <2>1. pc'[p] = "node" /\ "node" \in Owning /\ "node" \notin Waiting
    BY <1>4, GotoLabel DEF Owning, Waiting
  <2>2. items[o].tr = "nil"
    BY <1>4 DEF MayStart
  <2>3. items'[o].tr = "open" /\ \A i \in Items \ {o} : items'[i] = items[i]
    BY <1>1, <1>4, StartedType DEF Types, TypeOK
  <2>4. \A q \in Procs \ {p} : pc'[q] = pc[q] /\ loc'[q] = loc[q]
    BY <1>1 DEF Shape
  <2>5. \A q \in Procs : pc[q] \in Owning => loc[q].it # o /\ loc[q].it \in Items
    BY <2>2, PointsToItem, WaitingPoints DEF OwnInv, OwnersOpen
  <2>6. OneOwner'
    BY <1>1, <1>4, <2>1, <2>4, <2>5 DEF OwnInv, OneOwner
  <2>7. OwnersOpen'
    BY <1>1, <1>4, <2>1, <2>3, <2>4, <2>5 DEF OwnInv, OwnersOpen
  <2>8. ASSUME NEW q \in Procs, loc'[q].got = "unset", pc'[q] \in Waiting
        PROVE  items'[loc'[q].it].tr = "open"
    <3>1. q # p /\ pc[q] \in Waiting /\ loc'[q] = loc[q] /\ loc[q].it \in Items
      BY <2>1, <2>4, <2>8, PointsToItem, WaitingPoints
    <3>2. items[loc[q].it].tr = "open"
      BY <2>8, <3>1 DEF OwnInv, WaitersOpen, Waiting
    <3> QED
      BY <2>3, <3>1, <3>2
  <2> QED
    BY <2>6, <2>7, <2>8 DEF OwnInv, WaitersOpen, Waiting
<1> QED
  BY <1>2, <1>3, <1>4 DEF StartRemovingLocked

\* The callback leaves nobody behind: everybody who waits for this transition
\* gets its result.
LEMMA CallbackOwns ==
    ASSUME Types, Types', OwnInv, NEW p \in Procs, Callback(p)
    PROVE  OwnInv'
<1> DEFINE o == loc[p].it
<1>1. /\ Wakes(p) /\ pc[p] \in Owning /\ o \in Items
      /\ items[o] \in MemorySandbox /\ loc[p].act \in Actions /\ loc[p].err \in BOOLEAN
  BY CallbackWakes, PointsToItem
     DEF Callback, Owning, Pointing, Types, TypeOK, Locals
<1>2. pc'[p] \notin Owning /\ pc'[p] \notin Waiting
  BY <1>1 DEF Wakes, Owning, Waiting
<1>3. items'[o].tr # "open" /\ \A i \in Items \ {o} : items'[i] = items[i]
  <2>1. items' = [items EXCEPT ![o] = Completed(items[o], loc[p].act, loc[p].err)]
    BY DEF Callback
  <2> QED
    BY <1>1, <2>1, CompletedType DEF Types, TypeOK
<1>4. \A q \in Procs \ {p} : pc[q] \in Owning => loc[q].it # o /\ loc[q].it \in Items
  BY <1>1, PointsToItem, WaitingPoints DEF OwnInv, OneOwner
<1>5. \A q \in Procs \ {p} : pc'[q] = pc[q] /\ loc'[q].it = loc[q].it
  BY <1>1 DEF Wakes
<1>6. OneOwner'
  BY <1>2, <1>5 DEF OwnInv, OneOwner
<1>7. OwnersOpen'
  BY <1>2, <1>3, <1>4, <1>5 DEF OwnInv, OwnersOpen
<1>8. ASSUME NEW q \in Procs, loc'[q].got = "unset", pc'[q] \in Waiting
      PROVE  items'[loc'[q].it].tr = "open"
  <2>1. q # p /\ pc[q] \in Waiting /\ loc'[q].it = loc[q].it /\ loc[q].it \in Items
    BY <1>2, <1>5, <1>8, PointsToItem, WaitingPoints
  <2>2. loc'[q] = Woken(p, o, IF loc[p].err /\ ~Transient(loc[p].act) THEN "err" ELSE "nil")[q]
    <3>1. \E r : loc' = [Woken(p, o, IF loc[p].err /\ ~Transient(loc[p].act) THEN "err" ELSE "nil")
                           EXCEPT ![p] = r]
      BY DEF Callback
    <3> QED
      BY <2>1, <3>1, WokenType
  <2>3. loc[q].it # o /\ loc[q].got = "unset"
    <3>1. loc[q] \in Locals
      BY DEF Types, TypeOK
    <3> QED
      BY <1>8, <2>1, <2>2, <3>1 DEF Woken, Waiting, Locals
  <2>4. items[loc[q].it].tr = "open"
    BY <2>1, <2>3 DEF OwnInv, WaitersOpen, Waiting
  <2> QED
    BY <1>3, <2>1, <2>3, <2>4
<1> QED
  BY <1>6, <1>7, <1>8 DEF OwnInv, WaitersOpen, Waiting

LEMMA WorldOwns ==
    ASSUME Types, OwnInv, Collect \/ (\E o \in Items : Expire(o)) \/ Age \/ VMDies
    PROVE  OwnInv'
<1>1. UNCHANGED <<pc, loc>>
  BY DEF Collect, Expire, Age, VMDies
<1>2. \A p \in Procs : pc[p] \in Pointing => loc[p].it \in Items
  BY PointsToItem
<1>3. \A o \in Items : (\E p \in Procs : loc[p].it = o) => items'[o].tr = items[o].tr
  BY DEF Collect, Garbage, Referenced, Expire, Age, VMDies, storeVars, Types, TypeOK, MemorySandbox
<1>4. \A o \in Items : items'[o].tr = "open" => items[o].tr = "open"
  BY FreeType DEF Collect, Expire, Age, VMDies, storeVars, Types, TypeOK, MemorySandbox
<1> QED
  BY <1>1, <1>2, <1>3, <1>4, WaitingPoints DEF OwnInv, OneOwner, OwnersOpen, WaitersOpen, Waiting

LEMMA OwnStep ==
    ASSUME Types, OwnInv, [Next]_vars
    PROVE  OwnInv'
<1>1. Types'
  BY TypesStep
<1>2. CASE UNCHANGED vars
  BY <1>2 DEF vars, OwnInv, OneOwner, OwnersOpen, WaitersOpen
<1>3. ASSUME NEW p \in Procs, Begin(p) \/ Step(p) \/ CancelWait(p)
      PROVE  OwnInv'
  BY <1>1, <1>3, RequestCalm, ReadCalm, OwnerCalm, ExpiryCalm, AddCalm, FinishCalm, CalmPreserves,
     LockedOwns, CallbackOwns DEF Step
<1> QED
  BY <1>2, <1>3, WorldOwns DEF Next

LEMMA OwnInit == Init => OwnInv
<1> SUFFICES ASSUME Init PROVE OwnInv
  OBVIOUS
<1>1. \A p \in Procs : pc[p] = "idle" /\ "idle" \notin Owning
  BY DEF Init, Owning
<1>2. Fresh(1).tr = "nil" /\ Free.tr = "nil"
  BY DEF Fresh, Free
<1>3. \A o \in Items : items[o].tr # "open"
  BY <1>2 DEF Init
<1> QED
  BY <1>1, <1>3 DEF OwnInv, OneOwner, OwnersOpen, WaitersOpen

LEMMA OwnInvariant == Spec => []OwnInv
BY OwnInit, OwnStep, TypesInvariant, PTL DEF Spec

\* Transitions of one object exclude each other, however many goroutines hold
\* a pointer to it and whether or not it is still in the map.
THEOREM OwnersExclude == Spec => []OneOwner
BY OwnInvariant, PTL DEF OwnInv

-----------------------------------------------------------------------------
(* Reservations.                                                           *)

\* A step of p that makes no reservation and leaves no start of its own: the
\* reservation stays or ends, and p waits only for one that is in progress.
Steady(p) ==
    /\ res' \in {res, "none", "done"}
    /\ \A q \in Procs \ {p} :
          /\ pc'[q] = pc[q]
          /\ pc[q] = "wait_start" => loc'[q].on = loc[q].on /\ loc'[q].got = loc[q].got
    /\ p \in Syncers => pc'[p] \in SyncLabels
    /\ pc[p] \in Creating /\ p \notin Syncers => pc'[p] \in Creating
    /\ pc'[p] = "wait_start" => res \notin {"none", "done"} /\ loc'[p].on = res

LEMMA SteadyPreserves ==
    ASSUME Types, Types', Starters, NEW p \in Procs, Steady(p)
    PROVE  Starters'
<1>1. \A q \in Procs \ Syncers : pc[q] \in Creating => pc'[q] \in Creating
  BY DEF Steady
<1>2. \A s \in Syncers : pc'[s] \in SyncLabels
  BY DEF Steady, Starters, Procs
<1>3. res' \notin {"none", "done"} => res' \in Procs \ Syncers /\ pc'[res'] \in Creating
  BY <1>1 DEF Steady, Starters
<1>4. ASSUME NEW q \in Procs, loc'[q].got = "unset", pc'[q] = "wait_start"
      PROVE  loc'[q].on \in Procs \ Syncers /\ pc'[loc'[q].on] \in Creating
  <2>1. loc'[q].on \in Procs \ Syncers /\ pc[loc'[q].on] \in Creating
    BY <1>4 DEF Steady, Starters
  <2> QED
    BY <1>1, <2>1
<1> QED
  BY <1>2, <1>3, <1>4 DEF Starters

\* Steps of goroutines that are not starting anything.
LEMMA OtherSteady ==
    ASSUME Types, Starters, NEW p \in Procs, Shape(p), res' \in {res, "none", "done"},
           pc[p] \notin Creating, p \notin Syncers, pc'[p] # "wait_start"
    PROVE  Steady(p)
BY DEF Steady, Shape

LEMMA ReturnElsewhere ==
    ASSUME Types, NEW p \in Procs,
           Return(p) \/ Removed(p) \/ RemoveFailed(p) \/ ToSnapshot(p)
    PROVE  pc'[p] # "wait_start" /\ pc'[p] \notin Listing
BY DEF Types, TypeOK, Return, Removed, RemoveFailed, ToSnapshot, Goto, Listing


LEMMA RequestLabels ==
    ASSUME Types, Starters, NEW p \in Procs,
           \/ Begin(p) \/ CancelWait(p) \/ StartRemovingGet(p) \/ StartRemovingLocked(p)
           \/ WaitTransition(p) \/ KillOnNode(p) \/ PauseOnNode(p) \/ CheckpointOnNode(p)
           \/ RemoveItem(p) \/ RemoveRelease(p) \/ DeleteSnapshot(p) \/ UpdateGet(p) \/ Update(p)
           \/ ResumeGet(p) \/ ResumeLookup(p) \/ ResumeRead(p) \/ ResumeWait(p)
           \/ ResumeSnapshot(p) \/ WaitForStart(p) \/ EvictScan(p)
    PROVE  /\ p \notin Syncers
           /\ pc'[p] # "wait_start" /\ pc'[p] \notin Listing
<1>1. p \notin Syncers
  <2>1. CASE Begin(p) \/ CancelWait(p) \/ EvictScan(p)
    BY <2>1, MemoryAssumption DEF Begin, CancelWait, EvictScan
  <2>2. CASE pc[p] \notin SyncLabels
    BY <2>2 DEF Starters
  <2> QED
    BY <2>1, <2>2 DEF StartRemovingGet, StartRemovingLocked, WaitTransition, KillOnNode,
     PauseOnNode, CheckpointOnNode, RemoveItem, RemoveRelease, DeleteSnapshot, UpdateGet, Update,
     ResumeGet, ResumeLookup, ResumeRead, ResumeWait, ResumeSnapshot, WaitForStart, SyncLabels
<1>2. pc'[p] # "wait_start" /\ pc'[p] \notin Listing
  <2>1. \/ Return(p) \/ Removed(p) \/ RemoveFailed(p) \/ ToSnapshot(p)
        \/ \E l \in {"sr_get", "upd_get", "res_get", "sr_lock", "node", "wait", "rm_item", "rm_release",
                     "cb", "upd_lock", "res_wait", "res_read", "wait_res", "reserve"} : Goto(p, l)
    <3>1. Begin(p) => \E l \in {"sr_get", "upd_get", "res_get"} : Goto(p, l)
      BY MemoryAssumption DEF Begin, RequestKinds, Actions
    <3>2. ResumeRead(p) => Return(p) \/ ToSnapshot(p) \/ Goto(p, "wait_res")
      <4>1. ResumeRead(p) => loc[p].it \in Items
        BY PointsToItem DEF ResumeRead, Pointing
      <4>2. ResumeRead(p) => items[loc[p].it].tr \in {"nil", "open", "failed"}
        BY <4>1 DEF Types, TypeOK, MemorySandbox
      <4> QED
        BY <4>2 DEF ResumeRead
    <3> QED
      BY <3>1, <3>2 DEF CancelWait, StartRemovingGet, StartRemovingLocked, WaitTransition, KillOnNode,
       PauseOnNode, CheckpointOnNode, RemoveItem, RemoveRelease, DeleteSnapshot, UpdateGet, Update,
       ResumeGet, ResumeLookup, ResumeWait, ResumeSnapshot, WaitForStart, EvictScan
  <2> QED
    BY <2>1, ReturnElsewhere, GotoLabel DEF Listing
<1> QED
  BY <1>1, <1>2

LEMMA RequestSteady ==
    ASSUME Types, Starters, NEW p \in Procs,
           \/ Begin(p) \/ CancelWait(p) \/ StartRemovingGet(p) \/ StartRemovingLocked(p)
           \/ WaitTransition(p) \/ KillOnNode(p) \/ PauseOnNode(p) \/ CheckpointOnNode(p)
           \/ RemoveItem(p) \/ RemoveRelease(p) \/ DeleteSnapshot(p) \/ UpdateGet(p) \/ Update(p)
           \/ ResumeGet(p) \/ ResumeLookup(p) \/ ResumeRead(p) \/ ResumeWait(p)
           \/ ResumeSnapshot(p) \/ WaitForStart(p) \/ EvictScan(p)
    PROVE  Steady(p)
<1>1. Shape(p)
  BY BeginShape, WaitShape, GetShape, LockedShape, NodeShape, StoreShape, ResumeShape, ScanShape
<1>2. res' \in {res, "none", "done"}
  BY DEF Begin, CancelWait, StartRemovingGet, StartRemovingLocked, WaitTransition, KillOnNode,
     PauseOnNode, CheckpointOnNode, RemoveItem, RemoveRelease, DeleteSnapshot, UpdateGet, Update,
     ResumeGet, ResumeLookup, ResumeRead, ResumeWait, ResumeSnapshot, WaitForStart, EvictScan,
     storeVars
<1>3. pc[p] \notin Creating
  BY DEF Begin, CancelWait, StartRemovingGet, StartRemovingLocked, WaitTransition, KillOnNode,
     PauseOnNode, CheckpointOnNode, RemoveItem, RemoveRelease, DeleteSnapshot, UpdateGet, Update,
     ResumeGet, ResumeLookup, ResumeRead, ResumeWait, ResumeSnapshot, WaitForStart, EvictScan,
     Creating
<1> QED
  BY <1>1, <1>2, <1>3, RequestLabels, OtherSteady

LEMMA SyncSteady ==
    ASSUME Types, Starters, NEW p \in Procs, SyncList(p) \/ SyncExpire(p) \/ SyncCheck(p)
    PROVE  Steady(p)
<1>1. Shape(p) /\ res' = res /\ pc[p] \notin Creating
  BY PlaceShape, StoreShape DEF SyncList, SyncExpire, SyncCheck, storeVars, Creating
<1>2. pc'[p] \in SyncLabels /\ pc'[p] # "wait_start"
  <2>1. Return(p) => pc'[p] = "idle"
    BY GotoLabel DEF Return
  <2>2. Return(p) \/ \E l \in {"sy_expire", "sy_check", "add_item"} : Goto(p, l)
    BY DEF SyncList, SyncExpire, SyncCheck
  <2> QED
    BY <2>1, <2>2, GotoLabel DEF SyncLabels
<1> QED
  BY <1>1, <1>2 DEF Steady, Shape

LEMMA CreateSteady ==
    ASSUME Types, Starters, NEW p \in Procs, Place(p) \/ AddItem(p) \/ AddReserve(p)
    PROVE  Steady(p)
<1>1. Shape(p) /\ res' \in {res, "done"}
  BY PlaceShape, StoreShape DEF Place, AddItem, AddReserve, storeVars
<1>2. p \in Syncers => (AddItem(p) /\ Goto(p, "add_reserve")) \/ Return(p)
  BY DEF Place, AddItem, AddReserve, Starters, SyncLabels
<1>3. p \notin Syncers => \E l \in Creating : Goto(p, l)
  BY DEF Place, AddItem, AddReserve, Creating
<1>4. Return(p) => pc'[p] = "idle"
  BY GotoLabel DEF Return
<1>5. p \in Syncers => pc'[p] \in SyncLabels /\ pc'[p] # "wait_start"
  BY <1>2, <1>4, GotoLabel DEF SyncLabels
<1>6. p \notin Syncers => pc'[p] \in Creating /\ pc'[p] # "wait_start"
  BY <1>3, GotoLabel DEF Creating
<1> QED
  BY <1>1, <1>5, <1>6 DEF Steady, Shape

LEMMA ReserveStarts ==
    ASSUME Types, Types', Starters, NEW p \in Procs, Reserve(p)
    PROVE  Starters'
<1>1. Shape(p) /\ p \notin Syncers /\ pc[p] \notin Creating
  BY ReserveShape DEF Reserve, Starters, SyncLabels, Creating
<1>2. CASE Return(p) /\ res' = res
  BY <1>1, <1>2, ReturnElsewhere, OtherSteady, SteadyPreserves
<1>3. CASE res \notin {"none", "done"} /\ loc' = [loc EXCEPT ![p].on = res] /\ Goto(p, "wait_start") /\ res' = res
  <2>1. loc'[p].on = res
    BY <1>3 DEF Types, TypeOK, Locals
  <2> QED
    BY <1>1, <1>3, <2>1, SteadyPreserves DEF Steady, Shape
<1>4. CASE res = "none" /\ res' = p /\ Goto(p, "place") /\ loc' = loc
  <2>1. pc'[p] = "place" /\ "place" \in Creating
    BY <1>4, GotoLabel DEF Creating
  <2>2. \A q \in Procs \ {p} : pc'[q] = pc[q]
    BY <1>1 DEF Shape
  <2> QED
    BY <1>1, <1>4, <2>1, <2>2 DEF Starters, Procs
<1> QED
  BY <1>2, <1>3, <1>4 DEF Reserve

\* The start's result reaches everybody who waits for it, and its reservation does
\* not outlive it.
LEMMA FinishStarts ==
    ASSUME Types, Starters, NEW p \in Procs, FinishStart(p)
    PROVE  Starters'
<1>1. p \notin Syncers /\ Wakes(p) /\ pc'[p] = "idle"
  BY FinishWakes, GotoLabel DEF FinishStart, Starters, SyncLabels
<1>2. \A q \in Procs \ {p} : pc'[q] = pc[q]
  BY <1>1 DEF Wakes
<1>3. res' \in {"none", "done"} \/ (res' = res /\ res # p)
  BY DEF FinishStart
<1>4. res' \notin {"none", "done"} => res' \in Procs \ Syncers /\ pc'[res'] \in Creating
  BY <1>2, <1>3 DEF Starters
<1>5. ASSUME NEW q \in Procs, loc'[q].got = "unset", pc'[q] = "wait_start"
      PROVE  loc'[q].on \in Procs \ Syncers /\ pc'[loc'[q].on] \in Creating
  <2>1. q # p /\ pc[q] = "wait_start"
    BY <1>1, <1>2, <1>5
  <2>2. loc'[q] = loc[q] /\ loc[q].on # p
    <3>1. loc[q].on = p => loc'[q] = [loc[q] EXCEPT !.on = None, !.got = "nil"]
      BY <2>1 DEF FinishStart
    <3>2. loc[q].on = p => loc'[q].got = "nil"
      BY <3>1 DEF Types, TypeOK, Locals
    <3> QED
      BY <1>5, <2>1, <3>2 DEF FinishStart
  <2> QED
    BY <1>2, <1>5, <2>1, <2>2 DEF Starters
<1> QED
  BY <1>1, <1>2, <1>4, <1>5 DEF Starters, Procs, SyncLabels

LEMMA CallbackSteady ==
    ASSUME Types, Starters, NEW p \in Procs, Callback(p)
    PROVE  Steady(p)
<1>1. Wakes(p) /\ res' = res /\ pc[p] = "cb" /\ p \notin Syncers /\ pc[p] \notin Creating
  BY CallbackWakes DEF Callback, Starters, SyncLabels, Creating
<1>2. ASSUME NEW q \in Procs \ {p}, pc[q] = "wait_start"
      PROVE  loc'[q] = loc[q]
  <2> DEFINE w == Woken(p, loc[p].it, IF loc[p].err /\ ~Transient(loc[p].act) THEN "err" ELSE "nil")
  <2>1. \E r : loc' = [w EXCEPT ![p] = r]
    BY DEF Callback
  <2>2. loc'[q] = w[q]
    BY <1>2, <2>1 DEF Woken
  <2> QED
    BY <1>2, <2>2 DEF Woken
<1> QED
  BY <1>1, <1>2 DEF Steady, Wakes

LEMMA StartersStep ==
    ASSUME Types, Starters, [Next]_vars
    PROVE  Starters'
<1>1. Types'
  BY TypesStep
<1>2. CASE UNCHANGED <<res, pc, loc>>
  BY <1>2 DEF Starters
<1>3. ASSUME NEW p \in Procs, Begin(p) \/ Step(p) \/ CancelWait(p)
      PROVE  Starters'
  BY <1>1, <1>3, RequestSteady, SyncSteady, CreateSteady, CallbackSteady, SteadyPreserves,
     ReserveStarts, FinishStarts DEF Step
<1>4. Collect \/ (\E o \in Items : Expire(o)) \/ Age \/ VMDies => UNCHANGED <<res, pc, loc>>
  BY DEF Collect, Expire, Age, VMDies, storeVars
<1>5. UNCHANGED vars => UNCHANGED <<res, pc, loc>>
  BY DEF vars
<1> QED
  BY <1>2, <1>3, <1>4, <1>5 DEF Next

LEMMA StartersInvariant == Spec => []Starters
<1>1. Init => Starters
  BY DEF Init, Starters, SyncLabels, Procs
<1> QED
  BY <1>1, StartersStep, TypesInvariant, PTL DEF Spec

\* Nobody waits for a signal that cannot come any more: behind every waiter on an
\* ErrorOnce stands the goroutine that will set it, behind every waiter on a
\* reservation the one that starts the sandbox, whoever gives up or is woken.
THEOREM WaitersAreServed == Spec => []WaitersHaveOwners
<1>1. Types /\ OwnInv /\ Starters => WaitersHaveOwners
  <2> SUFFICES ASSUME Types, OwnInv, Starters, NEW p \in Procs, loc[p].got = "unset"
               PROVE  /\ pc[p] \in {"wait", "wait_res"} =>
                            \E q \in Procs : pc[q] \in Owning /\ loc[q].it = loc[p].it
                      /\ pc[p] = "wait_start" => pc[loc[p].on] \in Creating
    BY DEF WaitersHaveOwners
  <2>1. pc[p] \in {"wait", "wait_res"} => loc[p].it \in Items /\ items[loc[p].it].tr = "open"
    BY PointsToItem DEF OwnInv, WaitersOpen, Pointing
  <2> QED
    BY <2>1 DEF OwnInv, OwnersOpen, Starters
<1> QED
  BY <1>1, TypesInvariant, OwnInvariant, StartersInvariant, PTL

-----------------------------------------------------------------------------
(* The synchronisation and sandboxes it does not know.                     *)

\* Objects keep their executions, and none comes to life.
ItemsKept ==
    \A o \in Items :
        /\ items'[o].ex \in {0, items[o].ex}
        /\ items'[o].st # "absent" =>
              items[o].st # "absent" /\ items'[o].ex = items[o].ex

\* What a goroutine has from the node it had before, or it asked just now: then it
\* is what the node has, before or after the call.
Asked(q) ==
    \/ /\ pc[q] \in Listing /\ loc'[q].ex = loc[q].ex
       /\ pc'[q] = "sy_expire" => pc[q] = "sy_expire"
       /\ pc'[q] = "add_item" => pc[q] = "add_item" \/ loc[q].ex # 0
    \/ pc'[q] = "sy_expire" /\ loc'[q].ex = addr /\ addr' = addr
    \/ pc'[q] = "add_item" /\ loc'[q].ex = nextEx /\ nextEx' = nextEx + 1

LEMMA ItemsExec ==
    ASSUME Types, [Next]_vars, \A p \in Procs : ~AddItem(p)
    PROVE  ItemsKept
<1>1. ASSUME NEW o \in Items, NEW i, items' = [items EXCEPT ![o] = i], i.ex = items[o].ex,
             items[o].st = "absent" => i.st = "absent"
      PROVE  ItemsKept
  BY <1>1 DEF ItemsKept, Types, TypeOK
<1>2. CASE items' = items
  BY <1>2 DEF ItemsKept
<1>3. ASSUME NEW o \in Items, NEW x \in BOOLEAN, items' = [items EXCEPT ![o].expired = x]
      PROVE  ItemsKept
  <2>1. /\ [items[o] EXCEPT !.expired = x].ex = items[o].ex
        /\ [items[o] EXCEPT !.expired = x].st = items[o].st
    BY DEF Types, TypeOK, MemorySandbox
  <2> QED
    BY <1>1, <1>3, <2>1
<1>4. ASSUME NEW p \in Procs, StartRemovingLocked(p) \/ Callback(p)
      PROVE  ItemsKept
  <2> DEFINE o == loc[p].it
  <2>1. /\ o \in Items /\ items[o] \in MemorySandbox /\ loc[p].act \in Actions
        /\ loc[p].err \in BOOLEAN
    BY <1>4, PointsToItem DEF StartRemovingLocked, Callback, Pointing, Owning, Types, TypeOK, Locals
  <2>2. items[o].st # "absent"
    BY <1>4, <2>1 DEF StartRemovingLocked, Callback, Pointing, Owning, Types, Pointers, States, Items
  <2>3. \/ items' = items
        \/ items' = [items EXCEPT ![o] = Started(items[o], loc[p].act)]
        \/ items' = [items EXCEPT ![o] = Completed(items[o], loc[p].act, loc[p].err)]
    BY <1>4 DEF StartRemovingLocked, Callback
  <2> QED
    BY <1>1, <1>2, <2>1, <2>2, <2>3, StartedType, CompletedType
<1>5. ASSUME NEW p \in Procs, Update(p) \/ SyncExpire(p)
      PROVE  ItemsKept
  <2>1. pc[p] = "upd_lock" => loc[p].it \in Items
    BY PointsToItem DEF Pointing
  <2>2. cur # 0 => cur \in Items
    BY DEF Types, TypeOK, Items
  <2> QED
    BY <1>2, <1>3, <1>5, <2>1, <2>2 DEF Update, SyncExpire
<1>6. ASSUME NEW o \in Items, Expire(o)
      PROVE  ItemsKept
  BY <1>3, <1>6 DEF Expire
<1>7. CASE Collect
  BY <1>7, FreeType DEF Collect, ItemsKept
<1>8. ASSUME NEW p \in Procs,
             \/ Begin(p) \/ CancelWait(p) \/ StartRemovingGet(p) \/ WaitTransition(p)
             \/ KillOnNode(p) \/ PauseOnNode(p) \/ CheckpointOnNode(p) \/ RemoveItem(p)
             \/ RemoveRelease(p) \/ DeleteSnapshot(p) \/ UpdateGet(p) \/ ResumeGet(p)
             \/ ResumeLookup(p) \/ ResumeRead(p) \/ ResumeWait(p) \/ ResumeSnapshot(p)
             \/ Reserve(p) \/ WaitForStart(p) \/ Place(p) \/ AddReserve(p) \/ FinishStart(p)
             \/ EvictScan(p) \/ SyncList(p) \/ SyncCheck(p)
      PROVE  items' = items
  BY <1>8 DEF Begin, CancelWait, StartRemovingGet, WaitTransition, KillOnNode, PauseOnNode,
     CheckpointOnNode, RemoveItem, RemoveRelease, DeleteSnapshot, UpdateGet, ResumeGet,
     ResumeLookup, ResumeRead, ResumeWait, ResumeSnapshot, Reserve, WaitForStart, Place,
     AddReserve, FinishStart, EvictScan, SyncList, SyncCheck, storeVars
<1>9. Age \/ VMDies \/ UNCHANGED vars => items' = items
  BY DEF Age, VMDies, storeVars, vars
<1> QED
  BY <1>2, <1>4, <1>5, <1>6, <1>7, <1>8, <1>9 DEF Next, Step

\* The only steps that give a goroutine an execution are Place and GetSandboxes.
LEMMA AskedStep ==
    ASSUME Types, Starters, [Next]_vars, NEW q \in Procs, pc'[q] \in Listing
    PROVE  Asked(q)
<1>1. CASE pc'[q] = pc[q] /\ loc'[q].ex = loc[q].ex
  BY <1>1 DEF Asked
<1>2. ASSUME NEW p \in Procs, Begin(p) \/ Step(p) \/ CancelWait(p)
      PROVE  Asked(q)
  <2>1. CASE p # q
    <3>1. Shape(p) \/ Wakes(p)
      BY <1>2, BeginShape, WaitShape, GetShape, LockedShape, NodeShape, StoreShape, ResumeShape,
         ReserveShape, PlaceShape, ScanShape, CallbackWakes, FinishWakes DEF Step
    <3> QED
      BY <1>1, <2>1, <3>1 DEF Shape, Wakes
  <2>2. CASE p = q
    <3>1. CASE Callback(q) \/ FinishStart(q)
      BY <3>1, CallbackWakes, FinishWakes DEF Wakes, Listing
    <3>2. CASE Reserve(q) \/ AddItem(q) \/ AddReserve(q)
      BY <3>2, ReturnElsewhere, GotoLabel DEF Reserve, AddItem, AddReserve, Listing
    <3>3. CASE Place(q)
      <4>1. CASE /\ nextEx' = nextEx + 1 /\ loc' = [loc EXCEPT ![q].ex = nextEx]
                 /\ Goto(q, "add_item")
        BY <4>1, GotoLabel DEF Asked, Types, TypeOK, Locals
      <4>2. CASE Goto(q, "finish")
        BY <4>2, GotoLabel DEF Listing
      <4> QED
        BY <3>3, <4>1, <4>2 DEF Place
    <3>4. CASE SyncList(q)
      <4>1. pc'[q] = "sy_expire" /\ loc'[q].ex = addr /\ addr' = addr
        BY <3>4, GotoLabel DEF SyncList, worldVars, Types, TypeOK, Locals
      <4> QED
        BY <4>1 DEF Asked
    <3>5. CASE SyncExpire(q)
      <4>1. pc'[q] = "sy_check" /\ loc' = loc /\ pc[q] = "sy_expire"
        BY <3>5, GotoLabel DEF SyncExpire
      <4> QED
        BY <4>1 DEF Asked, Listing
    <3>6. CASE SyncCheck(q)
      <4>1. CASE Return(q)
        BY <4>1, ReturnElsewhere
      <4>2. CASE loc[q].ex # 0 /\ loc' = loc /\ Goto(q, "add_item") /\ pc[q] = "sy_check"
        BY <4>2, GotoLabel DEF Asked, Listing
      <4> QED
        BY <3>6, <4>1, <4>2 DEF SyncCheck, ToBeAdded
    <3> QED
      BY <1>2, <2>2, <3>1, <3>2, <3>3, <3>4, <3>5, <3>6, RequestLabels DEF Step
  <2> QED
    BY <2>1, <2>2
<1>3. Collect \/ (\E o \in Items : Expire(o)) \/ Age \/ VMDies \/ UNCHANGED vars
         => UNCHANGED <<pc, loc>>
  BY DEF Collect, Expire, Age, VMDies, vars
<1> QED
  BY <1>1, <1>2, <1>3 DEF Next

LEMMA AddressStep ==
    ASSUME Types, [Next]_vars
    PROVE  \/ addr' \in {0, addr} /\ nextEx' = nextEx
           \/ /\ addr' = nextEx /\ nextEx' = nextEx + 1
              /\ UNCHANGED <<items, cur, old>>
<1>1. ASSUME NEW p \in Procs, Begin(p) \/ CancelWait(p) \/ (Step(p) /\ ~Place(p))
      PROVE  addr' \in {0, addr} /\ nextEx' = nextEx
  BY <1>1 DEF Step, Begin, CancelWait, StartRemovingGet, StartRemovingLocked, WaitTransition,
     KillOnNode, PauseOnNode, CheckpointOnNode, RemoveItem, RemoveRelease, Callback,
     DeleteSnapshot, UpdateGet, Update, ResumeGet, ResumeLookup, ResumeRead, ResumeWait,
     ResumeSnapshot, Reserve, WaitForStart, AddItem, AddReserve, FinishStart, EvictScan,
     SyncList, SyncExpire, SyncCheck, worldVars
<1>2. ASSUME NEW p \in Procs, Place(p)
      PROVE  \/ addr' = addr /\ nextEx' = nextEx
             \/ addr' = nextEx /\ nextEx' = nextEx + 1 /\ UNCHANGED <<items, cur, old>>
  BY <1>2 DEF Place, storeVars
<1>3. Collect \/ (\E o \in Items : Expire(o)) \/ Age \/ VMDies \/ UNCHANGED vars
         => addr' \in {0, addr} /\ nextEx' = nextEx
  BY DEF Collect, Expire, Age, VMDies, vars, worldVars
<1> QED
  BY <1>1, <1>2, <1>3 DEF Next

LEMMA ExecutionsStep ==
    ASSUME Types, Starters, Executions, [Next]_vars
    PROVE  Executions'
<1>1. addr \in Nat /\ nextEx \in Nat \ {0} /\ addr < nextEx
  BY DEF Types, TypeOK, Executions
<1>2. nextEx' \in Nat /\ nextEx' >= nextEx /\ addr' < nextEx'
  BY <1>1, AddressStep
<1>3. /\ \A o \in Items : items[o].ex \in Nat
      /\ \A p \in Procs : loc[p].ex \in Nat
  BY DEF Types, TypeOK, MemorySandbox, Locals
<1> DEFINE Numbered == \A o \in Items :
                         items'[o].ex < nextEx' /\ (items'[o].st # "absent" => items'[o].ex # 0)
<1>4. Numbered
  <2>1. CASE ItemsKept
    BY <1>1, <1>2, <1>3, <2>1 DEF ItemsKept, Executions
  <2>2. ASSUME NEW p \in Procs, AddItem(p)
        PROVE  Numbered
    <3>1. CASE items' = items
      BY <1>1, <1>2, <1>3, <3>1 DEF Executions
    <3>2. ASSUME NEW o \in Items, NEW x \in BOOLEAN,
                 items' = [items EXCEPT ![o] = [Fresh(loc[p].ex) EXCEPT !.expired = x]]
          PROVE  Numbered
      <4>1. loc[p].ex \in 0 .. MaxExec
        BY DEF Types, TypeOK, Locals
      <4>2. items'[o].ex = loc[p].ex /\ \A i \in Items \ {o} : items'[i] = items[i]
        BY <3>2, <4>1, FreshType DEF Types, TypeOK
      <4>3. loc[p].ex < nextEx /\ loc[p].ex # 0
        BY <2>2 DEF AddItem, Executions, Listing
      <4> QED
        BY <1>1, <1>2, <1>3, <4>2, <4>3 DEF Executions
    <3> QED
      BY <2>2, <3>1, <3>2, AddItemShape
  <2> QED
    BY <2>1, <2>2, ItemsExec
<1>5. ASSUME NEW p \in Procs, pc'[p] \in Listing
      PROVE  loc'[p].ex < nextEx' /\ (pc'[p] = "add_item" => loc'[p].ex # 0)
  <2>1. Asked(p)
    BY <1>5, AskedStep
  <2> QED
    BY <1>1, <1>2, <1>3, <2>1 DEF Asked, Executions, Listing
<1> QED
  BY <1>2, <1>4, <1>5 DEF Executions

LEMMA ExecutionsInvariant == Spec => []Executions
<1>1. Init => Executions
  <2> SUFFICES ASSUME Init PROVE Executions
    OBVIOUS
  <2>1. Fresh(1).ex = 1 /\ Free.ex = 0 /\ Free.st = "absent"
    BY DEF Fresh, Free
  <2>2. \A o \in Items : items[o].ex < 2 /\ (items[o].st # "absent" => items[o].ex # 0)
    BY <2>1 DEF Init
  <2> QED
    BY <2>2 DEF Init, Executions, Listing
<1> QED
  BY <1>1, ExecutionsStep, TypesInvariant, StartersInvariant, PTL DEF Spec

\* While a list is in use, nothing enters or ages behind its back.
LEMMA OldStep ==
    ASSUME Types, [Next]_vars, \A s, t \in Syncers : s = t,
           NEW s \in Syncers, pc[s] = "sy_expire", old', cur' # 0
    PROVE  old /\ cur' = cur
<1>1. ASSUME NEW p \in Procs, RemoveItem(p)
      PROVE  FALSE
  BY <1>1 DEF RemoveItem
<1>2. ASSUME NEW p \in Procs, AddItem(p)
      PROVE  old /\ cur' = cur
  <2>1. p # s
    BY <1>2 DEF AddItem
  <2> QED
    BY <1>2, <2>1, AddItemShape
<1>3. ~Age
  BY DEF Age
<1>4. ASSUME NEW p \in Procs, Begin(p) \/ CancelWait(p) \/ (Step(p) /\ ~RemoveItem(p) /\ ~AddItem(p))
      PROVE  old' = old /\ cur' = cur
  BY <1>4 DEF Step, Begin, CancelWait, StartRemovingGet, StartRemovingLocked, WaitTransition,
     KillOnNode, PauseOnNode, CheckpointOnNode, RemoveRelease, Callback,
     DeleteSnapshot, UpdateGet, Update, ResumeGet, ResumeLookup, ResumeRead, ResumeWait,
     ResumeSnapshot, Reserve, WaitForStart, Place, AddReserve, FinishStart, EvictScan,
     SyncList, SyncExpire, SyncCheck, storeVars
<1>5. Collect \/ (\E o \in Items : Expire(o)) \/ VMDies \/ UNCHANGED vars
         => old' = old /\ cur' = cur
  BY DEF Collect, Expire, VMDies, vars, storeVars
<1> QED
  BY <1>1, <1>2, <1>3, <1>4, <1>5 DEF Next

LEMMA OutdatedStep ==
    ASSUME Types, Starters, Executions, ListOutdated, [Next]_vars, \A s, t \in Syncers : s = t
    PROVE  ListOutdated'
<1> SUFFICES ASSUME NEW s \in Syncers, pc'[s] = "sy_expire", loc'[s].ex = 0, addr' # 0,
                    cur' # 0, items'[cur'].ex = addr', old'
             PROVE  FALSE
  BY DEF ListOutdated
<1>1. pc[s] = "sy_expire" /\ loc[s].ex = 0
  <2>1. Asked(s)
    BY AskedStep DEF Listing, Procs
  <2> QED
    BY <2>1 DEF Asked
<1>2. old /\ cur' = cur /\ cur \in Items
  <2>1. old /\ cur' = cur
    BY <1>1, OldStep
  <2> QED
    BY <2>1 DEF Types, TypeOK, Items
<1>3. items'[cur].ex = items[cur].ex
  <2>1. CASE ItemsKept
    BY <1>2, <2>1 DEF ItemsKept
  <2>2. ASSUME NEW p \in Procs, AddItem(p)
        PROVE  items' = items
    BY <1>2, <2>2, AddItemShape DEF Types, TypeOK
  <2> QED
    BY <2>1, <2>2, ItemsExec
<1>4. addr' = addr
  <2>1. items[cur].ex \in Nat /\ nextEx \in Nat /\ items[cur].ex < nextEx
    BY <1>2 DEF Types, TypeOK, MemorySandbox, Executions
  <2> QED
    BY <1>2, <1>3, <2>1, AddressStep
<1> QED
  BY <1>1, <1>2, <1>3, <1>4 DEF ListOutdated

\* Two facts about the storage's Sync that make it spare a new sandbox: a list that
\* lacks it is older than the sandbox, and the sandbox is then in its grace period.
LEMMA SyncSpares ==
    ASSUME Types, Types', Starters, Executions, ListOutdated, Next, NEW s \in Syncers, NEW o \in Items,
           pc[s] = "sy_expire", pc'[s] = "sy_check", items[o].ex = addr
    PROVE  items'[o].expired = items[o].expired
<1>1. SyncExpire(s)
  <2>1. s \in Procs
    BY DEF Procs
  <2>2. ASSUME NEW p \in Procs \ {s}, Begin(p) \/ Step(p) \/ CancelWait(p)
        PROVE  FALSE
    <3>1. Shape(p) \/ Wakes(p)
      BY <2>2, BeginShape, WaitShape, GetShape, LockedShape, NodeShape, StoreShape, ResumeShape,
         ReserveShape, PlaceShape, ScanShape, CallbackWakes, FinishWakes DEF Step
    <3> QED
      BY <2>1, <2>2, <3>1 DEF Shape, Wakes
  <2>3. Begin(s) \/ Step(s) \/ CancelWait(s) => SyncExpire(s)
    BY DEF Step, Begin, CancelWait, StartRemovingGet, StartRemovingLocked, WaitTransition,
     KillOnNode, PauseOnNode, CheckpointOnNode, RemoveItem, RemoveRelease, Callback,
     DeleteSnapshot, UpdateGet, Update, ResumeGet, ResumeLookup, ResumeRead, ResumeWait,
     ResumeSnapshot, Reserve, WaitForStart, Place, AddItem, AddReserve, FinishStart, EvictScan,
     SyncList, SyncCheck
  <2>4. Collect \/ (\E i \in Items : Expire(i)) \/ Age \/ VMDies => pc' = pc
    BY DEF Collect, Expire, Age, VMDies
  <2> QED
    BY <2>1, <2>2, <2>3, <2>4 DEF Next
<1>2. CASE items' = items
  BY <1>2
<1>3. CASE cur # 0 /\ loc[s].ex = 0 /\ old /\ items' = [items EXCEPT ![cur].expired = TRUE]
  <2>1. cur \in Items /\ items[cur].st # "absent"
    BY <1>3 DEF Types, TypeOK, Items, States
  <2>2. o # cur
    BY <1>3, <2>1 DEF Executions, ListOutdated
  <2> QED
    BY <1>3, <2>1, <2>2 DEF Types, TypeOK
<1> QED
  BY <1>1, <1>2, <1>3 DEF SyncExpire, Gone

\* A synchronisation never expires a sandbox that runs, wherever a creation falls
\* between the node's answer and its use.  A node is synchronised by one goroutine
\* at a time; with two, one could add the sandbox the other does not know of.
THEOREM SyncSparesRunning ==
    ASSUME \A s, t \in Syncers : s = t
    PROVE  Spec => SyncSparesNew
<1>1. Init => ListOutdated
  BY DEF Init, ListOutdated
<1>2. Types /\ Starters /\ Executions /\ ListOutdated /\ [Next]_vars => ListOutdated'
  BY OutdatedStep
<1>3. Types /\ Types' /\ Starters /\ Executions /\ ListOutdated /\ [Next]_vars =>
         [\A s \in Syncers, o \in Items :
            pc[s] = "sy_expire" /\ pc'[s] = "sy_check" /\ items[o].ex = addr
              => items'[o].expired = items[o].expired]_vars
  BY SyncSpares
<1> QED
  BY <1>1, <1>2, <1>3, TypesInvariant, StartersInvariant, ExecutionsInvariant, PTL
     DEF Spec, SyncSparesNew

-----------------------------------------------------------------------------
(* The store implements Lifecycle.                                         *)

\* What Lifecycle allows a record to do, said of an object before and after.
Lives(i, j) ==
    \/ j.st = i.st /\ (j.tr # "nil") = (i.tr # "nil")
    \/ i.st = "absent" /\ j.st = "running"
    \/ /\ i.tr = "nil" /\ j.tr # "nil"
       /\ j.st \in {TargetState(a) : a \in Actions} /\ Allowed(i.st, j.st)
    \/ i.tr # "nil" /\ i.st = "snapshotting" /\ j.st = "running"
    \/ i.tr # "nil" /\ j.tr = "nil" /\ j.st = i.st
    \/ j.st = "absent" /\ j.tr = "nil"

LEMMA LivesIsStep ==
    ASSUME \A o \in Items : Lives(items[o], items'[o])
    PROVE  Abstract!Next
<1> SUFFICES ASSUME NEW o \in Items
             PROVE  \/ Abstract!Same(o) \/ Abstract!Store(o) \/ Abstract!Start(o)
                    \/ Abstract!Restore(o) \/ Abstract!Finish(o) \/ Abstract!Drop(o)
  BY DEF Abstract!Next
<1>1. Lives(items[o], items'[o])
  OBVIOUS
<1> QED
  BY <1>1 DEF Lives, Abstract!Same, Abstract!Store, Abstract!Start, Abstract!Restore,
     Abstract!Finish, Abstract!Drop, Abstract!TargetState, Abstract!Actions, Abstract!Allowed,
     TargetState, Actions, Allowed

LEMMA StartLives ==
    ASSUME NEW i \in MemorySandbox, NEW a \in Actions, MayStart(i, TargetState(a))
    PROVE  Lives(i, Started(i, a))
<1>1. Started(i, a).tr = "open" /\ Started(i, a).st = TargetState(a)
  BY DEF Started, MemorySandbox
<1> QED
  BY <1>1 DEF Lives, MayStart

LEMMA CompleteLives ==
    ASSUME NEW i \in MemorySandbox, NEW a \in Actions, NEW e \in BOOLEAN, i.tr = "open"
    PROVE  Lives(i, Completed(i, a, e))
<1>1. /\ Completed(i, a, e).st =
            IF Transient(a) /\ ~e /\ i.st = TargetState(a) THEN "running" ELSE i.st
      /\ Completed(i, a, e).tr = IF e /\ ~Transient(a) THEN "failed" ELSE "nil"
  BY DEF Completed, MemorySandbox
<1> QED
  BY <1>1 DEF Lives, Transient, TargetState

LEMMA StepLives ==
    ASSUME Types, OwnInv, [Next]_vars
    PROVE  \A o \in Items : Lives(items[o], items'[o])
<1>1. CASE \A o \in Items : items'[o].st = items[o].st /\ items'[o].tr = items[o].tr
  BY <1>1 DEF Lives
<1>2. ASSUME NEW p \in Procs, StartRemovingLocked(p)
      PROVE  \A o \in Items : Lives(items[o], items'[o])
  <2> DEFINE o == loc[p].it
  <2>1. o \in Items /\ items[o] \in MemorySandbox /\ loc[p].act \in Actions
    BY <1>2, PointsToItem DEF StartRemovingLocked, Pointing, Types, TypeOK, Locals
  <2>2. \/ items' = items
        \/ /\ MayStart(items[o], TargetState(loc[p].act))
           /\ items' = [items EXCEPT ![o] = Started(items[o], loc[p].act)]
    BY <1>2 DEF StartRemovingLocked
  <2>3. CASE items' = items
    BY <1>1, <2>3
  <2>4. CASE /\ MayStart(items[o], TargetState(loc[p].act))
             /\ items' = [items EXCEPT ![o] = Started(items[o], loc[p].act)]
    <3>1. Lives(items[o], items'[o])
      BY <2>1, <2>4, StartLives DEF Types, TypeOK
    <3>2. \A i \in Items \ {o} : items'[i] = items[i]
      BY <2>4 DEF Types, TypeOK
    <3>3. \A i \in Items \ {o} : Lives(items[i], items'[i])
      BY <3>2 DEF Lives
    <3> QED
      BY <3>1, <3>3
  <2> QED
    BY <2>2, <2>3, <2>4
<1>3. ASSUME NEW p \in Procs, Callback(p)
      PROVE  \A o \in Items : Lives(items[o], items'[o])
  <2> DEFINE o == loc[p].it
  <2>1. /\ o \in Items /\ items[o] \in MemorySandbox /\ loc[p].act \in Actions
        /\ loc[p].err \in BOOLEAN
    BY <1>3, PointsToItem DEF Callback, Pointing, Owning, Types, TypeOK, Locals
  <2>2. items[o].tr = "open"
    BY <1>3 DEF Callback, OwnInv, OwnersOpen, Owning
  <2>3. items' = [items EXCEPT ![o] = Completed(items[o], loc[p].act, loc[p].err)]
    BY <1>3 DEF Callback
  <2>4. Lives(items[o], items'[o])
    BY <2>1, <2>2, <2>3, CompleteLives DEF Types, TypeOK
  <2>5. \A i \in Items \ {o} : items'[i] = items[i]
    BY <2>3 DEF Types, TypeOK
  <2>6. \A i \in Items \ {o} : Lives(items[i], items'[i])
    BY <2>5 DEF Lives
  <2> QED
    BY <2>4, <2>6
<1>4. ASSUME NEW p \in Procs, AddItem(p)
      PROVE  \A o \in Items : Lives(items[o], items'[o])
  <2>1. CASE items' = items
    BY <1>1, <2>1
  <2>2. ASSUME NEW o \in Items, NEW x \in BOOLEAN, items[o] = Free,
               items' = [items EXCEPT ![o] = [Fresh(loc[p].ex) EXCEPT !.expired = x]]
        PROVE  \A i \in Items : Lives(items[i], items'[i])
    <3>1. loc[p].ex \in 0 .. MaxExec
      BY DEF Types, TypeOK, Locals
    <3>2. [Fresh(loc[p].ex) EXCEPT !.expired = x].st = "running" /\ Free.st = "absent"
      BY <3>1, FreshType, FreeType
    <3>3. items'[o].st = "running" /\ \A i \in Items \ {o} : items'[i] = items[i]
      BY <2>2, <3>2 DEF Types, TypeOK
    <3> QED
      BY <2>2, <3>2, <3>3 DEF Lives
  <2> QED
    BY <2>1, <2>2, <1>4, AddItemShape
<1>5. CASE Collect
  BY <1>5, FreeType DEF Collect, Lives
<1>6. ASSUME NEW p \in Procs, Update(p) \/ SyncExpire(p)
      PROVE  \A o \in Items : items'[o].st = items[o].st /\ items'[o].tr = items[o].tr
  BY <1>6 DEF Update, SyncExpire, Types, TypeOK, MemorySandbox
<1>7. ASSUME NEW p \in Items, Expire(p)
      PROVE  \A o \in Items : items'[o].st = items[o].st /\ items'[o].tr = items[o].tr
  BY <1>7 DEF Expire, Types, TypeOK, MemorySandbox
<1>8. ASSUME NEW p \in Procs,
             \/ Begin(p) \/ CancelWait(p) \/ StartRemovingGet(p) \/ WaitTransition(p)
             \/ KillOnNode(p) \/ PauseOnNode(p) \/ CheckpointOnNode(p) \/ RemoveItem(p)
             \/ RemoveRelease(p) \/ DeleteSnapshot(p) \/ UpdateGet(p) \/ ResumeGet(p)
             \/ ResumeLookup(p) \/ ResumeRead(p) \/ ResumeWait(p) \/ ResumeSnapshot(p)
             \/ Reserve(p) \/ WaitForStart(p) \/ Place(p) \/ AddReserve(p) \/ FinishStart(p)
             \/ EvictScan(p) \/ SyncList(p) \/ SyncCheck(p)
      PROVE  items' = items
  BY <1>8 DEF Begin, CancelWait, StartRemovingGet, WaitTransition, KillOnNode, PauseOnNode,
     CheckpointOnNode, RemoveItem, RemoveRelease, DeleteSnapshot, UpdateGet, ResumeGet,
     ResumeLookup, ResumeRead, ResumeWait, ResumeSnapshot, Reserve, WaitForStart, Place,
     AddReserve, FinishStart, EvictScan, SyncList, SyncCheck, storeVars
<1>9. Age \/ VMDies \/ UNCHANGED vars => items' = items
  BY DEF Age, VMDies, storeVars, vars
<1> QED
  BY <1>1, <1>2, <1>3, <1>4, <1>5, <1>6, <1>7, <1>8, <1>9 DEF Next, Step

\* The in-memory storage keeps the promise every storage makes (Lifecycle): a
\* record is stored running, leaves a state only by an allowed transition, starts
\* one only when none is in progress, and meanwhile at most a snapshot is restored.
THEOREM Refinement == Spec => Implements
<1>1. Init => Abstract!Init
  <2> SUFFICES ASSUME Init PROVE Abstract!Init
    OBVIOUS
  <2>1. /\ Fresh(1).tr = "nil" /\ Free.tr = "nil"
        /\ Fresh(1).st = "running" /\ Free.st = "absent"
    BY DEF Fresh, Free
  <2>2. \A o \in Items : items[o].st \in {"absent", "running"} /\ items[o].tr = "nil"
    BY <2>1 DEF Init
  <2> QED
    BY <2>2 DEF Abstract!Init
<1>2. Types /\ OwnInv /\ [Next]_vars => Abstract!Next
  BY StepLives, LivesIsStep
<1> QED
  BY <1>1, <1>2, TypesInvariant, OwnInvariant, PTL DEF Spec, Implements, Abstract!Spec
=============================================================================
