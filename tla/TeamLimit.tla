------------------------------ MODULE TeamLimit ------------------------------
(***************************************************************************)
(* The limit on a team's concurrent sandboxes: the Redis reservations      *)
(* (packages/api/internal/sandbox/reservations/redis) as CreateSandbox and *)
(* Store.Remove of any number of API instances use them, for all sandboxes *)
(* of one team.                                                            *)
(*                                                                         *)
(* One action is one Lua script or Redis command with the Go code around   *)
(* it; calls to a node change nothing here and are part of the next one.   *)
(* The age of a reservation is abstracted to what reserveScript compares:  *)
(* whether its score is older than staleTTL.                               *)
(***************************************************************************)
EXTENDS Integers, FiniteSets

CONSTANTS
    Users,      \* goroutines that create or resume a sandbox
    Crashable,  \* those on an API instance that may crash
    Sids,       \* sandbox IDs of the team
    None,       \* no sandbox, no user
    Limit,      \* team.Limits.SandboxConcurrency
    TTLCovers   \* do staleTTL and resultTTL outlast a creation and a poll?

ASSUME LimitAssumption ==
    /\ Crashable \subseteq Users /\ None \notin Sids \cup Users
    /\ IsFiniteSet(Sids) /\ Limit \in Nat /\ TTLCovers \in BOOLEAN

VARIABLES
    index,     \* the sandbox IDs in the team's storage index
    pending,   \* the pending zset: for each ID none, fresh or stale
    result,    \* the result keys: none, ok or error
    removing,  \* IDs whose removal is between the storage and the reservations
    pc,        \* where each user is
    sid,       \* the sandbox the user creates
    latest,    \* who reserved an ID last, None once it was removed (history)
    robbed     \* IDs whose entry or result was last deleted or overwritten on
               \* behalf of an earlier creation or removal (history)

vars == <<index, pending, result, removing, pc, sid, latest, robbed>>
userVars == <<pc, sid>>
history  == <<latest, robbed>>

\* A creator places its sandbox from the reservation until the sandbox is stored,
\* and then has finishStart left.
Creating == {"place", "finish"}
Waiting  == {"wait_get", "wait_score", "wait_final"}
Labels   == Creating \cup Waiting \cup {"idle", "crashed"}

Init ==
    /\ index = {} /\ removing = {}
    /\ pending = [s \in Sids |-> "none"]
    /\ result  = [s \in Sids |-> "none"]
    /\ pc   = [p \in Users |-> "idle"]
    /\ sid  = [p \in Users |-> None]
    /\ latest = [s \in Sids |-> None] /\ robbed = {}

-----------------------------------------------------------------------------
Reserved == {s \in Sids : pending[s] # "none"}

\* A creation of s is under way on an instance that lives.
Creator(s) == \E p \in Users : pc[p] \in Creating /\ sid[p] = s

Goto(p, l) == pc' = [pc EXCEPT ![p] = l] /\ UNCHANGED sid

\* Seeded fault: a request of the same goroutine finds the last one's sandbox.
ReturnKeepsSid(p) == pc' = [pc EXCEPT ![p] = "idle"] /\ UNCHANGED sid

Return(p) ==
    /\ pc'  = [pc EXCEPT ![p] = "idle"]
    /\ sid' = [sid EXCEPT ![p] = None]

-----------------------------------------------------------------------------
(* CreateSandbox.                                                          *)

\* Seeded fault: stale reservations are not dropped.
CleanedNever == pending

\* ZREMRANGEBYSCORE: reservations up to the cut-off go.
Cleaned == [s \in Sids |-> IF pending[s] = "stale" THEN "none" ELSE pending[s]]

\* Seeded fault: only what is stored counts.
FullStored(kept) == Cardinality(index) >= Limit

\* The script's count: a sandbox that is stored and still pending counts twice.
Full(kept) ==
    Cardinality(index) + Cardinality({s \in Sids : kept[s] # "none"}) >= Limit

\* Seeded fault: the result of an earlier attempt stays.
ResultKept(s) == result

\* DEL of the result key of an earlier attempt.
ResultDeleted(s) == [result EXCEPT ![s] = "none"]

\* Nobody else is creating s: with p's reservation it starts afresh.
Afresh(p, s) == \A q \in Users \ {p} : ~(pc[q] = "place" /\ sid[q] = s)

\* A request for a new sandbox or for one with a snapshot, which anybody may resume
\* at any time, also while it runs, is created or is being removed: reserveScript
\* and the switch on its result.
Reserve(p) ==
    /\ pc[p] = "idle"
    /\ \E s \in Sids :
          LET kept == Cleaned IN
          \/ \* ALREADY_IN_STORAGE: waitForStart is a storage.Get; LIMIT_EXCEEDED
             /\ s \in index \/ (kept[s] = "none" /\ Full(kept))
             /\ pending' = kept
             /\ UNCHANGED <<result, userVars, history>>
          \/ \* ALREADY_PENDING
             /\ s \notin index /\ kept[s] # "none"
             /\ pending' = kept
             /\ pc'  = [pc EXCEPT ![p] = "wait_get"]
             /\ sid' = [sid EXCEPT ![p] = s]
             /\ UNCHANGED <<result, history>>
          \/ \* RESERVED
             /\ s \notin index /\ kept[s] = "none" /\ ~Full(kept)
             /\ result'  = ResultDeleted(s)
             /\ pending' = [kept EXCEPT ![s] = "fresh"]
             /\ pc'      = [pc EXCEPT ![p] = "place"]
             /\ sid'     = [sid EXCEPT ![p] = s]
             /\ latest'  = [latest EXCEPT ![s] = p]
             /\ robbed'  = IF Afresh(p, s) THEN robbed \ {s} ELSE robbed
    /\ UNCHANGED <<index, removing>>

\* PlaceSandbox and Store.Add succeed: addSandboxScript.
Add(p) ==
    /\ pc[p] = "place"
    /\ index' = index \cup {sid[p]}
    /\ Goto(p, "finish")
    /\ UNCHANGED <<pending, result, removing, history>>

\* finishStartScript, in the deferred function: of a stored sandbox, or of one whose
\* placement or Add has failed; by ID, whoever holds the entry.
FinishStart(p) ==
    LET s == sid[p] IN
    /\ pc[p] \in Creating
    /\ pending' = [pending EXCEPT ![s] = "none"]
    /\ result'  = [result EXCEPT ![s] = IF pc[p] = "finish" THEN "ok" ELSE "error"]
    /\ robbed'  = IF latest[s] \in {p, None} THEN robbed ELSE robbed \cup {s}
    /\ Return(p)
    /\ UNCHANGED <<index, removing, latest>>

-----------------------------------------------------------------------------
(* waitForStart.                                                           *)

\* Seeded fault: no second look at the result once the entry is gone.
AnswerOnce(p) ==
    LET s == sid[p] IN
    IF pc[p] = "wait_score" /\ pending[s] = "none" THEN "error"
    ELSE IF pc[p] = "wait_get" THEN result[s] ELSE "none"

\* What p is told if it returns now: the result it finds, and failure if it finds
\* none once the entry is gone.
Answer(p) ==
    LET s == sid[p] IN
    IF pc[p] = "wait_final" /\ result[s] = "none" THEN "error"
    ELSE IF pc[p] \in {"wait_get", "wait_final"} THEN result[s] ELSE "none"

\* GET of the result key; once more when the entry is gone ("final check").
WaitGet(p) ==
    /\ pc[p] \in {"wait_get", "wait_final"}
    /\ IF Answer(p) # "none" THEN Return(p) ELSE Goto(p, "wait_score")
    /\ UNCHANGED <<index, pending, result, removing, history>>

\* ZSCORE of the pending entry.
WaitScore(p) ==
    /\ pc[p] = "wait_score"
    /\ Goto(p, IF pending[sid[p]] # "none" THEN "wait_get" ELSE "wait_final")
    /\ UNCHANGED <<index, pending, result, removing, history>>

\* The deadline of RequestTimeout ends a wait.
Timeout(p) ==
    /\ pc[p] \in Waiting
    /\ Return(p)
    /\ UNCHANGED <<index, pending, result, removing, history>>

-----------------------------------------------------------------------------
(* Store.Remove, by whoever drives the sandbox's one transition.           *)

\* storage.Remove: removeSandboxScript.
Remove(s) ==
    /\ s \in index /\ s \notin removing
    /\ index' = index \ {s} /\ removing' = removing \cup {s}
    /\ latest' = [latest EXCEPT ![s] = None]
    /\ UNCHANGED <<pending, result, userVars, robbed>>

\* reservations.Release: releaseScript, by ID.
Release(s) ==
    /\ s \in removing
    /\ removing' = removing \ {s}
    /\ pending'  = [pending EXCEPT ![s] = "none"]
    /\ result'   = [result EXCEPT ![s] = "none"]
    /\ robbed'   = IF latest[s] = None THEN robbed ELSE robbed \cup {s}
    /\ UNCHANGED <<index, userVars, latest>>

-----------------------------------------------------------------------------
(* Time and crashes.                                                       *)

\* staleTTL passes.
GrowsStale(s) ==
    /\ pending[s] = "fresh"
    /\ TTLCovers => ~Creator(s)
    /\ pending' = [pending EXCEPT ![s] = "stale"]
    /\ UNCHANGED <<index, result, removing, userVars, history>>

\* resultTTL passes.
ResultExpires(s) ==
    /\ result[s] # "none"
    /\ TTLCovers => \A p \in Users : ~(pc[p] \in Waiting /\ sid[p] = s)
    /\ result' = [result EXCEPT ![s] = "none"]
    /\ UNCHANGED <<index, pending, removing, userVars, history>>

Crash(p) ==
    /\ p \in Crashable /\ pc[p] \notin {"idle", "crashed"}
    /\ pc' = [pc EXCEPT ![p] = "crashed"]
    /\ UNCHANGED <<index, pending, result, removing, sid, history>>

-----------------------------------------------------------------------------
Step(p) == Add(p) \/ FinishStart(p) \/ WaitGet(p) \/ WaitScore(p)

Next ==
    \/ \E p \in Users : Reserve(p) \/ Step(p) \/ Timeout(p) \/ Crash(p)
    \/ \E s \in Sids : Remove(s) \/ Release(s) \/ GrowsStale(s) \/ ResultExpires(s)

Spec == Init /\ [][Next]_vars

\* Requests run on and keep coming, waits end by their deadline and time
\* passes.  Removals and crashes may come or not.
FairSpec ==
    /\ Spec
    /\ \A p \in Users : WF_vars(Reserve(p)) /\ WF_vars(Step(p)) /\ WF_vars(Timeout(p))
    /\ \A s \in Sids : WF_vars(GrowsStale(s))

-----------------------------------------------------------------------------
(* Properties.                                                             *)

TypeOK ==
    /\ index \subseteq Sids /\ removing \subseteq Sids
    /\ pending \in [Sids -> {"none", "fresh", "stale"}]
    /\ result \in [Sids -> {"none", "ok", "error"}]
    /\ pc \in [Users -> Labels] /\ sid \in [Users -> Sids \cup {None}]
    /\ \A p \in Users : sid[p] = None <=> pc[p] = "idle"
    /\ latest \in [Sids -> Users \cup {None}] /\ robbed \subseteq Sids

\* The sandboxes the team has, stored or being created.
Counted == index \cup Reserved

\* The team's limit is exceeded by robbed sandboxes only: those whose reservation
\* was deleted while they were being created, by the Release of an earlier removal
\* (Store.Remove) or the finishStart of an earlier creation, which both go by ID.
\* Crashes and lazily dropped reservations do not exceed it (needs TTLCovers).
WithinLimit == Cardinality(Counted \ robbed) <= Limit

\* Until it is stored, a sandbox that is not robbed has one creator, its reservation
\* is there and no result of an earlier attempt can be read by those who wait.
CreatorHoldsSlot ==
    \A p \in Users : pc[p] = "place" /\ sid[p] \notin robbed =>
        /\ pending[sid[p]] = "fresh"
        /\ result[sid[p]] = "none"
        /\ \A q \in Users \ {p} : pc[q] = "place" => sid[q] # sid[p]

\* Who waited for somebody else's creation is told what became of it, unless the
\* sandbox was robbed meanwhile: never that it failed when the sandbox is stored and
\* its creation over (unless the creator crashed before it could say so), and never
\* that it succeeded when the sandbox is neither there nor removed since.
WaitersToldTruth ==
    \A p \in Users : \A s \in Sids \ robbed :
        pc[p] \in Waiting /\ sid[p] = s =>
          /\ Answer(p) = "error" =>
                \/ s \notin index \/ pending[s] # "none"
                \/ \E q \in Users : pc[q] = "crashed" /\ sid[q] = s /\ latest[s] = q
          /\ Answer(p) = "ok" => s \in index \/ latest[s] = None

\* The slot of a creator that crashed comes free again.
CrashedSlotFreed ==
    \A s \in Sids :
        (pending[s] # "none" /\ ~Creator(s)) ~> (pending[s] = "none" \/ Creator(s))
=============================================================================
