--------------------------- MODULE TeamLimitProofs ---------------------------
(***************************************************************************)
(* The team limit, the creators' slots and the waiters' answers, for any   *)
(* number of requests, sandboxes and API instances, crashes, removals and  *)
(* resumes included, when staleTTL and resultTTL outlast a creation and a  *)
(* poll.  What the late Release or finishStart of an earlier removal or    *)
(* creation takes away is the only exception, and robbed names it.         *)
(*                                                                         *)
(* The limit alone is not inductive: addSandboxScript counts nothing, so   *)
(* the creator must still hold the reservation that was counted.  It holds *)
(* it because nobody else places the same sandbox and whatever deletes the *)
(* entry marks the sandbox as robbed; the parts of SlotInv say so.         *)
(***************************************************************************)
EXTENDS TeamLimit, FiniteSetTheorems, TLAPS

\* Until it is stored, a sandbox is the last reserver's.
PlacedIsLatest ==
    \A p \in Users : pc[p] = "place" /\ sid[p] \notin robbed =>
        latest[sid[p]] = p /\ sid[p] \notin index

SlotInv == CreatorHoldsSlot /\ PlacedIsLatest

-----------------------------------------------------------------------------
(* Types.                                                                  *)

LEMMA InitTypes ==
    ASSUME Init
    PROVE  TypeOK
BY LimitAssumption DEF Init, TypeOK, Labels

LEMMA StepTypes ==
    ASSUME TypeOK, [Next]_vars
    PROVE  TypeOK'
<1> USE LimitAssumption DEF TypeOK, Labels, Creating, Waiting, Goto, Return, userVars, history
<1>1. ASSUME NEW p \in Users, Reserve(p)
      PROVE  TypeOK'
  BY <1>1 DEF Reserve, Cleaned, ResultDeleted
<1>2. ASSUME NEW p \in Users, Add(p)
      PROVE  TypeOK'
  BY <1>2 DEF Add
<1>3. ASSUME NEW p \in Users, FinishStart(p)
      PROVE  TypeOK'
  BY <1>3 DEF FinishStart
<1>4. ASSUME NEW p \in Users, WaitGet(p) \/ WaitScore(p) \/ Timeout(p) \/ Crash(p)
      PROVE  TypeOK'
  BY <1>4 DEF WaitGet, WaitScore, Timeout, Crash
<1>5. ASSUME NEW s \in Sids,
             Remove(s) \/ Release(s) \/ GrowsStale(s) \/ ResultExpires(s)
      PROVE  TypeOK'
  BY <1>5 DEF Remove, Release, GrowsStale, ResultExpires
<1>6. CASE UNCHANGED vars
  BY <1>6 DEF vars
<1>7. QED
  BY <1>1, <1>2, <1>3, <1>4, <1>5, <1>6 DEF Next, Step

\* The reservations' state keeps its types in every run, whatever the TTLs
\* (reservations/redis).
THEOREM LimitTypeCorrect == Spec => []TypeOK
<1>1. Init => TypeOK
  BY InitTypes
<1>2. TypeOK /\ [Next]_vars => TypeOK'
  BY StepTypes
<1>3. QED
  BY <1>1, <1>2, PTL DEF Spec

-----------------------------------------------------------------------------
(* A creator holds its slot.                                               *)

LEMMA InitSlots ==
    ASSUME Init
    PROVE  SlotInv
BY DEF Init, SlotInv, CreatorHoldsSlot, PlacedIsLatest

\* p's request reserves s.
Reserves(p, s) ==
    /\ pc[p] = "idle" /\ s \notin index /\ Cleaned[s] = "none" /\ ~Full(Cleaned)
    /\ result'  = ResultDeleted(s)
    /\ pending' = [Cleaned EXCEPT ![s] = "fresh"]
    /\ pc'      = [pc EXCEPT ![p] = "place"]
    /\ sid'     = [sid EXCEPT ![p] = s]
    /\ latest'  = [latest EXCEPT ![s] = p]
    /\ robbed'  = IF Afresh(p, s) THEN robbed \ {s} ELSE robbed
    /\ UNCHANGED <<index, removing>>

\* p's request finds s stored or pending, or the team full.
Declines(p) ==
    /\ pc[p] = "idle" /\ pending' = Cleaned
    /\ \/ UNCHANGED <<pc, sid>>
       \/ \E s \in Sids \ index : /\ pc'  = [pc EXCEPT ![p] = "wait_get"]
                                  /\ sid' = [sid EXCEPT ![p] = s]
    /\ UNCHANGED <<index, removing, result, latest, robbed>>

LEMMA ReserveCases ==
    ASSUME NEW p \in Users, Reserve(p)
    PROVE  Declines(p) \/ \E s \in Sids : Reserves(p, s)
BY DEF Reserve, Declines, Reserves, userVars, history

LEMMA ReserveSlots ==
    ASSUME TypeOK, SlotInv, NEW p \in Users, Reserve(p)
    PROVE  SlotInv'
<1> USE LimitAssumption DEF TypeOK, SlotInv
<1>1. CASE Declines(p)
  BY <1>1 DEF Declines, Cleaned, CreatorHoldsSlot, PlacedIsLatest
<1>2. ASSUME NEW s \in Sids, Reserves(p, s)
      PROVE  SlotInv'
  <2> USE DEF Reserves
  <2>1. ASSUME NEW q \in Users, pc'[q] = "place", sid'[q] \notin robbed', q # p
        PROVE  sid[q] # s /\ sid[q] \notin robbed /\ pc[q] = "place" /\ sid'[q] = sid[q]
    <3>1. pc[q] = "place" /\ sid'[q] = sid[q]
      BY <1>2, <2>1
    <3>2. sid[q] # s
      BY <1>2, <2>1, <3>1 DEF Afresh, Cleaned, CreatorHoldsSlot
    <3>3. QED
      BY <1>2, <2>1, <3>1, <3>2
  <2>2. CreatorHoldsSlot'
    <3>1. ASSUME NEW q \in Users, pc'[q] = "place", sid'[q] \notin robbed'
          PROVE  pending'[sid'[q]] = "fresh" /\ result'[sid'[q]] = "none"
      BY <1>2, <2>1, <3>1 DEF Cleaned, ResultDeleted, CreatorHoldsSlot
    <3>2. ASSUME NEW q \in Users, pc'[q] = "place", sid'[q] \notin robbed',
                 NEW r \in Users \ {q}, pc'[r] = "place"
          PROVE  sid'[r] # sid'[q]
      <4>1. CASE q = p
        <5>1. sid'[p] = s /\ pc[r] = "place" /\ sid'[r] = sid[r]
          BY <1>2, <3>2, <4>1
        <5>2. CASE Afresh(p, s)
          BY <3>2, <4>1, <5>1, <5>2 DEF Afresh
        <5>3. CASE ~Afresh(p, s) /\ s \notin robbed
          BY <1>2, <3>2, <4>1, <5>1, <5>3 DEF Cleaned, CreatorHoldsSlot
        <5>4. QED
          BY <1>2, <3>2, <4>1, <5>1, <5>2, <5>3
      <4>2. CASE q # p
        BY <1>2, <2>1, <3>2, <4>2 DEF CreatorHoldsSlot
      <4>3. QED
        BY <4>1, <4>2
    <3>3. QED
      BY <3>1, <3>2 DEF CreatorHoldsSlot
  <2>3. PlacedIsLatest'
    BY <1>2, <2>1 DEF PlacedIsLatest
  <2>4. QED
    BY <2>2, <2>3
<1>3. QED
  BY <1>1, <1>2, ReserveCases

LEMMA AddSlots ==
    ASSUME TypeOK, SlotInv, NEW p \in Users, Add(p)
    PROVE  SlotInv'
BY LimitAssumption DEF TypeOK, Add, Goto, SlotInv, CreatorHoldsSlot, PlacedIsLatest, history

LEMMA FinishStartSlots ==
    ASSUME TypeOK, SlotInv, NEW p \in Users, FinishStart(p)
    PROVE  SlotInv'
<1> USE LimitAssumption DEF TypeOK, SlotInv, FinishStart, Return, Creating
<1>1. sid[p] \in Sids
  OBVIOUS
<1>2. ASSUME NEW q \in Users, pc'[q] = "place", sid'[q] \notin robbed'
      PROVE  /\ q # p /\ pc[q] = "place" /\ sid'[q] = sid[q] /\ sid[q] \notin robbed
             /\ sid[q] # sid[p]
  BY <1>1, <1>2 DEF PlacedIsLatest
<1>3. CreatorHoldsSlot'
  BY <1>1, <1>2 DEF CreatorHoldsSlot
<1>4. PlacedIsLatest'
  BY <1>2 DEF PlacedIsLatest
<1>5. QED
  BY <1>3, <1>4

\* Steps that touch neither reservations nor results.
LEMMA LocalSlots ==
    ASSUME TypeOK, SlotInv, NEW p \in Users,
           WaitGet(p) \/ WaitScore(p) \/ Timeout(p) \/ Crash(p)
    PROVE  SlotInv'
BY LimitAssumption DEF TypeOK, WaitGet, WaitScore, Timeout, Crash, Goto, Return, SlotInv,
   CreatorHoldsSlot, PlacedIsLatest, Waiting, history

\* A removal and the passing of time leave the creators' reservations alone.
LEMMA EnvironmentSlots ==
    ASSUME TypeOK, SlotInv, TTLCovers, NEW s \in Sids,
           Remove(s) \/ Release(s) \/ GrowsStale(s) \/ ResultExpires(s)
    PROVE  SlotInv'
<1> USE LimitAssumption DEF TypeOK, SlotInv, userVars, history
<1>1. CASE Remove(s)
  BY <1>1 DEF Remove, CreatorHoldsSlot, PlacedIsLatest
<1>2. CASE Release(s)
  BY <1>2 DEF Release, CreatorHoldsSlot, PlacedIsLatest
<1>3. CASE GrowsStale(s)
  BY <1>3 DEF GrowsStale, Creator, CreatorHoldsSlot, PlacedIsLatest, Creating
<1>4. CASE ResultExpires(s)
  BY <1>4 DEF ResultExpires, CreatorHoldsSlot, PlacedIsLatest
<1>5. QED
  BY <1>1, <1>2, <1>3, <1>4

LEMMA StepSlots ==
    ASSUME TypeOK, SlotInv, TTLCovers, [Next]_vars
    PROVE  SlotInv'
<1>1. CASE UNCHANGED vars
  BY <1>1 DEF vars, SlotInv, CreatorHoldsSlot, PlacedIsLatest
<1>2. CASE Next
  BY <1>2, ReserveSlots, AddSlots, FinishStartSlots, LocalSlots, EnvironmentSlots
     DEF Next, Step
<1>3. QED
  BY <1>1, <1>2

-----------------------------------------------------------------------------
(* The limit.                                                              *)

Honest == Counted \ robbed

\* A step after which no more sandboxes count keeps the team within its limit.
LEMMA FewerWithinLimit ==
    ASSUME TypeOK, WithinLimit, Honest' \subseteq Honest
    PROVE  WithinLimit'
<1>1. IsFiniteSet(Honest)
  BY LimitAssumption, FS_Subset DEF TypeOK, Honest, Counted, Reserved
<1>2. /\ Cardinality(Honest) \in Nat
      /\ Cardinality(Honest') \in Nat
      /\ Cardinality(Honest') <= Cardinality(Honest)
  BY <1>1, FS_Subset, FS_CardinalityType
<1>3. QED
  BY <1>2, LimitAssumption DEF WithinLimit, Honest

\* reserveScript counts before it adds.
LEMMA ReserveWithinLimit ==
    ASSUME TypeOK, WithinLimit, NEW p \in Users, Reserve(p)
    PROVE  WithinLimit'
<1> DEFINE K == {s \in Sids : Cleaned[s] # "none"}
<1>1. CASE Declines(p)
  <2>1. Honest' \subseteq Honest
    BY <1>1 DEF Declines, TypeOK, Honest, Counted, Reserved, Cleaned
  <2>2. QED
    BY <2>1, FewerWithinLimit
<1>2. ASSUME NEW s \in Sids, Reserves(p, s)
      PROVE  WithinLimit'
  <2>1. Counted' = (index \cup K) \cup {s}
    <3>1. Reserved' = K \cup {s}
      BY <1>2 DEF Reserved, Cleaned, Reserves
    <3>2. QED
      BY <1>2, <3>1 DEF Reserves, Counted
  <2>2. IsFiniteSet(index) /\ IsFiniteSet(K)
    BY LimitAssumption, FS_Subset DEF TypeOK
  <2>3. /\ Cardinality(index) \in Nat /\ Cardinality(K) \in Nat
        /\ IsFiniteSet(index \cup K) /\ Cardinality(index \cup K) \in Nat
        /\ Cardinality(index \cap K) \in Nat
        /\ Cardinality(index \cup K) =
             Cardinality(index) + Cardinality(K) - Cardinality(index \cap K)
    <3>1. IsFiniteSet(index \cap K)
      BY <2>2, FS_Subset
    <3>2. IsFiniteSet(index \cup K)
      BY <2>2, FS_Union
    <3>3. QED
      BY <2>2, <3>1, <3>2, FS_Union, FS_CardinalityType
  <2>4. Cardinality(index) + Cardinality(K) < Limit
    BY <1>2, <2>3, LimitAssumption DEF Full, Reserves
  <2>5. /\ IsFiniteSet(Counted') /\ Cardinality(Counted') \in Nat
        /\ Cardinality(Counted') <= Cardinality(index \cup K) + 1
    <3> DEFINE C == index \cup K
    <3> HIDE DEF C, K
    <3>1. IsFiniteSet(C) /\ Cardinality(C) \in Nat
      BY <2>3 DEF C
    <3>2. /\ IsFiniteSet(C \cup {s})
          /\ Cardinality(C \cup {s}) =
               IF s \in C THEN Cardinality(C) ELSE Cardinality(C) + 1
      BY <3>1, FS_AddElement
    <3>3. Counted' = C \cup {s}
      BY <2>1 DEF C
    <3>4. /\ IsFiniteSet(Counted') /\ Cardinality(Counted') \in Nat
          /\ Cardinality(Counted') <= Cardinality(C) + 1
      BY <3>1, <3>2, <3>3
    <3>5. QED
      BY <3>4 DEF C
  <2>6. /\ Cardinality(Honest') \in Nat
        /\ Cardinality(Honest') <= Cardinality(Counted')
    <3>1. Honest' \subseteq Counted'
      BY DEF Honest
    <3>2. QED
      BY <2>5, <3>1, FS_Subset, FS_CardinalityType
  <2>7. QED
    BY <2>3, <2>4, <2>5, <2>6, LimitAssumption DEF WithinLimit, Honest
<1>3. QED
  BY <1>1, <1>2, ReserveCases

LEMMA StepWithinLimit ==
    ASSUME TypeOK, SlotInv, WithinLimit, [Next]_vars
    PROVE  WithinLimit'
<1> USE DEF Honest, Counted, Reserved, history
<1>1. ASSUME NEW p \in Users, Add(p)
      PROVE  Honest' \subseteq Honest
  BY <1>1 DEF Add, Goto, TypeOK, SlotInv, CreatorHoldsSlot
<1>2. ASSUME NEW p \in Users, FinishStart(p)
      PROVE  Honest' \subseteq Honest
  BY <1>2 DEF FinishStart, TypeOK
<1>3. ASSUME NEW p \in Users, WaitGet(p) \/ WaitScore(p) \/ Timeout(p) \/ Crash(p)
      PROVE  Honest' \subseteq Honest
  BY <1>3 DEF WaitGet, WaitScore, Timeout, Crash
<1>4. ASSUME NEW s \in Sids,
             Remove(s) \/ Release(s) \/ GrowsStale(s) \/ ResultExpires(s)
      PROVE  Honest' \subseteq Honest
  BY <1>4 DEF Remove, Release, GrowsStale, ResultExpires, TypeOK
<1>5. CASE UNCHANGED vars
  BY <1>5, FewerWithinLimit DEF vars
<1>6. QED
  BY <1>1, <1>2, <1>3, <1>4, <1>5, ReserveWithinLimit, FewerWithinLimit DEF Next, Step

-----------------------------------------------------------------------------
(* What the waiters are told.                                              *)

\* What its creator has stored and nobody has removed since is there.
FinishStored ==
    \A p \in Users : pc[p] = "finish" /\ latest[sid[p]] = p => sid[p] \in index

\* A result that says ok tells of a sandbox that is stored, or was until it was
\* removed.
ResultsTrue ==
    \A s \in Sids \ robbed : result[s] = "ok" => s \in index \/ latest[s] = None

\* Of a stored sandbox, the creator has finishStart left, or has crashed, or those
\* who wait find its result.
Told(s) ==
    \/ /\ \E q \in Users : pc[q] = "finish" /\ sid[q] = s /\ latest[s] = q
       /\ pending[s] = "fresh"
    \/ \E q \in Users : pc[q] = "crashed" /\ sid[q] = s /\ latest[s] = q
    \/ /\ pending[s] = "none"
       /\ result[s] = "ok" \/ \A p \in Users : ~(pc[p] \in Waiting /\ sid[p] = s)

StoredIsTold == \A s \in index \ robbed : latest[s] # None /\ Told(s)

WaitInv == FinishStored /\ ResultsTrue /\ StoredIsTold

LEMMA InitWaits ==
    ASSUME Init
    PROVE  WaitInv
BY LimitAssumption DEF Init, WaitInv, FinishStored, ResultsTrue, StoredIsTold

LEMMA ReserveWaits ==
    ASSUME TypeOK, SlotInv, WaitInv, NEW p \in Users, Reserve(p)
    PROVE  WaitInv'
<1> USE LimitAssumption DEF TypeOK, WaitInv, Waiting
<1>1. CASE Declines(p)
  <2> USE DEF Declines
  <2>1. FinishStored'
    BY <1>1 DEF FinishStored
  <2>2. ResultsTrue'
    BY <1>1 DEF ResultsTrue
  <2>3. ASSUME NEW s \in index \ robbed
        PROVE  Told(s)'
    <3>1. Told(s) /\ s \in Sids
      BY DEF StoredIsTold
    <3>2. \A q \in Users : pc[q] \in {"finish", "crashed"} =>
             pc'[q] = pc[q] /\ sid'[q] = sid[q]
      BY <1>1
    <3>3. \A q \in Users : pc'[q] \in Waiting /\ sid'[q] = s =>
             pc[q] \in Waiting /\ sid[q] = s
      BY <1>1, <2>3
    <3>4. pending[s] \in {"fresh", "none"} => pending'[s] = pending[s]
      BY <1>1, <3>1 DEF Cleaned
    <3>5. QED
      BY <1>1, <3>1, <3>2, <3>3, <3>4 DEF Told
  <2>4. QED
    BY <1>1, <2>1, <2>2, <2>3 DEF StoredIsTold
<1>2. ASSUME NEW s \in Sids, Reserves(p, s)
      PROVE  WaitInv'
  <2> USE DEF Reserves
  <2>1. FinishStored'
    BY <1>2 DEF FinishStored
  <2>2. ResultsTrue'
    BY <1>2 DEF ResultsTrue, ResultDeleted
  <2>3. ASSUME NEW x \in index \ robbed'
        PROVE  latest'[x] # None /\ Told(x)'
    <3>1. x # s /\ x \in Sids /\ x \notin robbed
      BY <1>2, <2>3
    <3>2. latest[x] # None /\ Told(x) /\ latest'[x] = latest[x] /\ result'[x] = result[x]
      BY <1>2, <2>3, <3>1 DEF StoredIsTold, ResultDeleted
    <3>3. \A q \in Users : pc[q] \in {"finish", "crashed"} =>
             pc'[q] = pc[q] /\ sid'[q] = sid[q]
      BY <1>2
    <3>4. \A q \in Users : pc'[q] \in Waiting /\ sid'[q] = x =>
             pc[q] \in Waiting /\ sid[q] = x
      BY <1>2
    <3>5. pending[x] \in {"fresh", "none"} => pending'[x] = pending[x]
      BY <1>2, <3>1 DEF Cleaned
    <3>6. QED
      BY <3>2, <3>3, <3>4, <3>5 DEF Told
  <2>4. QED
    BY <1>2, <2>1, <2>2, <2>3 DEF StoredIsTold
<1>3. QED
  BY <1>1, <1>2, ReserveCases

LEMMA AddWaits ==
    ASSUME TypeOK, SlotInv, WaitInv, NEW p \in Users, Add(p)
    PROVE  WaitInv'
<1> USE LimitAssumption DEF TypeOK, WaitInv, Add, Goto, Waiting, history
<1>1. FinishStored' /\ ResultsTrue'
  BY DEF FinishStored, ResultsTrue
<1>2. ASSUME NEW s \in index' \ robbed
      PROVE  latest[s] # None /\ Told(s)'
  <2>1. CASE s = sid[p]
    BY <1>2, <2>1 DEF SlotInv, CreatorHoldsSlot, PlacedIsLatest, Told
  <2>2. CASE s # sid[p]
    BY <1>2, <2>2 DEF StoredIsTold, Told
  <2>3. QED
    BY <2>1, <2>2
<1>3. QED
  BY <1>1, <1>2 DEF StoredIsTold

\* The result is written while the storage still agrees with it.
LEMMA FinishStartWaits ==
    ASSUME TypeOK, SlotInv, WaitInv, NEW p \in Users, FinishStart(p)
    PROVE  WaitInv'
<1> USE LimitAssumption DEF TypeOK, WaitInv, FinishStart, Return, Waiting, Creating
<1>1. sid[p] \in Sids
  OBVIOUS
<1>2. FinishStored'
  BY DEF FinishStored
<1>3. ResultsTrue'
  BY <1>1 DEF ResultsTrue, FinishStored
<1>4. ASSUME NEW s \in index \ robbed'
      PROVE  latest[s] # None /\ Told(s)'
  <2>1. latest[s] # None /\ Told(s) /\ s \in Sids
    BY <1>4 DEF StoredIsTold
  <2>2. CASE s = sid[p]
    <3>1. latest[s] = p
      BY <1>4, <2>1, <2>2
    <3>2. pc[p] = "finish"
      BY <1>4, <2>1, <2>2, <3>1 DEF SlotInv, PlacedIsLatest
    <3>3. QED
      BY <1>1, <2>1, <2>2, <3>2 DEF Told
  <2>3. CASE s # sid[p]
    <3>1. pending'[s] = pending[s] /\ result'[s] = result[s]
      BY <2>1, <2>3
    <3>2. \A q \in Users : sid[q] = s => pc'[q] = pc[q] /\ sid'[q] = sid[q]
      BY <2>3
    <3>3. \A q \in Users : sid'[q] = s => pc'[q] = pc[q] /\ sid'[q] = sid[q]
      BY <2>1, <2>3
    <3>4. QED
      BY <2>1, <3>1, <3>2, <3>3 DEF Told
  <2>4. QED
    BY <2>2, <2>3
<1>5. QED
  BY <1>2, <1>3, <1>4 DEF StoredIsTold

LEMMA LocalWaits ==
    ASSUME TypeOK, WaitInv, NEW p \in Users,
           WaitGet(p) \/ WaitScore(p) \/ Timeout(p) \/ Crash(p)
    PROVE  WaitInv'
<1> USE LimitAssumption DEF TypeOK, WaitInv, Waiting
<1>1. UNCHANGED <<index, pending, result, latest, robbed>>
  BY DEF WaitGet, WaitScore, Timeout, Crash, history
<1>2. /\ \A q \in Users \ {p} : pc'[q] = pc[q] /\ sid'[q] = sid[q]
      /\ \/ /\ pc[p] \in Waiting
            /\ pc'[p] = "idle" \/ (pc'[p] \in Waiting /\ sid'[p] = sid[p])
         \/ pc'[p] = "crashed" /\ sid'[p] = sid[p]
  BY DEF WaitGet, WaitScore, Timeout, Crash, Goto, Return
<1>3. FinishStored' /\ ResultsTrue'
  BY <1>1, <1>2 DEF FinishStored, ResultsTrue
<1>4. ASSUME NEW s \in index \ robbed
      PROVE  latest[s] # None /\ Told(s)'
  <2>1. latest[s] # None /\ Told(s)
    BY DEF StoredIsTold
  <2>2. \A q \in Users : pc'[q] \in Waiting /\ sid'[q] = s =>
           pc[q] \in Waiting /\ sid[q] = s
    BY <1>2
  <2>3. \A q \in Users : pc[q] \in {"finish", "crashed"} /\ sid[q] = s =>
           pc'[q] \in {pc[q], "crashed"} /\ sid'[q] = s
    BY <1>2
  <2>4. QED
    BY <1>1, <2>1, <2>2, <2>3 DEF Told
<1>5. QED
  BY <1>1, <1>3, <1>4 DEF StoredIsTold

LEMMA EnvironmentWaits ==
    ASSUME TypeOK, WaitInv, TTLCovers, NEW s \in Sids,
           Remove(s) \/ Release(s) \/ GrowsStale(s) \/ ResultExpires(s)
    PROVE  WaitInv'
<1> USE LimitAssumption DEF TypeOK, WaitInv, userVars, history
<1>1. CASE Remove(s)
  BY <1>1 DEF Remove, FinishStored, ResultsTrue, StoredIsTold, Told
<1>2. CASE Release(s)
  BY <1>2 DEF Release, FinishStored, ResultsTrue, StoredIsTold, Told
<1>3. CASE GrowsStale(s)
  BY <1>3 DEF GrowsStale, Creator, Creating, FinishStored, ResultsTrue, StoredIsTold, Told
<1>4. CASE ResultExpires(s)
  BY <1>4 DEF ResultExpires, FinishStored, ResultsTrue, StoredIsTold, Told
<1>5. QED
  BY <1>1, <1>2, <1>3, <1>4

LEMMA StepWaits ==
    ASSUME TypeOK, SlotInv, WaitInv, TTLCovers, [Next]_vars
    PROVE  WaitInv'
<1>1. CASE UNCHANGED vars
  BY <1>1 DEF vars, WaitInv, FinishStored, ResultsTrue, StoredIsTold, Told
<1>2. CASE Next
  BY <1>2, ReserveWaits, AddWaits, FinishStartWaits, LocalWaits, EnvironmentWaits
     DEF Next, Step
<1>3. QED
  BY <1>1, <1>2

\* The invariant says what the answers need.
LEMMA WaitsTruthful ==
    ASSUME TypeOK, WaitInv
    PROVE  WaitersToldTruth
<1> SUFFICES ASSUME NEW p \in Users, NEW s \in Sids \ robbed,
                    pc[p] \in Waiting, sid[p] = s
             PROVE  /\ Answer(p) = "error" =>
                          \/ s \notin index \/ pending[s] # "none"
                          \/ \E q \in Users : /\ pc[q] = "crashed" /\ sid[q] = s
                                              /\ latest[s] = q
                    /\ Answer(p) = "ok" => s \in index \/ latest[s] = None
  BY DEF WaitersToldTruth
<1>1. Answer(p) = "ok" => s \in index \/ latest[s] = None
  BY DEF Answer, WaitInv, ResultsTrue
<1>2. ASSUME Answer(p) = "error", s \in index, pending[s] = "none"
      PROVE  \E q \in Users : pc[q] = "crashed" /\ sid[q] = s /\ latest[s] = q
  <2>1. result[s] # "ok"
    BY <1>2 DEF Answer
  <2>2. QED
    BY <1>2, <2>1 DEF WaitInv, StoredIsTold, Told
<1>3. QED
  BY <1>1, <1>2

-----------------------------------------------------------------------------
\* While a sandbox is being placed its reservation is in Redis, nobody else
\* places it, and no result of an earlier attempt can be read, for any number of
\* requests, removals and resumes of it and crashes, unless a late Release or
\* finishStart has robbed it (reserveScript, finishStartScript, releaseScript).
THEOREM CreatorsHoldSlots ==
    ASSUME TTLCovers
    PROVE  Spec => []CreatorHoldsSlot
<1>1. Init => SlotInv
  BY InitSlots
<1>2. TypeOK /\ SlotInv /\ [Next]_vars => SlotInv'
  BY StepSlots
<1>3. SlotInv => CreatorHoldsSlot
  BY DEF SlotInv
<1>4. QED
  BY <1>1, <1>2, <1>3, LimitTypeCorrect, PTL DEF Spec

\* A team has more sandboxes, stored or being created, than its limit allows only
\* by those that were robbed of their reservation while they were being created
\* (reserveScript counts, addSandboxScript does not).
THEOREM LimitHolds ==
    ASSUME TTLCovers
    PROVE  Spec => []WithinLimit
<1>1. Init => SlotInv /\ WithinLimit
  <2>1. ASSUME Init PROVE WithinLimit
    <3>1. Counted \ robbed = {}
      BY <2>1 DEF Init, Counted, Reserved
    <3>2. QED
      BY <3>1, FS_EmptySet, LimitAssumption DEF WithinLimit
  <2>2. QED
    BY <2>1, InitSlots
<1>2. TypeOK /\ SlotInv /\ WithinLimit /\ [Next]_vars => SlotInv' /\ WithinLimit'
  BY StepSlots, StepWithinLimit
<1>3. QED
  BY <1>1, <1>2, LimitTypeCorrect, PTL DEF Spec

\* Who waits for another request's creation is told what became of it, however
\* reserveScript, finishStartScript, releaseScript, the polls and the crashes of any
\* number of instances interleave, unless the sandbox was robbed (waitForStart).
THEOREM WaitersAreToldTruth ==
    ASSUME TTLCovers
    PROVE  Spec => []WaitersToldTruth
<1>1. Init => SlotInv /\ WaitInv
  BY InitSlots, InitWaits
<1>2. TypeOK /\ SlotInv /\ WaitInv /\ [Next]_vars => SlotInv' /\ WaitInv'
  BY StepSlots, StepWaits
<1>3. TypeOK /\ WaitInv => WaitersToldTruth
  BY WaitsTruthful
<1>4. QED
  BY <1>1, <1>2, <1>3, LimitTypeCorrect, PTL DEF Spec
=============================================================================
