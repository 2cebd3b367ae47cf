----------------------------- MODULE GuardProofs -----------------------------
(***************************************************************************)
(* Proofs about the object-store guard, for any number of callers, slots,  *)
(* failures and ticks.  The slot counter, the wake-ups and the breaker are *)
(* proved separately; the type invariant rests on the first, because       *)
(* release counts down without looking.                                    *)
(***************************************************************************)
EXTENDS Guard, FiniteSetTheorems, TLAPS

(* Callers that f puts at a place in S; In(S) is Size(pc, S).              *)
Members(f, S) == {t \in Caller : f[t] \in S}
Size(f, S) == Cardinality(Members(f, S))

Places == Holding \cup {"idle", "waiting", "woken", "notify"}

(* The set of callers is finite, so In counts.                             *)
LEMMA SizeType ==
  ASSUME NEW f, NEW S
  PROVE  IsFiniteSet(Members(f, S)) /\ Size(f, S) \in Nat
<1>1. Members(f, S) \subseteq Caller
  BY DEF Members
<1>2. IsFiniteSet(Members(f, S))
  BY <1>1, GuardConstants, FS_Subset
<1>. QED
  BY <1>2, FS_CardinalityType DEF Size

(* A caller that stays in, or out of, S does not change the count.         *)
LEMMA MoveWithin ==
  ASSUME NEW f \in [Caller -> Places], NEW S, NEW t \in Caller, NEW b,
         f[t] \in S <=> b \in S
  PROVE  Size([f EXCEPT ![t] = b], S) = Size(f, S)
<1>1. Members([f EXCEPT ![t] = b], S) = Members(f, S)
  BY DEF Members
<1>. QED
  BY <1>1 DEF Size

(* A caller that moves into S counts one more.                             *)
LEMMA MoveIn ==
  ASSUME NEW f \in [Caller -> Places], NEW S, NEW t \in Caller, NEW b,
         f[t] \notin S, b \in S
  PROVE  Size([f EXCEPT ![t] = b], S) = Size(f, S) + 1
<1>1. Members([f EXCEPT ![t] = b], S) = Members(f, S) \cup {t}
  BY DEF Members
<1>2. t \notin Members(f, S)
  BY DEF Members
<1>3. IsFiniteSet(Members(f, S))
  BY SizeType
<1>. QED
  BY <1>1, <1>2, <1>3, FS_AddElement DEF Size

(* A caller that moves out of S counts one less.                           *)
LEMMA MoveOut ==
  ASSUME NEW f \in [Caller -> Places], NEW S, NEW t \in Caller, NEW b,
         f[t] \in S, b \notin S
  PROVE  Size([f EXCEPT ![t] = b], S) = Size(f, S) - 1
<1>1. Members([f EXCEPT ![t] = b], S) = Members(f, S) \ {t}
  BY DEF Members
<1>2. t \in Members(f, S)
  BY DEF Members
<1>3. IsFiniteSet(Members(f, S))
  BY SizeType
<1>. QED
  BY <1>1, <1>2, <1>3, FS_RemoveElement DEF Size

(* Nobody anywhere in S.                                                   *)
LEMMA NobodyIn ==
  ASSUME NEW f, NEW S, \A t \in Caller : f[t] \notin S
  PROVE  Size(f, S) = 0
<1>1. Members(f, S) = {}
  BY DEF Members
<1>. QED
  BY <1>1, FS_EmptySet DEF Size

(* A caller in S: there is at least one.                                   *)
LEMMA SomebodyIn ==
  ASSUME NEW f, NEW S, NEW t \in Caller, f[t] \in S
  PROVE  Size(f, S) >= 1
<1>1. t \in Members(f, S)
  BY DEF Members
<1>2. IsFiniteSet(Members(f, S)) /\ Size(f, S) \in Nat
  BY SizeType
<1>3. Size(f, S) # 0
  BY <1>1, <1>2, FS_EmptySet DEF Size
<1>. QED
  BY <1>2, <1>3
-----------------------------------------------------------------------------
(* Every step leaves the state well typed, given that a caller that holds  *)
(* a slot is counted.                                                      *)
LEMMA TypeStep ==
  ASSUME GuardTypeOK, SlotsExact, [GuardNext]_guardVars
  PROVE  GuardTypeOK'
<1>. USE GuardConstants DEF GuardTypeOK, breaker, None, At
<1>1. ASSUME NEW t \in Caller, Acquire(t) PROVE GuardTypeOK'
  BY <1>1 DEF Acquire, Holding
<1>2. ASSUME NEW t \in Caller, Wait(t) PROVE GuardTypeOK'
  BY <1>2 DEF Wait, Holding
<1>3. ASSUME NEW t \in Caller, SpuriousWakeup(t) PROVE GuardTypeOK'
  BY <1>3 DEF SpuriousWakeup, Holding
<1>4. ASSUME NEW t \in Caller, Admit(t) PROVE GuardTypeOK'
  BY <1>4 DEF Admit, HalfOpen, Holding
<1>5. ASSUME NEW t \in Caller, Backend(t) PROVE GuardTypeOK'
  BY <1>5 DEF Backend, Holding
<1>6. ASSUME NEW t \in Caller, OnSuccess(t) PROVE GuardTypeOK'
  <2>1. pc' \in [Caller -> Holding \cup {"idle", "waiting", "woken", "notify"}]
    BY <1>6 DEF OnSuccess, Holding
  <2>2. failures' \in 0 .. FailureThreshold /\ opened_at' \in {None} \cup 0 .. OpenFor
    BY <1>6 DEF OnSuccess
  <2>3. probing' \in BOOLEAN
    BY <1>6, Zenon DEF OnSuccess
  <2>. QED
    BY <1>6, <2>1, <2>2, <2>3 DEF OnSuccess
<1>7. ASSUME NEW t \in Caller, OnFailure(t) PROVE GuardTypeOK'
  <2>1. pc' \in [Caller -> Holding \cup {"idle", "waiting", "woken", "notify"}]
    BY <1>7 DEF OnFailure, Holding
  <2>2. failures' \in 0 .. FailureThreshold /\ opened_at' \in {None} \cup 0 .. OpenFor
    BY <1>7 DEF OnFailure
  <2>3. probing' \in BOOLEAN
    BY <1>7, Zenon DEF OnFailure
  <2>. QED
    BY <1>7, <2>1, <2>2, <2>3 DEF OnFailure
<1>8. ASSUME NEW t \in Caller, ReleaseSlot(t) PROVE GuardTypeOK'
  <2>1. Size(pc, Holding) >= 1
    BY <1>8, SomebodyIn DEF ReleaseSlot, Holding
  <2>2. count >= 1
    BY <2>1 DEF SlotsExact, In, Size, Members
  <2>. QED
    BY <1>8, <2>2 DEF ReleaseSlot, Holding
<1>9. ASSUME NEW t \in Caller, NotifyOne(t) PROVE GuardTypeOK'
  BY <1>9 DEF NotifyOne, Waiting, Holding
<1>10. CASE Tick
  BY <1>10 DEF Tick
<1>11. CASE Heal
  BY <1>11 DEF Heal
<1>12. CASE UNCHANGED guardVars
  BY <1>12 DEF guardVars
<1>. QED
  BY <1>1, <1>2, <1>3, <1>4, <1>5, <1>6, <1>7, <1>8, <1>9, <1>10, <1>11, <1>12
     DEF GuardNext, Enter, Running

(* The counter moves with the callers that hold a slot.                    *)
LEMMA SlotsStep ==
  ASSUME GuardTypeOK, SlotsExact, [GuardNext]_guardVars
  PROVE  SlotsExact'
<1>1. /\ pc \in [Caller -> Places]
      /\ count \in Nat /\ count = Size(pc, Holding)
      /\ MaxInflight \in Nat /\ count <= MaxInflight
  BY GuardConstants DEF GuardTypeOK, Places, SlotsExact, In, Size, Members
<1>2. SUFFICES count' = Size(pc', Holding) /\ count' <= MaxInflight
  BY DEF SlotsExact, In, Size, Members
<1>3. ASSUME NEW t \in Caller, Acquire(t)
      PROVE  count' = Size(pc', Holding) /\ count' <= MaxInflight
  <2>1. pc[t] \notin Holding /\ pc' = [pc EXCEPT ![t] = "admit"] /\ "admit" \in Holding
    BY <1>3 DEF Acquire, At, Holding
  <2>2. Size(pc', Holding) = Size(pc, Holding) + 1
    BY <1>1, <2>1, MoveIn
  <2>. QED
    BY <1>1, <1>3, <2>2 DEF Acquire
<1>4. ASSUME NEW t \in Caller, ReleaseSlot(t)
      PROVE  count' = Size(pc', Holding) /\ count' <= MaxInflight
  <2>1. pc[t] \in Holding /\ pc' = [pc EXCEPT ![t] = "notify"] /\ "notify" \notin Holding
    BY <1>4 DEF ReleaseSlot, At, Holding
  <2>2. Size(pc', Holding) = Size(pc, Holding) - 1
    BY <1>1, <2>1, MoveOut
  <2>. QED
    BY <1>1, <1>4, <2>2 DEF ReleaseSlot
<1>5. ASSUME count' = count, Members(pc', Holding) = Members(pc, Holding)
      PROVE  count' = Size(pc', Holding) /\ count' <= MaxInflight
  BY <1>1, <1>5 DEF Size
<1>6. ASSUME NEW t \in Caller,
             \/ Wait(t) \/ SpuriousWakeup(t) \/ Admit(t) \/ Backend(t)
             \/ OnSuccess(t) \/ OnFailure(t)
      PROVE  count' = count /\ Members(pc', Holding) = Members(pc, Holding)
  <2>1. /\ count' = count
        /\ \E b \in Places : pc' = [pc EXCEPT ![t] = b] /\ (pc[t] \in Holding <=> b \in Holding)
    BY <1>6 DEF Wait, SpuriousWakeup, Admit, HalfOpen, Backend, OnSuccess, OnFailure,
                At, Holding, Places
  <2>. QED
    BY <1>1, <2>1 DEF Members
<1>7. ASSUME NEW t \in Caller, NotifyOne(t)
      PROVE  count' = count /\ Members(pc', Holding) = Members(pc, Holding)
  BY <1>1, <1>7 DEF NotifyOne, Waiting, Members, Holding
<1>8. ASSUME Tick \/ Heal \/ UNCHANGED guardVars
      PROVE  count' = count /\ Members(pc', Holding) = Members(pc, Holding)
  BY <1>8 DEF Tick, Heal, guardVars, Members
<1>. QED
  BY <1>3, <1>4, <1>5, <1>6, <1>7, <1>8 DEF GuardNext, Enter, Running

(* A half-open breaker keeps the failures that opened it.                  *)
LEMMA ProbeStep ==
  ASSUME GuardTypeOK, ProbeAtThreshold, [GuardNext]_guardVars
  PROVE  ProbeAtThreshold'
<1>. USE GuardConstants DEF GuardTypeOK, ProbeAtThreshold, breaker, None
<1>1. ASSUME NEW t \in Caller, Admit(t) PROVE ProbeAtThreshold'
  BY <1>1 DEF Admit, HalfOpen
<1>2. ASSUME NEW t \in Caller, OnSuccess(t) PROVE ProbeAtThreshold'
  BY <1>2 DEF OnSuccess
<1>3. ASSUME NEW t \in Caller, OnFailure(t) PROVE ProbeAtThreshold'
  BY <1>3 DEF OnFailure
<1>4. CASE Tick
  BY <1>4 DEF Tick
<1>5. CASE UNCHANGED breaker
  BY <1>5
<1>6. ASSUME NEW t \in Caller,
             \/ Acquire(t) \/ Wait(t) \/ SpuriousWakeup(t) \/ Backend(t)
             \/ ReleaseSlot(t) \/ NotifyOne(t)
      PROVE  UNCHANGED breaker
  BY <1>6 DEF Acquire, Wait, SpuriousWakeup, Backend, ReleaseSlot, NotifyOne
<1>7. Heal \/ UNCHANGED guardVars => UNCHANGED breaker
  BY DEF Heal, guardVars
<1>. QED
  BY <1>1, <1>2, <1>3, <1>4, <1>5, <1>6, <1>7 DEF GuardNext, Enter, Running

(* The sum that NoLostWakeup is about changes only when a wake-up arrives  *)
(* or a caller acts on it: a slot given back is a wake-up due, a wake-up   *)
(* due becomes a woken caller, and a woken caller takes the slot.          *)
LEMMA WakeStep ==
  ASSUME GuardTypeOK, NoLostWakeup, [GuardNext]_guardVars
  PROVE  NoLostWakeup'
<1>. DEFINE Due == {"woken", "notify"}
<1>1. /\ pc \in [Caller -> Places] /\ count \in Nat /\ MaxInflight \in Nat
      /\ Waiting # {} => count + Size(pc, Due) >= MaxInflight
      /\ Size(pc, Due) \in Nat /\ Size(pc', Due) \in Nat
  <2>1. pc \in [Caller -> Places] /\ count \in Nat /\ MaxInflight \in Nat
    BY GuardConstants DEF GuardTypeOK, Places
  <2>2. Waiting # {} => count + Size(pc, Due) >= MaxInflight
    BY DEF NoLostWakeup, In, Size, Members
  <2>3. Size(pc, Due) \in Nat /\ Size(pc', Due) \in Nat
    BY SizeType
  <2>. QED
    BY <2>1, <2>2, <2>3
<1>2. SUFFICES ASSUME Waiting' # {} PROVE count' + Size(pc', Due) >= MaxInflight
  BY DEF NoLostWakeup, In, Size, Members
<1>3. ASSUME NEW t \in Caller, Acquire(t)
      PROVE  count' + Size(pc', Due) >= MaxInflight
  <2>1. pc' = [pc EXCEPT ![t] = "admit"] /\ count' = count + 1
    BY <1>3 DEF Acquire, At
  <2>2. Waiting # {}
    BY <1>1, <1>2, <2>1 DEF Waiting
  <2>3. "admit" \notin Due
    OBVIOUS
  <2>. HIDE DEF Due
  <2>4. CASE pc[t] \in Due
    <3>1. Size(pc', Due) = Size(pc, Due) - 1
      BY <1>1, <2>1, <2>3, <2>4, MoveOut
    <3>. QED
      BY <1>1, <2>1, <2>2, <3>1
  <2>5. CASE pc[t] \notin Due
    <3>1. Size(pc', Due) = Size(pc, Due)
      BY <1>1, <2>1, <2>3, <2>5, MoveWithin
    <3>. QED
      BY <1>1, <2>1, <2>2, <3>1
  <2>. QED
    BY <2>4, <2>5
<1>4. ASSUME NEW t \in Caller, Wait(t)
      PROVE  count' + Size(pc', Due) >= MaxInflight
  BY <1>1, <1>4 DEF Wait
<1>5. ASSUME NEW t \in Caller, SpuriousWakeup(t)
      PROVE  count' + Size(pc', Due) >= MaxInflight
  <2>1. pc[t] = "waiting" /\ pc' = [pc EXCEPT ![t] = "woken"] /\ count' = count
    BY <1>5 DEF SpuriousWakeup, At
  <2>2. Size(pc', Due) = Size(pc, Due) + 1
    BY <1>1, <2>1, MoveIn
  <2>. QED
    BY <1>1, <2>1, <2>2 DEF Waiting
<1>6. ASSUME NEW t \in Caller, ReleaseSlot(t)
      PROVE  count' + Size(pc', Due) >= MaxInflight
  <2>1. pc[t] = "leave" /\ pc' = [pc EXCEPT ![t] = "notify"] /\ count' = count - 1
    BY <1>6 DEF ReleaseSlot, At
  <2>2. Size(pc', Due) = Size(pc, Due) + 1
    BY <1>1, <2>1, MoveIn
  <2>3. Waiting # {}
    BY <1>1, <1>2, <2>1 DEF Waiting
  <2>. QED
    BY <1>1, <2>1, <2>2, <2>3
<1>7. ASSUME NEW t \in Caller, NotifyOne(t)
      PROVE  count' + Size(pc', Due) >= MaxInflight
  <2>1. pc[t] = "notify" /\ count' = count
    BY <1>7 DEF NotifyOne
  <2>2. PICK u \in Waiting : pc' = [pc EXCEPT ![t] = "idle", ![u] = "woken"]
    BY <1>1, <1>2, <1>7 DEF NotifyOne, Waiting
  <2>. DEFINE mid == [pc EXCEPT ![t] = "idle"]
  <2>3. /\ mid \in [Caller -> Places] /\ u \in Caller /\ mid[u] = "waiting"
        /\ pc' = [mid EXCEPT ![u] = "woken"]
    BY <1>1, <2>1, <2>2 DEF Waiting, Places
  <2>4. Size(mid, Due) = Size(pc, Due) - 1
    <3>1. pc[t] \in Due /\ "idle" \notin Due
      BY <2>1
    <3>. HIDE DEF Due
    <3>. QED
      BY <1>1, <3>1, MoveOut
  <2>. HIDE DEF mid
  <2>5. Size(pc', Due) = Size(mid, Due) + 1
    BY <2>3, MoveIn
  <2>. QED
    BY <1>1, <2>1, <2>2, <2>4, <2>5
<1>8. ASSUME NEW t \in Caller,
             Admit(t) \/ Backend(t) \/ OnSuccess(t) \/ OnFailure(t)
      PROVE  count' + Size(pc', Due) >= MaxInflight
  <2>1. /\ count' = count
        /\ \E b \in Holding : pc' = [pc EXCEPT ![t] = b] /\ pc[t] \in Holding
    BY <1>8 DEF Admit, HalfOpen, Backend, OnSuccess, OnFailure, At, Holding
  <2>2. Members(pc', Due) = Members(pc, Due) /\ Waiting' = Waiting
    BY <1>1, <2>1 DEF Members, Waiting, Holding
  <2>. QED
    BY <1>1, <1>2, <2>1, <2>2 DEF Size
<1>9. ASSUME Tick \/ Heal \/ UNCHANGED guardVars
      PROVE  count' + Size(pc', Due) >= MaxInflight
  <2>1. UNCHANGED <<pc, count>>
    BY <1>9 DEF Tick, Heal, guardVars
  <2>. QED
    BY <1>1, <1>2, <2>1 DEF Waiting
<1>. QED
  BY <1>3, <1>4, <1>5, <1>6, <1>7, <1>8, <1>9 DEF GuardNext, Enter, Running
-----------------------------------------------------------------------------
LEMMA GuardStart ==
  ASSUME GuardInit
  PROVE  GuardTypeOK /\ SlotsExact /\ NoLostWakeup /\ ProbeAtThreshold
<1>1. GuardTypeOK
  <2>1. probing \in BOOLEAN /\ healthy \in BOOLEAN
    BY Zenon DEF GuardInit
  <2>. QED
    BY <2>1, GuardConstants DEF GuardInit, GuardTypeOK, None
<1>2. Size(pc, Holding) = 0
  BY NobodyIn DEF GuardInit, Holding
<1>3. SlotsExact
  BY <1>2, GuardConstants DEF GuardInit, SlotsExact, In, Size, Members
<1>4. NoLostWakeup
  BY DEF GuardInit, NoLostWakeup, Waiting
<1>5. ProbeAtThreshold
  BY DEF GuardInit, ProbeAtThreshold
<1>. QED
  BY <1>1, <1>3, <1>4, <1>5

(* acquire and release: the counter is exactly the number of calls in      *)
(* flight and never exceeds the maximum, however many threads call.        *)
THEOREM SlotsAreExact == GuardSpec => [](GuardTypeOK /\ SlotsExact)
<1>1. GuardInit => GuardTypeOK /\ SlotsExact
  BY GuardStart
<1>2. GuardTypeOK /\ SlotsExact /\ [GuardNext]_guardVars => (GuardTypeOK /\ SlotsExact)'
  BY TypeStep, SlotsStep
<1>. QED
  BY <1>1, <1>2, PTL DEF GuardSpec

(* release signals after it gave up the lock, and a new caller may take    *)
(* the slot first: even so no free slot is left unannounced to a waiter.   *)
THEOREM NoWakeupIsLost == GuardSpec => []NoLostWakeup
<1>1. GuardInit => NoLostWakeup
  BY GuardStart
<1>2. GuardTypeOK /\ NoLostWakeup /\ [GuardNext]_guardVars => NoLostWakeup'
  BY WakeStep
<1>. QED
  BY <1>1, <1>2, SlotsAreExact, PTL DEF GuardSpec

(* admit and on_failure: an open or half-open breaker is at its threshold, *)
(* so that one failed probe opens it again.                                *)
THEOREM ProbesAreAtThreshold == GuardSpec => []ProbeAtThreshold
<1>1. GuardInit => ProbeAtThreshold
  BY GuardStart
<1>2. GuardTypeOK /\ ProbeAtThreshold /\ [GuardNext]_guardVars => ProbeAtThreshold'
  BY ProbeStep
<1>. QED
  BY <1>1, <1>2, SlotsAreExact, PTL DEF GuardSpec
=============================================================================
