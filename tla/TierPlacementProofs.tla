------------------------ MODULE TierPlacementProofs ------------------------
(***************************************************************************)
(* Proofs about the placement of a layer: for any number of experts, hot   *)
(* slots and pool slots and any scores, every expert is computed exactly   *)
(* once, from its own weights, and the redundant tables agree.             *)
(*                                                                         *)
(* What the tables say is inductive together with what the slots hold      *)
(* (Contents): a promotion reads the expert's bytes where ptrs points, and *)
(* these are its own because the tables agreed before.                     *)
(***************************************************************************)
EXTENDS TierPlacement, TLAPS

Contents ==
  /\ slotExpert[sentinel] = None /\ hotBytes[sentinel] = Zero
  /\ lut = lutHost
  /\ \A e \in Experts : e \in mask <=> lutHost[e] = sentinel
  /\ \A s \in Slots : slotExpert[s] # None => hotBytes[s] = slotExpert[s]
  /\ \A k \in PoolSlots : poolExpert[k] # None => poolBytes[k] = poolExpert[k]

IInv == TypeOK /\ TablesAgree /\ Contents

-----------------------------------------------------------------------------
(* A cold operator finds an expert's own bytes, in the pool or the mapping. *)
LEMMA AddressHolds ==
  ASSUME IInv, NEW e \in Experts
  PROVE  At(e) = e
<1>1. ptrs[e] = IF poolLut[e] = None THEN Mmap ELSE poolLut[e]
  BY DEF IInv, TablesAgree
<1>2. CASE poolLut[e] = None
  BY <1>1, <1>2 DEF At
<1>3. CASE poolLut[e] # None
  <2>1. poolLut[e] \in PoolSlots /\ poolLut[e] # Mmap
    BY <1>3, TierAssumption DEF IInv, TypeOK
  <2>2. poolExpert[poolLut[e]] = e /\ e # None
    BY <2>1, TierAssumption DEF IInv, TablesAgree
  <2>3. poolBytes[poolLut[e]] = e
    BY <2>1, <2>2 DEF IInv, Contents
  <2>. QED BY <1>1, <1>3, <2>1, <2>3 DEF At
<1>. QED BY <1>2, <1>3

LEMMA ComputedOnceHolds == IInv => ComputedOnce
<1>. SUFFICES ASSUME IInv PROVE ComputedOnce
  OBVIOUS
<1>1. ASSUME NEW e \in Experts, e \in mask
      PROVE  lut[e] = sentinel /\ At(e) = e
  BY <1>1, AddressHolds DEF IInv, Contents
<1>2. ASSUME NEW e \in Experts, e \notin mask
      PROVE  lut[e] # sentinel /\ hotBytes[lut[e]] = e
  <2>1. lut[e] = lutHost[e] /\ lutHost[e] \in Slots \ {sentinel}
    BY <1>2 DEF IInv, Contents, TypeOK
  <2>2. slotExpert[lutHost[e]] = e /\ e # None
    BY <2>1, TierAssumption DEF IInv, TablesAgree
  <2>. QED BY <2>1, <2>2 DEF IInv, Contents
<1>. QED BY <1>1, <1>2 DEF ComputedOnce, IInv, Contents

LEMMA Ticks == ASSUME NEW n \in 0..MinDwell PROVE Tick(n) \in 0..MinDwell /\ 0 \in 0..MinDwell
BY TierAssumption DEF Tick

LEMMA Initially == Init => IInv
<1>. SUFFICES ASSUME Init PROVE IInv
  OBVIOUS
<1>1. sentinel \in Slots /\ LayerSlots \in Nat /\ None \notin Experts /\ None \notin PoolSlots /\ Mmap \notin PoolSlots
      /\ None \notin Slots
  BY TierAssumption DEF Init, Slots
<1>2. /\ slotExpert \in [Slots -> Experts \cup {None}]
      /\ \A s \in Slots : (slotExpert[s] = None) <=> (s >= sentinel)
      /\ IsInjective(Restrict(slotExpert, 0..(sentinel - 1)))
  BY DEF Init
<1>3. ASSUME NEW s \in Slots, NEW r \in Slots, slotExpert[s] = slotExpert[r], slotExpert[s] # None
      PROVE  s = r
  <2>1. s \in 0..(sentinel - 1) /\ r \in 0..(sentinel - 1)
    BY <1>1, <1>2, <1>3 DEF Slots
  <2>. QED BY <1>2, <1>3, <2>1 DEF IsInjective, Restrict
<1>4. ASSUME NEW e \in Experts
      PROVE  /\ lutHost[e] \in Slots
             /\ \A s \in Slots : (slotExpert[s] = e) <=> (lutHost[e] = s /\ s # sentinel)
  <2>1. lutHost[e] = IF \E s \in Slots : slotExpert[s] = e
                     THEN CHOOSE s \in Slots : slotExpert[s] = e ELSE sentinel
    BY DEF Init
  <2>2. slotExpert[sentinel] # e
    BY <1>1, <1>2 DEF Slots
  <2>3. CASE \E s \in Slots : slotExpert[s] = e
    BY <1>1, <1>3, <2>1, <2>2, <2>3
  <2>4. CASE ~\E s \in Slots : slotExpert[s] = e
    BY <1>1, <2>1, <2>4
  <2>. QED BY <2>3, <2>4
<1>5. /\ poolExpert \in [PoolSlots -> mask \cup {None}] /\ mask \subseteq Experts
      /\ \A j, k \in PoolSlots : j # k => poolExpert[j] # poolExpert[k] \/ poolExpert[j] = None
  BY DEF Init
<1>6. ASSUME NEW e \in Experts
      PROVE  /\ poolLut[e] \in PoolSlots \cup {None}
             /\ \A k \in PoolSlots : (poolExpert[k] = e) <=> (poolLut[e] = k)
             /\ poolLut[e] # None => e \in mask
  <2>1. poolLut[e] = IF \E k \in PoolSlots : poolExpert[k] = e
                     THEN CHOOSE k \in PoolSlots : poolExpert[k] = e ELSE None
    BY DEF Init
  <2>2. CASE \E k \in PoolSlots : poolExpert[k] = e
    BY <1>1, <1>5, <2>1, <2>2
  <2>3. CASE ~\E k \in PoolSlots : poolExpert[k] = e
    BY <1>1, <2>1, <2>3
  <2>. QED BY <2>2, <2>3
<1>7. /\ lut = lutHost /\ lutHost \in [Experts -> Slots] /\ mask = {e \in Experts : lutHost[e] = sentinel}
      /\ dwell \in [Slots -> 0..MinDwell]
  <2>1. 0 \in 0..MinDwell
    BY TierAssumption
  <2>2. lutHost = [e \in Experts |-> lutHost[e]]
    BY DEF Init
  <2>. QED BY <1>4, <2>1, <2>2 DEF Init
<1>8. /\ hotBytes = [s \in Slots |-> IF s = sentinel THEN Zero ELSE slotExpert[s]]
      /\ poolBytes = poolExpert
      /\ ptrs = [e \in Experts |-> IF poolLut[e] = None THEN Mmap ELSE poolLut[e]]
      /\ poolState = [k \in PoolSlots |-> IF poolExpert[k] = None THEN 0 ELSE 3]
      /\ poolDwell = [k \in PoolSlots |-> 0] /\ score = [e \in Experts |-> 0] /\ pc = "graph"
      /\ poolLut = [e \in Experts |-> poolLut[e]]
  BY DEF Init
<1>9. TypeOK
  <2>1. 0 \in 0..MinDwell /\ 0 \in Scores
    BY TierAssumption DEF Scores
  <2>2. /\ hotBytes \in [Slots -> Experts \cup {Zero, None}]
        /\ poolExpert \in [PoolSlots -> Experts \cup {None}] /\ poolBytes \in [PoolSlots -> Experts \cup {None}]
        /\ poolState \in [PoolSlots -> {0, 3}]
    BY <1>2, <1>5, <1>8
  <2>3. poolLut \in [Experts -> PoolSlots \cup {None}] /\ ptrs \in [Experts -> PoolSlots \cup {Mmap}]
    BY <1>6, <1>8
  <2>. QED BY <1>1, <1>2, <1>5, <1>7, <1>8, <2>1, <2>2, <2>3 DEF TypeOK
<1>10. TablesAgree
  BY <1>4, <1>6, <1>8 DEF TablesAgree
<1>11. Contents
  <2>1. slotExpert[sentinel] = None
    BY <1>1, <1>2 DEF Slots
  <2>. QED BY <1>1, <1>7, <1>8, <2>1 DEF Contents
<1>. QED BY <1>9, <1>10, <1>11 DEF IInv

-----------------------------------------------------------------------------
(* Steps that move nothing: scores and dwell times only. *)
LEMMA QuietSteps ==
  ASSUME IInv, Observe \/ NoRepin \/ NoPoolFill
  PROVE  IInv'
<1>1. \A n \in 0..MinDwell : Tick(n) \in 0..MinDwell
  BY Ticks
<1>2. /\ UNCHANGED <<sentinel, slotExpert, lutHost, lut, mask, hotBytes>>
      /\ UNCHANGED <<poolExpert, poolState, poolLut, poolBytes, ptrs>>
  BY DEF Observe, NoRepin, NoPoolFill, hotVars, poolVars
<1>3. dwell' \in [Slots -> 0..MinDwell] /\ poolDwell' \in [PoolSlots -> 0..MinDwell]
  BY <1>1 DEF IInv, TypeOK, Observe, NoRepin, NoPoolFill, hotVars, poolVars
<1>4. score' \in [Experts -> Scores] /\ pc' \in {"graph", "hot", "pool"}
  BY DEF IInv, TypeOK, Observe, NoRepin, NoPoolFill
<1>5. TypeOK'
  BY <1>2, <1>3, <1>4 DEF IInv, TypeOK
<1>6. TablesAgree'
  BY <1>2 DEF IInv, TablesAgree
<1>7. Contents'
  BY <1>2 DEF IInv, Contents
<1>. QED BY <1>5, <1>6, <1>7 DEF IInv

(* The promoted expert e leaves the demand pool: what its tables are then. *)
PoolWithout(e) ==
  /\ poolExpert' \in [PoolSlots -> Experts \cup {None}]
  /\ poolState' \in [PoolSlots -> {0, 3}]
  /\ poolLut' \in [Experts -> PoolSlots \cup {None}]
  /\ poolDwell' \in [PoolSlots -> 0..MinDwell]
  /\ ptrs' \in [Experts -> PoolSlots \cup {Mmap}]
  /\ poolBytes' = poolBytes
  /\ \A f \in Experts : poolLut'[f] = IF f = e THEN None ELSE poolLut[f]
  /\ \A f \in Experts : ptrs'[f] = IF poolLut'[f] = None THEN Mmap ELSE poolLut'[f]
  /\ \A k \in PoolSlots : poolExpert'[k] = IF poolLut[e] = k THEN None ELSE poolExpert[k]
  /\ \A k \in PoolSlots : (poolState'[k] = 0) <=> (poolExpert'[k] = None)

LEMMA GivenUp ==
  ASSUME IInv, NEW e \in Experts, GiveUpPoolSlot(e)
  PROVE  PoolWithout(e)
<1>1. /\ poolExpert \in [PoolSlots -> Experts \cup {None}] /\ poolState \in [PoolSlots -> {0, 3}]
      /\ poolLut \in [Experts -> PoolSlots \cup {None}] /\ poolDwell \in [PoolSlots -> 0..MinDwell]
      /\ ptrs \in [Experts -> PoolSlots \cup {Mmap}] /\ 0 \in 0..MinDwell
  BY TierAssumption DEF IInv, TypeOK
<1>2. /\ \A k \in PoolSlots : (poolState[k] = 0) <=> (poolExpert[k] = None)
      /\ \A f \in Experts : ptrs[f] = IF poolLut[f] = None THEN Mmap ELSE poolLut[f]
      /\ None \notin PoolSlots
  BY TierAssumption DEF IInv, TablesAgree
<1>3. CASE poolLut[e] = None
  <2>1. UNCHANGED <<poolExpert, poolState, poolLut, poolDwell, poolBytes, ptrs>>
    BY <1>3 DEF GiveUpPoolSlot, poolVars
  <2>2. \A k \in PoolSlots : poolLut[e] # k
    BY <1>2, <1>3
  <2>. QED BY <1>1, <1>2, <1>3, <2>1, <2>2 DEF PoolWithout
<1>4. CASE poolLut[e] # None
  <2>. DEFINE k == poolLut[e]
  <2>1. k \in PoolSlots
    BY <1>1, <1>4
  <2>2. /\ poolExpert' = [poolExpert EXCEPT ![k] = None]
        /\ poolState' = [poolState EXCEPT ![k] = 0]
        /\ poolLut' = [poolLut EXCEPT ![e] = None]
        /\ poolDwell' = [poolDwell EXCEPT ![k] = 0]
        /\ ptrs' = [ptrs EXCEPT ![e] = Mmap]
        /\ poolBytes' = poolBytes
    BY <1>4 DEF GiveUpPoolSlot
  <2>3. /\ poolLut' \in [Experts -> PoolSlots \cup {None}]
        /\ ptrs' \in [Experts -> PoolSlots \cup {Mmap}]
        /\ \A f \in Experts : poolLut'[f] = IF f = e THEN None ELSE poolLut[f]
        /\ \A f \in Experts : ptrs'[f] = IF f = e THEN Mmap ELSE ptrs[f]
    BY <1>1, <2>2
  <2>. HIDE DEF k
  <2>4. /\ poolExpert' \in [PoolSlots -> Experts \cup {None}]
        /\ poolState' \in [PoolSlots -> {0, 3}]
        /\ poolDwell' \in [PoolSlots -> 0..MinDwell]
        /\ \A j \in PoolSlots : /\ poolExpert'[j] = IF k = j THEN None ELSE poolExpert[j]
                                /\ poolState'[j] = IF k = j THEN 0 ELSE poolState[j]
    BY <1>1, <2>1, <2>2
  <2>5. \A f \in Experts : ptrs'[f] = IF poolLut'[f] = None THEN Mmap ELSE poolLut'[f]
    BY <1>2, <2>3
  <2>6. \A j \in PoolSlots : (poolState'[j] = 0) <=> (poolExpert'[j] = None)
    BY <1>2, <2>4
  <2>. QED BY <2>2, <2>3, <2>4, <2>5, <2>6 DEF k, PoolWithout
<1>. QED BY <1>3, <1>4

LEMMA RepinStep ==
  ASSUME IInv, NEW s \in Slots, NEW e \in Experts, Repin(s, e)
  PROVE  IInv'
<1>. DEFINE old == slotExpert[s]
<1>1. s # sentinel /\ e \in mask /\ score[e] > 0 /\ At(e) = e
  BY AddressHolds DEF Repin, Repinnable, ColdestSlots, ColdestOf, HottestOf
<1>2. /\ sentinel \in Slots /\ old \in Experts \cup {None} /\ mask \subseteq Experts
      /\ slotExpert \in [Slots -> Experts \cup {None}]
      /\ hotBytes \in [Slots -> Experts \cup {Zero, None}]
      /\ lutHost \in [Experts -> Slots] /\ dwell \in [Slots -> 0..MinDwell]
      /\ None \notin Experts /\ None \notin Slots
  BY TierAssumption DEF IInv, TypeOK, Slots
<1>3. /\ lutHost' = [f \in Experts |-> IF f = e THEN s ELSE IF f = old THEN sentinel ELSE lutHost[f]]
      /\ hotBytes' = [hotBytes EXCEPT ![s] = e]
      /\ lut' = lutHost'
      /\ mask' = (mask \ {e}) \cup ({old} \ {None})
      /\ GiveUpPoolSlot(e)
      /\ slotExpert' = [slotExpert EXCEPT ![s] = e]
      /\ dwell' = [r \in Slots |-> IF r = s THEN 0 ELSE Tick(dwell[r])]
      /\ pc' = "pool" /\ UNCHANGED <<sentinel, score>>
  BY <1>1 DEF Repin, SwapMask
<1>4. /\ \A t \in Slots, f \in Experts : (slotExpert[t] = f) <=> (lutHost[f] = t /\ t # sentinel)
      /\ lutHost[e] = sentinel /\ old # e
      /\ \A f \in Experts : f \in mask <=> lutHost[f] = sentinel
      /\ slotExpert[sentinel] = None /\ hotBytes[sentinel] = Zero
      /\ \A t \in Slots : slotExpert[t] # None => hotBytes[t] = slotExpert[t]
  BY <1>1, <1>2 DEF IInv, TablesAgree, Contents
<1>5. \A n \in 0..MinDwell : Tick(n) \in 0..MinDwell /\ 0 \in 0..MinDwell
  BY Ticks
<1>. HIDE DEF old
<1>12. PoolWithout(e)
  BY <1>1, <1>2, <1>3, GivenUp
<1>6. TypeOK'
  <2>1. dwell' \in [Slots -> 0..MinDwell]
    BY <1>2, <1>3, <1>5, TierAssumption
  <2>2. lutHost' \in [Experts -> Slots] /\ mask' \in SUBSET Experts
    BY <1>2, <1>3
  <2>. QED BY <1>2, <1>3, <1>12, <2>1, <2>2 DEF IInv, TypeOK, PoolWithout
<1>7. \A t \in Slots, f \in Experts : (slotExpert'[t] = f) <=> (lutHost'[f] = t /\ t # sentinel')
  <2>1. \A t \in Slots : slotExpert'[t] = IF t = s THEN e ELSE slotExpert[t]
    BY <1>2, <1>3
  <2>2. \A f \in Experts : lutHost'[f] = IF f = e THEN s ELSE IF f = old THEN sentinel ELSE lutHost[f]
    BY <1>3
  <2>3. sentinel' = sentinel
    BY <1>3
  <2>. QED BY <1>1, <1>2, <1>4, <2>1, <2>2, <2>3 DEF old
<1>8. \A f \in Experts : poolLut'[f] # None => f \in mask'
  <2>1. \A f \in Experts : poolLut'[f] # None => f # e /\ poolLut[f] # None
    BY <1>12 DEF PoolWithout
  <2>. QED BY <1>3, <2>1 DEF IInv, TablesAgree
<1>9. \A k \in PoolSlots, f \in Experts : (poolExpert'[k] = f) <=> (poolLut'[f] = k)
  <2>1. \A k \in PoolSlots, f \in Experts : (poolExpert[k] = f) <=> (poolLut[f] = k)
    BY DEF IInv, TablesAgree
  <2>2. /\ \A f \in Experts : poolLut'[f] = IF f = e THEN None ELSE poolLut[f]
        /\ \A k \in PoolSlots : poolExpert'[k] = IF poolLut[e] = k THEN None ELSE poolExpert[k]
    BY <1>12 DEF PoolWithout
  <2>3. \A k \in PoolSlots, f \in Experts : f # None /\ k # None
    BY TierAssumption
  <2>. QED BY <2>1, <2>2, <2>3
<1>10. TablesAgree'
  <2>1. /\ \A k \in PoolSlots : (poolState'[k] = 0) <=> (poolExpert'[k] = None)
        /\ \A f \in Experts : ptrs'[f] = IF poolLut'[f] = None THEN Mmap ELSE poolLut'[f]
    BY <1>12 DEF PoolWithout
  <2>. QED BY <1>7, <1>8, <1>9, <2>1 DEF TablesAgree
<1>11. Contents'
  <2>1. \A f \in Experts : f \in mask' <=> lutHost'[f] = sentinel
    BY <1>1, <1>2, <1>3, <1>4
  <2>2. \A t \in Slots : slotExpert'[t] # None => hotBytes'[t] = slotExpert'[t]
    BY <1>2, <1>3, <1>4
  <2>3. \A k \in PoolSlots : poolExpert'[k] # None => poolBytes'[k] = poolExpert'[k]
    <3>1. /\ poolBytes' = poolBytes
          /\ \A k \in PoolSlots : poolExpert'[k] = IF poolLut[e] = k THEN None ELSE poolExpert[k]
      BY <1>12 DEF PoolWithout
    <3>. QED BY <3>1 DEF IInv, Contents
  <2>4. slotExpert'[sentinel] = None /\ hotBytes'[sentinel] = Zero
    BY <1>1, <1>2, <1>3, <1>4
  <2>. QED BY <1>3, <2>1, <2>2, <2>3, <2>4 DEF Contents
<1>. QED BY <1>6, <1>10, <1>11 DEF IInv

LEMMA PoolFillStep ==
  ASSUME IInv, NEW k \in PoolSlots, NEW e \in Experts, PoolFill(k, e)
  PROVE  IInv'
<1>. DEFINE old == poolExpert[k]
<1>1. e \in mask /\ poolLut[e] = None
  BY DEF PoolFill, Fillable, HottestOf, Unpooled
<1>2. /\ poolExpert \in [PoolSlots -> Experts \cup {None}] /\ poolState \in [PoolSlots -> {0, 3}]
      /\ poolLut \in [Experts -> PoolSlots \cup {None}] /\ poolDwell \in [PoolSlots -> 0..MinDwell]
      /\ ptrs \in [Experts -> PoolSlots \cup {Mmap}]
      /\ poolBytes \in [PoolSlots -> Experts \cup {None}]
      /\ None \notin Experts /\ None \notin PoolSlots /\ Mmap \notin PoolSlots
  BY TierAssumption DEF IInv, TypeOK
<1>3. /\ poolLut' = [Evicted(old) EXCEPT ![e] = k]
      /\ ptrs' = [EvictedPtrs(old) EXCEPT ![e] = k]
      /\ poolExpert' = [poolExpert EXCEPT ![k] = e]
      /\ poolState' = [poolState EXCEPT ![k] = 3]
      /\ poolBytes' = [poolBytes EXCEPT ![k] = e]
      /\ poolDwell' = [j \in PoolSlots |-> IF j = k THEN 0 ELSE Tick(poolDwell[j])]
      /\ pc' = "graph" /\ UNCHANGED <<sentinel, hotVars, score>>
  BY DEF PoolFill
<1>4. \A f \in Experts : /\ poolLut'[f] = IF f = e THEN k ELSE IF f = old THEN None ELSE poolLut[f]
                         /\ ptrs'[f] = IF f = e THEN k ELSE IF f = old THEN Mmap ELSE ptrs[f]
  BY <1>3 DEF Evicted, EvictedPtrs
<1>5. \A j \in PoolSlots : /\ poolExpert'[j] = IF j = k THEN e ELSE poolExpert[j]
                           /\ poolState'[j] = IF j = k THEN 3 ELSE poolState[j]
                           /\ poolBytes'[j] = IF j = k THEN e ELSE poolBytes[j]
  BY <1>2, <1>3
<1>6. /\ \A j \in PoolSlots, f \in Experts : (poolExpert[j] = f) <=> (poolLut[f] = j)
      /\ \A j \in PoolSlots : (poolState[j] = 0) <=> (poolExpert[j] = None)
      /\ \A f \in Experts : ptrs[f] = IF poolLut[f] = None THEN Mmap ELSE poolLut[f]
      /\ \A f \in Experts : poolLut[f] # None => f \in mask
  BY DEF IInv, TablesAgree
<1>7. \A n \in 0..MinDwell : Tick(n) \in 0..MinDwell /\ 0 \in 0..MinDwell
  BY Ticks
<1>8. TypeOK'
  <2>1. poolDwell' \in [PoolSlots -> 0..MinDwell]
    BY <1>2, <1>3, <1>7, TierAssumption
  <2>2. poolLut' \in [Experts -> PoolSlots \cup {None}] /\ ptrs' \in [Experts -> PoolSlots \cup {Mmap}]
    BY <1>2, <1>3 DEF Evicted, EvictedPtrs
  <2>3. /\ poolExpert' \in [PoolSlots -> Experts \cup {None}] /\ poolState' \in [PoolSlots -> {0, 3}]
        /\ poolBytes' \in [PoolSlots -> Experts \cup {None}]
    BY <1>2, <1>3
  <2>. QED BY <1>3, <2>1, <2>2, <2>3 DEF IInv, TypeOK, hotVars
<1>. HIDE DEF old
<1>9. TablesAgree'
  <2>1. \A j \in PoolSlots, f \in Experts : (poolExpert'[j] = f) <=> (poolLut'[f] = j)
    BY <1>1, <1>2, <1>4, <1>5, <1>6 DEF old
  <2>2. \A j \in PoolSlots : (poolState'[j] = 0) <=> (poolExpert'[j] = None)
    BY <1>2, <1>5, <1>6
  <2>3. \A f \in Experts : ptrs'[f] = IF poolLut'[f] = None THEN Mmap ELSE poolLut'[f]
    BY <1>2, <1>4, <1>6
  <2>4. \A f \in Experts : poolLut'[f] # None => f \in mask'
    BY <1>1, <1>3, <1>4, <1>6 DEF hotVars
  <2>. QED BY <1>3, <2>1, <2>2, <2>3, <2>4 DEF IInv, TablesAgree, hotVars
<1>10. Contents'
  <2>1. \A j \in PoolSlots : poolExpert'[j] # None => poolBytes'[j] = poolExpert'[j]
    BY <1>5 DEF IInv, Contents
  <2>. QED BY <1>3, <2>1 DEF IInv, Contents, hotVars
<1>. QED BY <1>8, <1>9, <1>10 DEF IInv

LEMMA Induction == IInv /\ [Next]_vars => IInv'
<1>. SUFFICES ASSUME IInv, [Next]_vars PROVE IInv'
  OBVIOUS
<1>1. CASE UNCHANGED vars
  BY <1>1 DEF vars, hotVars, poolVars, IInv, TypeOK, TablesAgree, Contents
<1>2. CASE Next
  BY <1>2, QuietSteps, RepinStep, PoolFillStep DEF Next
<1>. QED BY <1>1, <1>2

-----------------------------------------------------------------------------
(* The tables and what the slots hold agree after every half of a window.   *)
THEOREM Invariance == Spec => []IInv
BY Initially, Induction, PTL DEF Spec

(* Every table entry names a slot or an expert that exists. *)
THEOREM TypeCorrect == Spec => []TypeOK
<1>1. IInv => TypeOK
  BY DEF IInv
<1>. QED BY <1>1, Invariance, PTL

(* However often experts are promoted, demoted, pooled and evicted, lut,    *)
(* lut_host, mask, slot_expert, pool_lut, pool_slot_expert and ptrs agree.  *)
THEOREM TablesAlwaysAgree == Spec => []TablesAgree
<1>1. IInv => TablesAgree
  BY DEF IInv
<1>. QED BY <1>1, Invariance, PTL

(* Hot and cold operators together compute every expert once, with its own  *)
(* weights.                                                                *)
THEOREM EachIsComputedOnce == Spec => []ComputedOnce
BY ComputedOnceHolds, Invariance, PTL
=============================================================================
