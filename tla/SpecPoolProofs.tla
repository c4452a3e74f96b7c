--------------------------- MODULE SpecPoolProofs ---------------------------
(***************************************************************************)
(* Proofs about SpecPool, for every number of experts, workers, compute    *)
(* threads, tensors and slots and every budget.                            *)
(*                                                                         *)
(* The argument: IInv is inductive. A worker that owns a FILLING slot      *)
(* knows where it is (WorkerInv); a table entry leads to such a slot or to *)
(* a published one (TableInv); the window's releases and copies name       *)
(* published slots (ReleaseInv, SourceInv); a probe that passed its state  *)
(* check stays on a published slot because no window runs (ReaderInv).     *)
(* One lemma per action shows that it keeps IInv, with one step per part   *)
(* of IInv that reads a variable the action changes.                       *)
(***************************************************************************)
EXTENDS SpecPool, TLAPS, FiniteSetTheorems

USE NSlotsAssumption, CapacityAssumption, NoneAssumption
USE DEF Slots, FREE, FILLING, READY, RESIDENT, SlotStates, Published,
        WorkerPoints, ReaderPoints, WindowPoints, slotVars, tierVars,
        WorkerLocals, ReaderLocals, WindowLocals, IInv

(* The invariant holds at the start: every slot is free. *)
LEMMA InitInv == Init => IInv
<1> SUFFICES ASSUME Init PROVE IInv
  OBVIOUS
<1>1. TypeOK
  BY DEF Init, TypeOK
<1>2. FillingHeldOnce /\ PublishedComplete
  BY DEF Init, FillingHeldOnce, PublishedComplete, Holds
<1>3. WorkerInv /\ TableInv
  BY DEF Init, WorkerInv, TableInv
<1>4. ReleaseInv /\ ReaderInv /\ SourceInv /\ ExclusiveInv
  BY DEF Init, ReleaseInv, ReaderInv, SourceInv, ExclusiveInv
<1> QED
  BY <1>1, <1>2, <1>3, <1>4

-----------------------------------------------------------------------------
(* Frames: the parts of the invariant that do not see a kind of step.      *)

(* The parts about slots, table and workers do not read the rest. *)
LEMMA SlotsKept ==
  ASSUME IInv, UNCHANGED <<slotVars, wkr>>
  PROVE  FillingHeldOnce' /\ WorkerInv' /\ TableInv'
BY DEF FillingHeldOnce, Holds, WorkerInv, TableInv

(* The parts about the window do not read workers, probes or the counter. *)
LEMMA WindowKept ==
  ASSUME IInv, UNCHANGED <<slotVars, tierVars, win>>
  PROVE  PublishedComplete' /\ ReleaseInv' /\ SourceInv' /\ ExclusiveInv'
BY DEF PublishedComplete, Releasing, HoldsOnly, ReleaseInv, SourceInv,
       ExclusiveInv

(* The part about probes reads the slots, the probes and the window. *)
LEMMA ReadersKept ==
  ASSUME IInv, UNCHANGED <<slotVars, win, rd>>
  PROVE  ReaderInv'
BY DEF ReaderInv

-----------------------------------------------------------------------------
(* The workers.                                                            *)

(* A worker that takes a request holds no slot yet. *)
LEMMA WStartKeeps ==
  ASSUME NEW w \in Workers, NEW e \in Experts, IInv, WStart(w, e) PROVE IInv'
<1>1. TypeOK'
  BY DEF TypeOK, WStart, WorkerMoves
<1>2. FillingHeldOnce'
  BY DEF FillingHeldOnce, Holds, WStart, WorkerMoves
<1>3. WorkerInv'
  BY DEF WorkerInv, WStart, WorkerMoves
<1>4. TableInv'
  BY DEF TableInv, WStart, WorkerMoves
<1>5. PublishedComplete' /\ ReleaseInv' /\ SourceInv' /\ ExclusiveInv'
  BY WindowKept DEF WStart, WorkerMoves
<1>6. ReaderInv'
  BY ReadersKept DEF WStart, WorkerMoves
<1> QED
  BY <1>1, <1>2, <1>3, <1>4, <1>5, <1>6

(* A refused request leaves nothing behind. *)
LEMMA WDropKeeps ==
  ASSUME NEW w \in Workers, IInv, WDrop(w) PROVE IInv'
<1>1. TypeOK'
  BY DEF TypeOK, WDrop, Refused, WorkerForgets, WorkerMoves
<1>2. FillingHeldOnce'
  BY DEF FillingHeldOnce, Holds, WDrop, Refused, WorkerForgets, WorkerMoves
<1>3. WorkerInv'
  BY DEF WorkerInv, WDrop, Refused, WorkerForgets, WorkerMoves
<1>4. TableInv'
  BY DEF TableInv, WDrop, Refused, WorkerForgets, WorkerMoves
<1>5. PublishedComplete' /\ ReleaseInv' /\ SourceInv' /\ ExclusiveInv'
  BY WindowKept DEF WDrop, Refused, WorkerForgets, WorkerMoves
<1>6. ReaderInv'
  BY ReadersKept DEF WDrop, Refused, WorkerForgets, WorkerMoves
<1> QED
  BY <1>1, <1>2, <1>3, <1>4, <1>5, <1>6

(* A passed check changes only the worker's program point. *)
LEMMA WPassKeeps ==
  ASSUME NEW w \in Workers, NEW p \in {"hot", "pool", "lut", "budget"},
         NEW q \in {"pool", "lut", "budget", "claim"}, IInv, WPass(w, p, q)
  PROVE  IInv'
<1>1. TypeOK'
  BY DEF TypeOK, WPass, WorkerGoes, WorkerMoves
<1>2. FillingHeldOnce'
  BY DEF FillingHeldOnce, Holds, WPass, WorkerGoes, WorkerMoves
<1>3. WorkerInv'
  BY DEF WorkerInv, WPass, WorkerGoes, WorkerMoves
<1>4. TableInv'
  BY DEF TableInv, WPass, WorkerGoes, WorkerMoves
<1>5. PublishedComplete' /\ ReleaseInv' /\ SourceInv' /\ ExclusiveInv'
  BY WindowKept DEF WPass, WorkerGoes, WorkerMoves
<1>6. ReaderInv'
  BY ReadersKept DEF WPass, WorkerGoes, WorkerMoves
<1> QED
  BY <1>1, <1>2, <1>3, <1>4, <1>5, <1>6

(* The compare-exchange gives the slot to exactly one worker. *)
LEMMA WClaimKeeps ==
  ASSUME NEW w \in Workers, IInv, WClaim(w) PROVE IInv'
<1>1. TypeOK'
  BY DEF TypeOK, WClaim, WorkerGoes, WorkerMoves
<1>2. FillingHeldOnce'
  <2>1. PICK k \in Slots : k = wkr[w].k
    BY DEF WClaim
  <2>2. \A v \in Workers, j \in Slots : Holds(v, j)' <=> Holds(v, j) \/ (v = w /\ j = k)
    BY <2>1 DEF TypeOK, Holds, WClaim, WorkerGoes, WorkerMoves
  <2>3. \A j \in Slots : stateB'[j] = FILLING <=> stateB[j] = FILLING \/ j = k
    BY <2>1 DEF TypeOK, WClaim
  <2>4. \A v \in Workers : ~Holds(v, k)
    BY <2>1 DEF FillingHeldOnce, WClaim
  <2> QED
    BY <2>2, <2>3, <2>4 DEF FillingHeldOnce
<1>3. PublishedComplete'
  BY DEF PublishedComplete, Releasing, HoldsOnly, WClaim, WorkerGoes,
         WorkerMoves
<1>4. WorkerInv'
  BY DEF WorkerInv, TypeOK, WClaim, WorkerGoes, WorkerMoves
<1>5. TableInv'
  BY DEF TableInv, WClaim, WorkerGoes, WorkerMoves
<1>6. ReleaseInv'
  BY DEF ReleaseInv, WClaim, WorkerGoes, WorkerMoves
<1>7. ReaderInv'
  BY DEF ReaderInv, WClaim, WorkerGoes, WorkerMoves
<1>8. SourceInv'
  BY DEF SourceInv, WClaim, WorkerGoes, WorkerMoves
<1>9. ExclusiveInv'
  BY DEF ExclusiveInv, Releasing, WClaim, WorkerGoes, WorkerMoves
<1> QED
  BY <1>1, <1>2, <1>3, <1>4, <1>5, <1>6, <1>7, <1>8, <1>9

(* A slot that is not free is passed over. *)
LEMMA WClaimNextKeeps ==
  ASSUME NEW w \in Workers, IInv, WClaimNext(w) PROVE IInv'
<1>1. TypeOK'
  BY DEF TypeOK, WClaimNext, WorkerMoves
<1>2. FillingHeldOnce'
  BY DEF FillingHeldOnce, Holds, WClaimNext, WorkerMoves
<1>3. WorkerInv'
  BY DEF WorkerInv, WClaimNext, WorkerMoves
<1>4. TableInv'
  BY DEF TableInv, WClaimNext, WorkerMoves
<1>5. PublishedComplete' /\ ReleaseInv' /\ SourceInv' /\ ExclusiveInv'
  BY WindowKept DEF WClaimNext, WorkerMoves
<1>6. ReaderInv'
  BY ReadersKept DEF WClaimNext, WorkerMoves
<1> QED
  BY <1>1, <1>2, <1>3, <1>4, <1>5, <1>6

(* A worker that found no free slot holds none. *)
LEMMA WClaimFullKeeps ==
  ASSUME NEW w \in Workers, IInv, WClaimFull(w) PROVE IInv'
<1>1. TypeOK'
  BY DEF TypeOK, WClaimFull, WorkerForgets, WorkerMoves
<1>2. FillingHeldOnce'
  BY DEF FillingHeldOnce, Holds, WClaimFull, WorkerForgets, WorkerMoves
<1>3. WorkerInv'
  BY DEF WorkerInv, WClaimFull, WorkerForgets, WorkerMoves
<1>4. TableInv'
  BY DEF TableInv, WClaimFull, WorkerForgets, WorkerMoves
<1>5. PublishedComplete' /\ ReleaseInv' /\ SourceInv' /\ ExclusiveInv'
  BY WindowKept DEF WClaimFull, WorkerForgets, WorkerMoves
<1>6. ReaderInv'
  BY ReadersKept DEF WClaimFull, WorkerForgets, WorkerMoves
<1> QED
  BY <1>1, <1>2, <1>3, <1>4, <1>5, <1>6

(* The table entry leads to the slot the worker is filling. *)
LEMMA WEnterKeeps ==
  ASSUME NEW w \in Workers, IInv, WEnter(w) PROVE IInv'
<1>1. TypeOK'
  <2>1. wkr[w].e \in Experts /\ wkr[w].k \in Slots
    BY DEF WorkerInv, WEnter
  <2>2. lutB' \in [Experts -> Slots \cup {None}]
    BY <2>1 DEF TypeOK, WEnter
  <2>3. wkr' \in [Workers -> WorkerLocals]
    BY DEF TypeOK, WEnter, WorkerGoes, WorkerMoves
  <2> QED
    BY <2>2, <2>3 DEF TypeOK, WEnter, WorkerGoes, WorkerMoves
<1>2. FillingHeldOnce'
  BY DEF FillingHeldOnce, Holds, WEnter, WorkerGoes, WorkerMoves
<1>3. PublishedComplete'
  BY DEF PublishedComplete, Releasing, HoldsOnly, WEnter, WorkerGoes,
         WorkerMoves
<1>4. WorkerInv'
  BY DEF WorkerInv, TypeOK, WEnter, WorkerGoes, WorkerMoves
<1>5. TableInv'
  <2>1. wkr[w].pc = "enter" /\ UNCHANGED <<stateB, ownersB>>
    BY DEF WEnter
  <2>2. \A e \in Experts : lutB'[e] = IF e = wkr[w].e THEN wkr[w].k ELSE lutB[e]
    BY DEF TypeOK, WEnter
  <2>3. wkr'[w].pc = "own" /\ wkr'[w].k = wkr[w].k /\ wkr'[w].e = wkr[w].e
    BY DEF TypeOK, WEnter, WorkerGoes, WorkerMoves
  <2>4. \A v \in Workers : v # w => wkr'[v] = wkr[v]
    BY DEF TypeOK, WEnter, WorkerGoes, WorkerMoves
  <2> QED
    BY <2>1, <2>2, <2>3, <2>4 DEF TableInv
<1>6. ReleaseInv'
  BY DEF ReleaseInv, TypeOK, WorkerInv, WEnter, WorkerGoes, WorkerMoves
<1>7. ReaderInv'
  BY DEF ReaderInv, WEnter, WorkerGoes, WorkerMoves
<1>8. SourceInv'
  BY DEF SourceInv, WEnter, WorkerGoes, WorkerMoves
<1>9. ExclusiveInv'
  BY DEF ExclusiveInv, Releasing, WEnter, WorkerGoes, WorkerMoves
<1> QED
  BY <1>1, <1>2, <1>3, <1>4, <1>5, <1>6, <1>7, <1>8, <1>9

(* The loser of the table race still holds its slot. *)
LEMMA WEnterLostKeeps ==
  ASSUME NEW w \in Workers, IInv, WEnterLost(w) PROVE IInv'
<1>1. TypeOK'
  BY DEF TypeOK, WEnterLost, WorkerGoes, WorkerMoves
<1>2. FillingHeldOnce'
  BY DEF FillingHeldOnce, Holds, WEnterLost, WorkerGoes, WorkerMoves
<1>3. WorkerInv'
  BY DEF WorkerInv, WEnterLost, WorkerGoes, WorkerMoves
<1>4. TableInv'
  BY DEF TableInv, WEnterLost, WorkerGoes, WorkerMoves
<1>5. PublishedComplete' /\ ReleaseInv' /\ SourceInv' /\ ExclusiveInv'
  BY WindowKept DEF WEnterLost, WorkerGoes, WorkerMoves
<1>6. ReaderInv'
  BY ReadersKept DEF WEnterLost, WorkerGoes, WorkerMoves
<1> QED
  BY <1>1, <1>2, <1>3, <1>4, <1>5, <1>6

(* No table entry leads to the slot the loser gives back. *)
LEMMA WLostKeeps ==
  ASSUME NEW w \in Workers, IInv, WLost(w) PROVE IInv'
<1>1. TypeOK'
  BY DEF TypeOK, WorkerInv, WLost, WorkerForgets, WorkerMoves
<1>2. FillingHeldOnce'
  BY DEF FillingHeldOnce, Holds, TypeOK, WLost, WorkerForgets, WorkerMoves
<1>3. PublishedComplete'
  BY DEF PublishedComplete, Releasing, HoldsOnly, WLost, WorkerForgets,
         WorkerMoves
<1>4. WorkerInv'
  BY DEF WorkerInv, TypeOK, FillingHeldOnce, Holds, WLost, WorkerForgets,
         WorkerMoves
<1>5. TableInv'
  BY DEF TableInv, TypeOK, WorkerInv, WLost, WorkerForgets, WorkerMoves
<1>6. ReleaseInv'
  BY DEF ReleaseInv, TypeOK, WorkerInv, WLost, WorkerForgets, WorkerMoves
<1>7. ReaderInv'
  BY DEF ReaderInv, TypeOK, WorkerInv, WLost, WorkerForgets, WorkerMoves
<1>8. SourceInv'
  <2>1. wkr[w].k \in Slots /\ stateB[wkr[w].k] = FILLING
    BY DEF WorkerInv, WLost
  <2>2. \A k \in Slots : stateB[k] = RESIDENT => stateB'[k] = RESIDENT
    BY <2>1 DEF TypeOK, WLost
  <2>3. UNCHANGED <<ownersB, lutB, win>> /\ win.src \in Slots \cup {None}
    BY DEF TypeOK, WLost, WorkerForgets, WorkerMoves
  <2> QED
    BY <2>2, <2>3 DEF SourceInv
<1>9. ExclusiveInv'
  BY DEF ExclusiveInv, Releasing, WLost, WorkerForgets, WorkerMoves
<1> QED
  BY <1>1, <1>2, <1>3, <1>4, <1>5, <1>6, <1>7, <1>8, <1>9

(* The owner of a slot is set while it is FILLING. *)
LEMMA WOwnKeeps ==
  ASSUME NEW w \in Workers, IInv, WOwn(w) PROVE IInv'
<1>1. TypeOK'
  BY DEF TypeOK, WorkerInv, WOwn, WorkerMoves
<1>2. FillingHeldOnce'
  BY DEF FillingHeldOnce, Holds, WOwn, WorkerMoves
<1>3. PublishedComplete'
  <2>1. stateB[wkr[w].k] = FILLING
    BY DEF WorkerInv, WOwn
  <2>2. UNCHANGED <<stateB, lutB, bytes, win>>
    BY DEF WOwn, WorkerMoves
  <2>3. ASSUME NEW k \in Slots, stateB[k] \in Published PROVE ownersB'[k] = ownersB[k]
    BY <2>1, <2>3 DEF TypeOK, WOwn
  <2> QED
    BY <2>2, <2>3 DEF PublishedComplete, Releasing, HoldsOnly
<1>4. WorkerInv'
  BY DEF WorkerInv, TypeOK, FillingHeldOnce, Holds, WOwn, WorkerMoves
<1>5. TableInv'
  <2>1. stateB[wkr[w].k] = FILLING
    BY DEF WorkerInv, WOwn
  <2>2. UNCHANGED <<stateB, lutB>>
    BY DEF WOwn
  <2>3. ASSUME NEW k \in Slots, stateB[k] \in Published PROVE ownersB'[k] = ownersB[k]
    BY <2>1, <2>3 DEF TypeOK, WOwn
  <2>4. \A v \in Workers : wkr[v].pc \in {"own", "copy"} =>
          wkr'[v].pc \in {"own", "copy"} /\ wkr'[v].k = wkr[v].k /\ wkr'[v].e = wkr[v].e
    BY DEF TypeOK, WOwn, WorkerMoves
  <2>5. \A e \in Experts : lutB[e] # None => lutB[e] \in Slots
    BY DEF TypeOK
  <2> QED
    BY <2>2, <2>3, <2>4, <2>5 DEF TableInv
<1>6. ReleaseInv'
  <2>1. stateB[wkr[w].k] = FILLING
    BY DEF WorkerInv, WOwn
  <2>2. UNCHANGED <<stateB, lutB, win>>
    BY DEF WOwn, WorkerMoves
  <2>3. \A k \in Slots : stateB[k] \in Published => ownersB'[k] = ownersB[k]
    BY <2>1 DEF TypeOK, WOwn
  <2> QED
    BY <2>2, <2>3 DEF ReleaseInv
<1>7. ReaderInv'
  BY DEF ReaderInv, TypeOK, WorkerInv, WOwn, WorkerMoves
<1>8. SourceInv'
  BY DEF SourceInv, TypeOK, WorkerInv, WOwn, WorkerMoves
<1>9. ExclusiveInv'
  BY DEF ExclusiveInv, Releasing, TypeOK, WorkerInv, WOwn, WorkerMoves
<1> QED
  BY <1>1, <1>2, <1>3, <1>4, <1>5, <1>6, <1>7, <1>8, <1>9

(* Bytes change only in a slot that nobody may read yet. *)
LEMMA WCopyKeeps ==
  ASSUME NEW w \in Workers, IInv, WCopy(w) PROVE IInv'
<1>1. TypeOK'
  BY DEF TypeOK, WorkerInv, WCopy, WorkerMoves
<1>2. FillingHeldOnce'
  BY DEF FillingHeldOnce, Holds, WCopy, WorkerMoves
<1>3. PublishedComplete'
  BY DEF PublishedComplete, Releasing, HoldsOnly, TypeOK, FillingHeldOnce,
         Holds, WCopy, WorkerMoves
<1>4. WorkerInv'
  BY DEF WorkerInv, TypeOK, WCopy, WorkerMoves
<1>5. TableInv'
  BY DEF TableInv, WCopy, WorkerMoves
<1>6. ReleaseInv'
  BY DEF ReleaseInv, WCopy, WorkerMoves
<1>7. ReaderInv'
  BY DEF ReaderInv, WCopy, WorkerMoves
<1>8. SourceInv'
  BY DEF SourceInv, WCopy, WorkerMoves
<1>9. ExclusiveInv'
  BY DEF ExclusiveInv, Releasing, WCopy, WorkerMoves
<1> QED
  BY <1>1, <1>2, <1>3, <1>4, <1>5, <1>6, <1>7, <1>8, <1>9

(* A slot becomes READY only after its last tensor was copied. *)
LEMMA WReadyKeeps ==
  ASSUME NEW w \in Workers, IInv, WReady(w) PROVE IInv'
<1>1. TypeOK'
  BY DEF TypeOK, WorkerInv, WReady, WorkerForgets, WorkerMoves
<1>2. FillingHeldOnce'
  BY DEF FillingHeldOnce, Holds, TypeOK, WReady, WorkerForgets, WorkerMoves
<1>3. PublishedComplete'
  <2>1. /\ wkr[w].k \in Slots /\ wkr[w].e \in Experts /\ stateB[wkr[w].k] = FILLING
        /\ lutB[wkr[w].e] = wkr[w].k /\ ownersB[wkr[w].k] = wkr[w].e
    BY DEF WorkerInv, WReady
  <2>2. HoldsOnly(wkr[w].k, wkr[w].e)
    BY DEF WorkerInv, WReady, HoldsOnly
  <2>3. ASSUME NEW k \in Slots, k # wkr[w].k PROVE stateB'[k] = stateB[k]
    BY <2>1, <2>3 DEF TypeOK, WReady
  <2>4. UNCHANGED <<ownersB, lutB, bytes, win>>
    BY DEF WReady, WorkerForgets, WorkerMoves
  <2> QED
    BY <2>1, <2>2, <2>3, <2>4 DEF PublishedComplete, Releasing, HoldsOnly
<1>4. WorkerInv'
  BY DEF WorkerInv, TypeOK, FillingHeldOnce, Holds, WReady, WorkerForgets,
         WorkerMoves
<1>5. TableInv'
  BY DEF TableInv, TypeOK, WorkerInv, WReady, WorkerForgets, WorkerMoves
<1>6. ReleaseInv'
  BY DEF ReleaseInv, WReady, WorkerForgets, WorkerMoves
<1>7. ReaderInv'
  BY DEF ReaderInv, WReady, WorkerForgets, WorkerMoves
<1>8. SourceInv'
  BY DEF SourceInv, TypeOK, WorkerInv, WReady, WorkerForgets, WorkerMoves
<1>9. ExclusiveInv'
  BY DEF ExclusiveInv, Releasing, WReady, WorkerForgets, WorkerMoves
<1> QED
  BY <1>1, <1>2, <1>3, <1>4, <1>5, <1>6, <1>7, <1>8, <1>9

(* The counter is nobody's evidence of a slot. *)
LEMMA WSettleKeeps ==
  ASSUME NEW w \in Workers, IInv, WSettle(w) PROVE IInv'
<1>1. TypeOK'
  BY DEF TypeOK, WSettle, WorkerForgets, WorkerMoves
<1>2. FillingHeldOnce'
  BY DEF FillingHeldOnce, Holds, WSettle, WorkerForgets, WorkerMoves
<1>3. WorkerInv'
  BY DEF WorkerInv, WSettle, WorkerForgets, WorkerMoves
<1>4. TableInv'
  BY DEF TableInv, WSettle, WorkerForgets, WorkerMoves
<1>5. PublishedComplete' /\ ReleaseInv' /\ SourceInv' /\ ExclusiveInv'
  BY WindowKept DEF WSettle, WorkerForgets, WorkerMoves
<1>6. ReaderInv'
  BY ReadersKept DEF WSettle, WorkerForgets, WorkerMoves
<1> QED
  BY <1>1, <1>2, <1>3, <1>4, <1>5, <1>6

(* Every step of a worker keeps the invariant. *)
LEMMA WorkerStepKeeps ==
  ASSUME NEW w \in Workers, IInv, WorkerStep(w) PROVE IInv'
BY WDropKeeps, WPassKeeps, WClaimKeeps, WClaimNextKeeps, WClaimFullKeeps,
   WEnterKeeps, WEnterLostKeeps, WLostKeeps, WOwnKeeps, WCopyKeeps,
   WReadyKeeps, WSettleKeeps
   DEF WorkerStep, WCheck

-----------------------------------------------------------------------------
(* The compute threads.                                                    *)

(* A probe starts while no window runs. *)
LEMMA RStartKeeps ==
  ASSUME NEW r \in Readers, NEW e \in Experts, IInv, RStart(r, e) PROVE IInv'
<1>1. TypeOK'
  BY DEF TypeOK, RStart, ReaderMoves
<1>2. ReaderInv'
  BY DEF ReaderInv, RStart, ReaderMoves
<1>3. FillingHeldOnce' /\ WorkerInv' /\ TableInv'
  BY SlotsKept DEF RStart, ReaderMoves
<1>4. PublishedComplete' /\ ReleaseInv' /\ SourceInv' /\ ExclusiveInv'
  BY WindowKept DEF RStart, ReaderMoves
<1> QED
  BY <1>1, <1>2, <1>3, <1>4

(* A probe finds a slot of the pool in the table. *)
LEMMA RLutKeeps ==
  ASSUME NEW r \in Readers, IInv, RLut(r) PROVE IInv'
<1>1. TypeOK'
  BY DEF TypeOK, ReaderInv, RLut, ReaderMoves
<1>2. ReaderInv'
  BY DEF ReaderInv, TypeOK, RLut, ReaderMoves
<1>3. FillingHeldOnce' /\ WorkerInv' /\ TableInv'
  BY SlotsKept DEF RLut, ReaderMoves
<1>4. PublishedComplete' /\ ReleaseInv' /\ SourceInv' /\ ExclusiveInv'
  BY WindowKept DEF RLut, ReaderMoves
<1> QED
  BY <1>1, <1>2, <1>3, <1>4

(* A probe goes on only at a published slot. *)
LEMMA RStateKeeps ==
  ASSUME NEW r \in Readers, IInv, RState(r) PROVE IInv'
<1>1. TypeOK'
  BY DEF TypeOK, RState, Servable, ReaderMoves
<1>2. ReaderInv'
  BY DEF ReaderInv, RState, Servable, ReaderMoves
<1>3. FillingHeldOnce' /\ WorkerInv' /\ TableInv'
  BY SlotsKept DEF RState, Servable, ReaderMoves
<1>4. PublishedComplete' /\ ReleaseInv' /\ SourceInv' /\ ExclusiveInv'
  BY WindowKept DEF RState, Servable, ReaderMoves
<1> QED
  BY <1>1, <1>2, <1>3, <1>4

(* A probe that matched the owner reads the asked expert. *)
LEMMA ROwnerKeeps ==
  ASSUME NEW r \in Readers, IInv, ROwner(r) PROVE IInv'
<1>1. TypeOK'
  BY DEF TypeOK, ROwner, ReaderMoves
<1>2. ReaderInv'
  BY DEF ReaderInv, ROwner, ReaderMoves
<1>3. FillingHeldOnce' /\ WorkerInv' /\ TableInv'
  BY SlotsKept DEF ROwner, ReaderMoves
<1>4. PublishedComplete' /\ ReleaseInv' /\ SourceInv' /\ ExclusiveInv'
  BY WindowKept DEF ROwner, ReaderMoves
<1> QED
  BY <1>1, <1>2, <1>3, <1>4

(* A probe that misses forgets the slot. *)
LEMMA RMissKeeps ==
  ASSUME NEW r \in Readers, IInv, RMiss(r) PROVE IInv'
<1>1. TypeOK'
  BY DEF TypeOK, RMiss, Servable, ReaderForgets, ReaderMoves
<1>2. ReaderInv'
  BY DEF ReaderInv, RMiss, Servable, ReaderForgets, ReaderMoves
<1>3. FillingHeldOnce' /\ WorkerInv' /\ TableInv'
  BY SlotsKept DEF RMiss, Servable, ReaderForgets, ReaderMoves
<1>4. PublishedComplete' /\ ReleaseInv' /\ SourceInv' /\ ExclusiveInv'
  BY WindowKept DEF RMiss, Servable, ReaderForgets, ReaderMoves
<1> QED
  BY <1>1, <1>2, <1>3, <1>4

(* A compute thread leaves the slot. *)
LEMMA RDoneKeeps ==
  ASSUME NEW r \in Readers, IInv, RDone(r) PROVE IInv'
<1>1. TypeOK'
  BY DEF TypeOK, RDone, ReaderForgets, ReaderMoves
<1>2. ReaderInv'
  BY DEF ReaderInv, RDone, ReaderForgets, ReaderMoves
<1>3. FillingHeldOnce' /\ WorkerInv' /\ TableInv'
  BY SlotsKept DEF RDone, ReaderForgets, ReaderMoves
<1>4. PublishedComplete' /\ ReleaseInv' /\ SourceInv' /\ ExclusiveInv'
  BY WindowKept DEF RDone, ReaderForgets, ReaderMoves
<1> QED
  BY <1>1, <1>2, <1>3, <1>4

-----------------------------------------------------------------------------
(* The window.                                                             *)

(* The window opens when every compute thread is done. *)
LEMMA WindowBeginKeeps ==
  ASSUME IInv, WindowBegin PROVE IInv'
<1>1. TypeOK'
  BY DEF TypeOK, WindowBegin, WindowForgets, WindowMoves
<1>2. PublishedComplete'
  BY DEF PublishedComplete, Releasing, HoldsOnly, WindowBegin, WindowForgets,
         WindowMoves
<1>3. ReleaseInv'
  BY DEF ReleaseInv, WindowBegin, WindowForgets, WindowMoves
<1>4. ReaderInv'
  BY DEF ReaderInv, WindowBegin, WindowForgets, WindowMoves
<1>5. SourceInv'
  BY DEF SourceInv, WindowBegin, WindowForgets, WindowMoves
<1>6. ExclusiveInv'
  BY DEF ExclusiveInv, Releasing, WindowBegin, WindowForgets, WindowMoves
<1>7. FillingHeldOnce' /\ WorkerInv' /\ TableInv'
  BY SlotsKept DEF WindowBegin, WindowForgets, WindowMoves
<1> QED
  BY <1>1, <1>2, <1>3, <1>4, <1>5, <1>6, <1>7

(* READY becomes RESIDENT only for an expert that is cold and unpooled. *)
LEMMA PublishKeeps ==
  ASSUME IInv, Publish PROVE IInv'
<1>1. TypeOK'
  <2>1. win.k \in Slots /\ win.k + 1 \in 0..NSlots /\ ownersB[win.k] \in Experts \cup {None}
    BY DEF TypeOK, Publish
  <2>2. stateB' = stateB \/ stateB' = [stateB EXCEPT ![win.k] = RESIDENT]
    BY DEF TypeOK, Publish
  <2>3. win' \in WindowLocals
    BY <2>1 DEF TypeOK, Publish, ReleaseThen, WindowMoves
  <2>4. stateB' \in [Slots -> SlotStates]
    <3>1. stateB \in [Slots -> SlotStates]
      BY DEF TypeOK
    <3> QED
      BY <2>2, <3>1
  <2> QED
    BY <2>3, <2>4 DEF TypeOK, Publish, ReleaseThen, WindowMoves
<1>2. FillingHeldOnce'
  <2>1. \A k \in Slots : stateB'[k] = FILLING <=> stateB[k] = FILLING
    BY DEF TypeOK, Publish, ReleaseThen, WindowMoves
  <2>2. wkr' = wkr
    BY DEF Publish, ReleaseThen, WindowMoves
  <2> QED
    BY <2>1, <2>2 DEF FillingHeldOnce, Holds
<1>3. PublishedComplete'
  <2>1. \A k \in Slots : stateB'[k] \in Published => stateB[k] \in Published
    BY DEF TypeOK, Publish
  <2>2. \A k \in Slots : ~Releasing(k)
    BY DEF Publish, Releasing
  <2>3. UNCHANGED <<ownersB, lutB, bytes>>
    BY DEF Publish
  <2> QED
    BY <2>1, <2>2, <2>3 DEF PublishedComplete, HoldsOnly
<1>4. WorkerInv'
  BY DEF WorkerInv, TypeOK, Publish, Superseded, ReleaseThen, WindowMoves
<1>5. TableInv'
  BY DEF TableInv, TypeOK, Publish, Superseded, ReleaseThen, WindowMoves
<1>6. ReleaseInv'
  BY DEF ReleaseInv, TypeOK, PublishedComplete, Releasing, HoldsOnly,
         Publish, Superseded, ReleaseThen, WindowMoves
<1>7. ReaderInv'
  BY DEF ReaderInv, Publish, Superseded, ReleaseThen, WindowMoves
<1>8. SourceInv'
  BY DEF SourceInv, Publish, Superseded, ReleaseThen, WindowMoves
<1>9. ExclusiveInv'
  BY DEF ExclusiveInv, Releasing, TypeOK, Publish, Superseded, ReleaseThen,
         WindowMoves
<1> QED
  BY <1>1, <1>2, <1>3, <1>4, <1>5, <1>6, <1>7, <1>8, <1>9

(* The publishing pass ends. *)
LEMMA PublishDoneKeeps ==
  ASSUME IInv, PublishDone PROVE IInv'
<1>1. TypeOK'
  BY DEF TypeOK, PublishDone, WindowForgets, WindowMoves
<1>2. PublishedComplete'
  BY DEF PublishedComplete, Releasing, HoldsOnly, PublishDone, WindowForgets,
         WindowMoves
<1>3. ReleaseInv'
  BY DEF ReleaseInv, PublishDone, WindowForgets, WindowMoves
<1>4. ReaderInv'
  BY DEF ReaderInv, PublishDone, WindowForgets, WindowMoves
<1>5. SourceInv'
  BY DEF SourceInv, PublishDone, WindowForgets, WindowMoves
<1>6. ExclusiveInv'
  BY DEF ExclusiveInv, Releasing, PublishDone, WindowForgets, WindowMoves
<1>7. FillingHeldOnce' /\ WorkerInv' /\ TableInv'
  BY SlotsKept DEF PublishDone, WindowForgets, WindowMoves
<1> QED
  BY <1>1, <1>2, <1>3, <1>4, <1>5, <1>6, <1>7

(* The count of free slots is at most the number of slots looked at. *)
LEMMA CountKeeps ==
  ASSUME IInv, Count PROVE IInv'
<1>1. TypeOK'
  BY DEF TypeOK, Count, WindowMoves
<1>2. PublishedComplete'
  BY DEF PublishedComplete, Releasing, HoldsOnly, Count, WindowMoves
<1>3. ReleaseInv'
  BY DEF ReleaseInv, Count, WindowMoves
<1>4. ReaderInv'
  BY DEF ReaderInv, Count, WindowMoves
<1>5. SourceInv'
  BY DEF SourceInv, Count, WindowMoves
<1>6. ExclusiveInv'
  BY DEF ExclusiveInv, Releasing, Count, WindowMoves
<1>7. FillingHeldOnce' /\ WorkerInv' /\ TableInv'
  BY SlotsKept DEF Count, WindowMoves
<1> QED
  BY <1>1, <1>2, <1>3, <1>4, <1>5, <1>6, <1>7

(* The counting pass ends. *)
LEMMA CountDoneKeeps ==
  ASSUME IInv, CountDone PROVE IInv'
<1>1. TypeOK'
  BY DEF TypeOK, CountDone, WindowMoves
<1>2. PublishedComplete'
  BY DEF PublishedComplete, Releasing, HoldsOnly, CountDone, WindowMoves
<1>3. ReleaseInv'
  BY DEF ReleaseInv, CountDone, WindowMoves
<1>4. ReaderInv'
  BY DEF ReaderInv, CountDone, WindowMoves
<1>5. SourceInv'
  BY DEF SourceInv, CountDone, WindowMoves
<1>6. ExclusiveInv'
  BY DEF ExclusiveInv, Releasing, CountDone, WindowMoves
<1>7. FillingHeldOnce' /\ WorkerInv' /\ TableInv'
  BY SlotsKept DEF CountDone, WindowMoves
<1> QED
  BY <1>1, <1>2, <1>3, <1>4, <1>5, <1>6, <1>7

(* The slot chosen for eviction is published and findable. *)
LEMMA EvictKeeps ==
  ASSUME IInv, Evict PROVE IInv'
<1>1. TypeOK'
  BY DEF TypeOK, Target, Evict, Evictable, ReleaseThen, WindowMoves
<1>2. PublishedComplete'
  BY DEF PublishedComplete, Releasing, HoldsOnly, Evict, Evictable,
         ReleaseThen, WindowMoves
<1>3. ReleaseInv'
  BY DEF ReleaseInv, TypeOK, PublishedComplete, Releasing, HoldsOnly, Evict,
         Evictable, ReleaseThen, WindowMoves
<1>4. ReaderInv'
  BY DEF ReaderInv, Evict, Evictable, ReleaseThen, WindowMoves
<1>5. SourceInv'
  BY DEF SourceInv, Evict, Evictable, ReleaseThen, WindowMoves
<1>6. ExclusiveInv'
  BY DEF ExclusiveInv, Releasing, Evict, Evictable, ReleaseThen, WindowMoves
<1>7. FillingHeldOnce' /\ WorkerInv' /\ TableInv'
  BY SlotsKept DEF Evict, Evictable, ReleaseThen, WindowMoves
<1> QED
  BY <1>1, <1>2, <1>3, <1>4, <1>5, <1>6, <1>7

(* Eviction ends without a slot under release. *)
LEMMA EvictDoneKeeps ==
  ASSUME IInv, EvictDone PROVE IInv'
<1>1. TypeOK'
  BY DEF TypeOK, EvictDone, Evictable, WindowForgets, WindowMoves
<1>2. PublishedComplete'
  BY DEF PublishedComplete, Releasing, HoldsOnly, EvictDone, Evictable,
         WindowForgets, WindowMoves
<1>3. ReleaseInv'
  BY DEF ReleaseInv, EvictDone, Evictable, WindowForgets, WindowMoves
<1>4. ReaderInv'
  BY DEF ReaderInv, EvictDone, Evictable, WindowForgets, WindowMoves
<1>5. SourceInv'
  BY DEF SourceInv, EvictDone, Evictable, WindowForgets, WindowMoves
<1>6. ExclusiveInv'
  BY DEF ExclusiveInv, Releasing, EvictDone, Evictable, WindowForgets,
         WindowMoves
<1>7. FillingHeldOnce' /\ WorkerInv' /\ TableInv'
  BY SlotsKept DEF EvictDone, Evictable, WindowForgets, WindowMoves
<1> QED
  BY <1>1, <1>2, <1>3, <1>4, <1>5, <1>6, <1>7

(* The only table entry that led to the slot is cleared first. *)
LEMMA ReleaseLutKeeps ==
  ASSUME IInv, ReleaseLut PROVE IInv'
<1>1. TypeOK'
  BY DEF TypeOK, ReleaseInv, ReleaseLut, WindowGoes, WindowMoves
<1>2. FillingHeldOnce'
  BY DEF FillingHeldOnce, Holds, ReleaseLut, WindowGoes, WindowMoves
<1>3. PublishedComplete'
  BY DEF PublishedComplete, Releasing, HoldsOnly, TypeOK, ReleaseInv,
         ReleaseLut, WindowGoes, WindowMoves
<1>4. WorkerInv'
  BY DEF WorkerInv, TypeOK, ReleaseInv, ReleaseLut, WindowGoes, WindowMoves
<1>5. TableInv'
  BY DEF TableInv, ReleaseLut, WindowGoes, WindowMoves
<1>6. ReleaseInv'
  <2>1. ASSUME NEW e \in Experts, lutB[e] = win.k PROVE e = win.e
    BY <2>1 DEF ReleaseInv, TableInv, WorkerInv, ReleaseLut
  <2> QED
    BY <2>1 DEF TypeOK, ReleaseInv, ReleaseLut, WindowGoes, WindowMoves
<1>7. ReaderInv'
  BY DEF ReaderInv, ReleaseLut, WindowGoes, WindowMoves
<1>8. SourceInv'
  BY DEF SourceInv, ReleaseLut, WindowGoes, WindowMoves
<1>9. ExclusiveInv'
  BY DEF ExclusiveInv, Releasing, ReleaseLut, WindowGoes, WindowMoves
<1> QED
  BY <1>1, <1>2, <1>3, <1>4, <1>5, <1>6, <1>7, <1>8, <1>9

(* The owner of a slot no table entry leads to is cleared. *)
LEMMA ReleaseOwnerKeeps ==
  ASSUME IInv, ReleaseOwner PROVE IInv'
<1>1. TypeOK'
  BY DEF TypeOK, ReleaseInv, ReleaseOwner, WindowGoes, WindowMoves
<1>2. FillingHeldOnce'
  BY DEF FillingHeldOnce, Holds, ReleaseOwner, WindowGoes, WindowMoves
<1>3. PublishedComplete'
  BY DEF PublishedComplete, Releasing, HoldsOnly, ReleaseOwner, WindowGoes,
         WindowMoves
<1>4. WorkerInv'
  BY DEF WorkerInv, TypeOK, ReleaseInv, ReleaseOwner, WindowGoes, WindowMoves
<1>5. TableInv'
  BY DEF TableInv, TypeOK, ReleaseInv, ReleaseOwner, WindowGoes, WindowMoves
<1>6. ReleaseInv'
  BY DEF ReleaseInv, ReleaseOwner, WindowGoes, WindowMoves
<1>7. ReaderInv'
  BY DEF ReaderInv, ReleaseOwner, WindowGoes, WindowMoves
<1>8. SourceInv'
  BY DEF SourceInv, ReleaseOwner, WindowGoes, WindowMoves
<1>9. ExclusiveInv'
  BY DEF ExclusiveInv, Releasing, ReleaseOwner, WindowGoes, WindowMoves
<1> QED
  BY <1>1, <1>2, <1>3, <1>4, <1>5, <1>6, <1>7, <1>8, <1>9

(* The slot that is freed is the one that was taken apart. *)
LEMMA ReleaseFreeKeeps ==
  ASSUME IInv, ReleaseFree PROVE IInv'
<1>1. TypeOK'
  BY DEF TypeOK, ReleaseInv, ReleaseFree, WindowMoves
<1>2. FillingHeldOnce'
  BY DEF FillingHeldOnce, Holds, TypeOK, ReleaseInv, ReleaseFree, WindowMoves
<1>3. PublishedComplete'
  BY DEF PublishedComplete, Releasing, HoldsOnly, TypeOK, ReleaseFree,
         WindowMoves
<1>4. WorkerInv'
  BY DEF WorkerInv, TypeOK, ReleaseInv, ReleaseFree, WindowMoves
<1>5. TableInv'
  BY DEF TableInv, TypeOK, ReleaseInv, ReleaseFree, WindowMoves
<1>6. ReleaseInv'
  BY DEF ReleaseInv, TypeOK, ReleaseFree, WindowMoves
<1>7. ReaderInv'
  BY DEF ReaderInv, ReleaseFree, WindowMoves
<1>8. SourceInv'
  BY DEF SourceInv, TypeOK, ReleaseInv, ReleaseFree, WindowMoves
<1>9. ExclusiveInv'
  BY DEF ExclusiveInv, Releasing, TypeOK, ReleaseFree, WindowMoves
<1> QED
  BY <1>1, <1>2, <1>3, <1>4, <1>5, <1>6, <1>7, <1>8, <1>9

(* The source of a promotion is the expert's RESIDENT slot, if any. *)
LEMMA RepinKeeps ==
  ASSUME NEW e \in Experts, NEW old \in Experts \cup {None},
         IInv, Repin(e, old)
  PROVE  IInv'
<1>1. TypeOK'
  BY DEF TypeOK, Repin, ResidentSlot, WindowMoves
<1>2. PublishedComplete'
  BY DEF PublishedComplete, Releasing, HoldsOnly, Repin, ResidentSlot,
         WindowMoves
<1>3. ReleaseInv'
  BY DEF ReleaseInv, Repin, ResidentSlot, WindowMoves
<1>4. ReaderInv'
  BY DEF ReaderInv, Repin, ResidentSlot, WindowMoves
<1>5. SourceInv'
  BY DEF SourceInv, Repin, ResidentSlot, WindowMoves
<1>6. ExclusiveInv'
  BY DEF ExclusiveInv, Releasing, TypeOK, PublishedComplete, HoldsOnly,
         Repin, ResidentSlot, WindowMoves
<1>7. FillingHeldOnce' /\ WorkerInv' /\ TableInv'
  BY SlotsKept DEF Repin, ResidentSlot, WindowMoves
<1> QED
  BY <1>1, <1>2, <1>3, <1>4, <1>5, <1>6, <1>7

(* No promotion this time. *)
LEMMA RepinSkipKeeps ==
  ASSUME IInv, RepinSkip PROVE IInv'
<1>1. TypeOK'
  BY DEF TypeOK, RepinSkip, WindowGoes, WindowMoves
<1>2. PublishedComplete'
  BY DEF PublishedComplete, Releasing, HoldsOnly, RepinSkip, WindowGoes,
         WindowMoves
<1>3. ReleaseInv'
  BY DEF ReleaseInv, RepinSkip, WindowGoes, WindowMoves
<1>4. ReaderInv'
  BY DEF ReaderInv, RepinSkip, WindowGoes, WindowMoves
<1>5. SourceInv'
  BY DEF SourceInv, RepinSkip, WindowGoes, WindowMoves
<1>6. ExclusiveInv'
  BY DEF ExclusiveInv, Releasing, RepinSkip, WindowGoes, WindowMoves
<1>7. FillingHeldOnce' /\ WorkerInv' /\ TableInv'
  BY SlotsKept DEF RepinSkip, WindowGoes, WindowMoves
<1> QED
  BY <1>1, <1>2, <1>3, <1>4, <1>5, <1>6, <1>7

(* The source slot of the upload goes on to be released. *)
LEMMA UploadKeeps ==
  ASSUME IInv, Upload PROVE IInv'
<1>1. TypeOK'
  BY DEF TypeOK, Upload, CopiedThen, ResidentSlot, ReleaseThen, WindowGoes,
         WindowMoves
<1>2. PublishedComplete'
  BY DEF PublishedComplete, Releasing, HoldsOnly, Upload, CopiedThen,
         ResidentSlot, ReleaseThen, WindowGoes, WindowMoves
<1>3. ReleaseInv'
  BY DEF ReleaseInv, TypeOK, SourceInv, Upload, CopiedThen, ResidentSlot,
         ReleaseThen, WindowGoes, WindowMoves
<1>4. ReaderInv'
  BY DEF ReaderInv, Upload, CopiedThen, ResidentSlot, ReleaseThen,
         WindowGoes, WindowMoves
<1>5. SourceInv'
  BY DEF SourceInv, Upload, CopiedThen, ResidentSlot, ReleaseThen,
         WindowGoes, WindowMoves
<1>6. ExclusiveInv'
  <2>1. win.pc = "upload" /\ UNCHANGED <<slotVars, tierVars>>
    BY DEF Upload, CopiedThen
  <2>2. \/ win.src = None
        \/ win.src \in Slots /\ ResidentSlot(win.e) = win.src
    <3>1. win.src \in Slots \cup {None}
      BY DEF TypeOK
    <3>2. win.src # None => /\ stateB[win.src] = RESIDENT
                            /\ ownersB[win.src] = win.e /\ lutB[win.e] = win.src
      BY <2>1 DEF SourceInv
    <3>3. win.src # None => ResidentSlot(win.e) = win.src
      BY <3>2 DEF ResidentSlot
    <3> QED
      BY <3>1, <3>3
  <2>3. \/ win.src = None /\ win'.pc = "unpool"
        \/ win'.pc = "rlut" /\ win'.k = win.src /\ win'.ret = "unpool"
    BY <2>2 DEF Upload, CopiedThen, ReleaseThen, WindowGoes, WindowMoves
  <2> QED
    BY <2>1, <2>3 DEF ExclusiveInv, Releasing
<1>7. FillingHeldOnce' /\ WorkerInv' /\ TableInv'
  BY SlotsKept DEF Upload, CopiedThen, ResidentSlot, ReleaseThen, WindowGoes,
         WindowMoves
<1> QED
  BY <1>1, <1>2, <1>3, <1>4, <1>5, <1>6, <1>7

(* A promoted expert leaves the demand pool. *)
LEMMA UnpoolKeeps ==
  ASSUME IInv, Unpool PROVE IInv'
<1>1. TypeOK'
  BY DEF TypeOK, Unpool, WindowForgets, WindowMoves
<1>2. PublishedComplete'
  BY DEF PublishedComplete, Releasing, HoldsOnly, Unpool, WindowForgets,
         WindowMoves
<1>3. ReleaseInv'
  BY DEF ReleaseInv, Unpool, WindowForgets, WindowMoves
<1>4. ReaderInv'
  BY DEF ReaderInv, Unpool, WindowForgets, WindowMoves
<1>5. SourceInv'
  BY DEF SourceInv, Unpool, WindowForgets, WindowMoves
<1>6. ExclusiveInv'
  BY DEF ExclusiveInv, Releasing, Unpool, WindowForgets, WindowMoves
<1>7. FillingHeldOnce' /\ WorkerInv' /\ TableInv'
  BY SlotsKept DEF Unpool, WindowForgets, WindowMoves
<1> QED
  BY <1>1, <1>2, <1>3, <1>4, <1>5, <1>6, <1>7

(* The source of a pool fill is the expert's RESIDENT slot, if any. *)
LEMMA RefillKeeps ==
  ASSUME NEW e \in Experts, NEW old \in Experts \cup {None},
         IInv, Refill(e, old)
  PROVE  IInv'
<1>1. TypeOK'
  BY DEF TypeOK, Refill, ResidentSlot, WindowMoves
<1>2. PublishedComplete'
  BY DEF PublishedComplete, Releasing, HoldsOnly, Refill, ResidentSlot,
         WindowMoves
<1>3. ReleaseInv'
  BY DEF ReleaseInv, Refill, ResidentSlot, WindowMoves
<1>4. ReaderInv'
  BY DEF ReaderInv, Refill, ResidentSlot, WindowMoves
<1>5. SourceInv'
  BY DEF SourceInv, Refill, ResidentSlot, WindowMoves
<1>6. ExclusiveInv'
  BY DEF ExclusiveInv, Releasing, TypeOK, PublishedComplete, HoldsOnly,
         Refill, ResidentSlot, WindowMoves
<1>7. FillingHeldOnce' /\ WorkerInv' /\ TableInv'
  BY SlotsKept DEF Refill, ResidentSlot, WindowMoves
<1> QED
  BY <1>1, <1>2, <1>3, <1>4, <1>5, <1>6, <1>7

(* No pool fill this time: the graph runs again. *)
LEMMA RefillSkipKeeps ==
  ASSUME IInv, RefillSkip PROVE IInv'
<1>1. TypeOK'
  BY DEF TypeOK, RefillSkip, WindowForgets, WindowMoves
<1>2. PublishedComplete'
  BY DEF PublishedComplete, Releasing, HoldsOnly, RefillSkip, WindowForgets,
         WindowMoves
<1>3. ReleaseInv'
  BY DEF ReleaseInv, RefillSkip, WindowForgets, WindowMoves
<1>4. ReaderInv'
  BY DEF ReaderInv, RefillSkip, WindowForgets, WindowMoves
<1>5. SourceInv'
  BY DEF SourceInv, RefillSkip, WindowForgets, WindowMoves
<1>6. ExclusiveInv'
  BY DEF ExclusiveInv, Releasing, RefillSkip, WindowForgets, WindowMoves
<1>7. FillingHeldOnce' /\ WorkerInv' /\ TableInv'
  BY SlotsKept DEF RefillSkip, WindowForgets, WindowMoves
<1> QED
  BY <1>1, <1>2, <1>3, <1>4, <1>5, <1>6, <1>7

(* The source slot of the pool fill goes on to be released. *)
LEMMA PoolCopyKeeps ==
  ASSUME IInv, PoolCopy PROVE IInv'
<1>1. TypeOK'
  BY DEF TypeOK, PoolCopy, CopiedThen, ResidentSlot, ReleaseThen, WindowGoes,
         WindowMoves
<1>2. PublishedComplete'
  BY DEF PublishedComplete, Releasing, HoldsOnly, PoolCopy, CopiedThen,
         ResidentSlot, ReleaseThen, WindowGoes, WindowMoves
<1>3. ReleaseInv'
  BY DEF ReleaseInv, TypeOK, SourceInv, PoolCopy, CopiedThen, ResidentSlot,
         ReleaseThen, WindowGoes, WindowMoves
<1>4. ReaderInv'
  BY DEF ReaderInv, PoolCopy, CopiedThen, ResidentSlot, ReleaseThen,
         WindowGoes, WindowMoves
<1>5. SourceInv'
  BY DEF SourceInv, PoolCopy, CopiedThen, ResidentSlot, ReleaseThen,
         WindowGoes, WindowMoves
<1>6. ExclusiveInv'
  <2>1. win.pc = "poolcopy" /\ UNCHANGED <<slotVars, tierVars>> /\ win'.e = win.e
    BY DEF PoolCopy, CopiedThen, ReleaseThen, WindowGoes, WindowMoves
  <2>2. \/ win.src = None
        \/ win.src \in Slots /\ ResidentSlot(win.e) = win.src
    <3>1. win.src \in Slots \cup {None}
      BY DEF TypeOK
    <3>2. win.src # None => /\ stateB[win.src] = RESIDENT
                            /\ ownersB[win.src] = win.e /\ lutB[win.e] = win.src
      BY <2>1 DEF SourceInv
    <3>3. win.src # None => ResidentSlot(win.e) = win.src
      BY <3>2 DEF ResidentSlot
    <3> QED
      BY <3>1, <3>3
  <2>3. \/ win.src = None /\ win'.pc = "poollut"
        \/ win'.pc = "rlut" /\ win'.k = win.src /\ win'.ret = "poollut"
    BY <2>2 DEF PoolCopy, CopiedThen, ReleaseThen, WindowGoes, WindowMoves
  <2> QED
    BY <2>1, <2>3 DEF ExclusiveInv, Releasing
<1>7. FillingHeldOnce' /\ WorkerInv' /\ TableInv'
  BY SlotsKept DEF PoolCopy, CopiedThen, ResidentSlot, ReleaseThen,
         WindowGoes, WindowMoves
<1> QED
  BY <1>1, <1>2, <1>3, <1>4, <1>5, <1>6, <1>7

(* The expert enters the demand pool with no RESIDENT copy left. *)
LEMMA PoolLutKeeps ==
  ASSUME IInv, PoolLut PROVE IInv'
<1>1. TypeOK'
  BY DEF TypeOK, SourceInv, PoolLut, WindowForgets, WindowMoves
<1>2. PublishedComplete'
  BY DEF PublishedComplete, Releasing, HoldsOnly, PoolLut, WindowForgets,
         WindowMoves
<1>3. ReleaseInv'
  BY DEF ReleaseInv, PoolLut, WindowForgets, WindowMoves
<1>4. ReaderInv'
  BY DEF ReaderInv, PoolLut, WindowForgets, WindowMoves
<1>5. SourceInv'
  BY DEF SourceInv, PoolLut, WindowForgets, WindowMoves
<1>6. ExclusiveInv'
  BY DEF ExclusiveInv, Releasing, PoolLut, WindowForgets, WindowMoves
<1>7. FillingHeldOnce' /\ WorkerInv' /\ TableInv'
  BY SlotsKept DEF PoolLut, WindowForgets, WindowMoves
<1> QED
  BY <1>1, <1>2, <1>3, <1>4, <1>5, <1>6, <1>7

(* Every step of the window keeps the invariant. *)
LEMMA WindowStepKeeps == ASSUME IInv, WindowStep PROVE IInv'
BY PublishKeeps, PublishDoneKeeps, CountKeeps, CountDoneKeeps, EvictKeeps,
   EvictDoneKeeps, ReleaseLutKeeps, ReleaseOwnerKeeps, ReleaseFreeKeeps,
   RepinKeeps, RefillKeeps, RepinSkipKeeps, UploadKeeps, UnpoolKeeps,
   RefillSkipKeeps, PoolCopyKeeps, PoolLutKeeps
   DEF WindowStep

-----------------------------------------------------------------------------
(* The theorems.                                                           *)

(* A step that changes nothing keeps the invariant. *)
LEMMA StutterKeeps == ASSUME IInv, UNCHANGED vars PROVE IInv'
<1> USE DEF vars
<1>1. TypeOK'
  BY DEF TypeOK
<1>2. FillingHeldOnce' /\ WorkerInv' /\ TableInv'
  BY SlotsKept
<1>3. PublishedComplete' /\ ReleaseInv' /\ SourceInv' /\ ExclusiveInv'
  BY WindowKept
<1>4. ReaderInv'
  BY ReadersKept
<1> QED
  BY <1>1, <1>2, <1>3, <1>4

(* Every step of the system keeps the invariant. *)
LEMMA NextInv == IInv /\ [Next]_vars => IInv'
<1> SUFFICES ASSUME IInv, [Next]_vars PROVE IInv'
  OBVIOUS
<1>1. CASE \E w \in Workers : WorkerStep(w) \/ \E e \in Experts : WStart(w, e)
  BY <1>1, WorkerStepKeeps, WStartKeeps
<1>2. CASE \E r \in Readers : ReaderStep(r) \/ \E e \in Experts : RStart(r, e)
  BY <1>2, RStartKeeps, RLutKeeps, RStateKeeps, ROwnerKeeps, RMissKeeps,
     RDoneKeeps DEF ReaderStep
<1>3. CASE WindowBegin \/ WindowStep
  BY <1>3, WindowBeginKeeps, WindowStepKeeps
<1>4. CASE UNCHANGED vars
  BY <1>4, StutterKeeps
<1> QED
  BY <1>1, <1>2, <1>3, <1>4 DEF Next

(* The inductive invariant holds in every reachable state of the pool. *)
THEOREM Invariance == Spec => []IInv
BY InitInv, NextInv, PTL DEF Spec

(* Every variable of the pool keeps its type. *)
THEOREM TypeCorrect == Spec => []TypeOK
<1>1. IInv => TypeOK
  OBVIOUS
<1> QED
  BY <1>1, Invariance, PTL

(* No slot leaks out of the pool, and no two workers fill the same slot:   *)
(* the compare-exchanges on the residency word and on the table suffice.   *)
THEOREM FillingIsExclusive == Spec => []FillingHeldOnce
<1>1. IInv => FillingHeldOnce
  OBVIOUS
<1> QED
  BY <1>1, Invariance, PTL

(* A slot seen READY or RESIDENT is complete, and its table entry and its  *)
(* owner word agree, unless the window is taking it apart.                 *)
THEOREM PublishedIsComplete == Spec => []PublishedComplete
<1>1. IInv => PublishedComplete
  OBVIOUS
<1> QED
  BY <1>1, Invariance, PTL

(* A cold operator never computes from another expert's weights or from a  *)
(* slot that is still being filled.                                        *)
THEOREM ProbesAreExact == Spec => []ProbeExact
<1>1. IInv => ProbeExact
  <2> SUFFICES ASSUME IInv, NEW r \in Readers, rd[r].pc = "read"
               PROVE  HoldsOnly(rd[r].k, rd[r].e)
    BY DEF ProbeExact
  <2>1. /\ rd[r].k \in Slots /\ stateB[rd[r].k] \in Published
        /\ ownersB[rd[r].k] = rd[r].e /\ ~Releasing(rd[r].k)
    BY DEF ReaderInv, Releasing
  <2> QED
    BY <2>1 DEF PublishedComplete
<1> QED
  BY <1>1, Invariance, PTL

(* The window promotes and pools an expert from that expert's bytes. *)
THEOREM SourcesAreExact == Spec => []SourceExact
<1>1. IInv => SourceExact
  <2> SUFFICES ASSUME IInv, win.pc \in {"upload", "poolcopy"}, win.src # None
               PROVE  HoldsOnly(win.src, win.e)
    BY DEF SourceExact
  <2>1. /\ win.src \in Slots /\ stateB[win.src] \in Published
        /\ ownersB[win.src] = win.e /\ ~Releasing(win.src)
    BY DEF TypeOK, SourceInv, Releasing
  <2> QED
    BY <2>1 DEF PublishedComplete
<1> QED
  BY <1>1, Invariance, PTL

(* Between two windows a RESIDENT slot duplicates no hot slot, no demand   *)
(* pool slot and no other slot of the speculative pool.                    *)
THEOREM ResidentIsExclusive == Spec => []ResidentExclusive
<1>1. IInv => ResidentExclusive
  <2> SUFFICES ASSUME IInv, win.pc = "compute", NEW k \in Slots, stateB[k] = RESIDENT
               PROVE  /\ ownersB[k] \notin hot \cup pooled
                      /\ \A j \in Slots \ {k} :
                           stateB[j] \in Published => ownersB[j] # ownersB[k]
    BY DEF ResidentExclusive
  <2>1. \A j \in Slots : ~Releasing(j)
    BY DEF Releasing
  <2>2. ownersB[k] \notin hot \cup pooled
    BY <2>1 DEF ExclusiveInv
  <2>3. \A j \in Slots : stateB[j] \in Published => lutB[ownersB[j]] = j
    BY <2>1 DEF PublishedComplete
  <2> QED
    BY <2>2, <2>3
<1> QED
  BY <1>1, Invariance, PTL

-----------------------------------------------------------------------------
(* SpecPool implements ResidencyContract: what the rest of the program     *)
(* sees of an expert through its table entry moves only along              *)
(* absent -> filling -> ready -> resident -> absent, and never while a     *)
(* cold operator reads it. Only six kinds of steps are visible:            *)
(*   WEnter is Claim, WReady is Complete, Publish is Publish (or nothing), *)
(*   ReleaseLut is Drop, ROwner is Serve and RDone is Done;                *)
(* every other step of the pool stutters.                                  *)

(* The two variables of the contract, as functions of the pool's state. *)
Where == [e \in Experts |-> Stage(e)]
Serving == [r \in Readers |-> IF rd[r].pc = "read" THEN rd[r].e ELSE None]

USE DEF Where, Serving, Stage

(* A step that keeps every expert's stage and every served expert. *)
LEMMA Stutter ==
  ASSUME \A e \in Experts : Stage(e)' = Stage(e), Serving' = Serving
  PROVE  UNCHANGED Contract!vars
BY DEF Contract!vars

(* A step that moves one expert and leaves the others and the readers. *)
LEMMA MoveOne ==
  ASSUME NEW e \in Experts, NEW from, NEW to,
         Stage(e) \in from, Stage(e)' = to,
         \A x \in Experts : x # e => Stage(x)' = Stage(x), Serving' = Serving
  PROVE  Contract!Move(e, from, to)
BY ZenonT(60) DEF Contract!Move

(* Steps of compute threads and of the window beside the slots are not seen. *)
LEMMA Unseen == ASSUME UNCHANGED <<stateB, lutB, rd>> PROVE UNCHANGED Contract!vars
BY Stutter

(* A slot that is about to be claimed or given back is not in the table. *)
LEMMA NotTabled ==
  ASSUME IInv, NEW k \in Slots,
         stateB[k] = FREE \/ \E w \in Workers : wkr[w].pc = "lost" /\ wkr[w].k = k,
         NEW e \in Experts
  PROVE  lutB[e] # k
BY SMTT(60) DEF TypeOK, TableInv, WorkerInv, FillingHeldOnce, Holds

(* What the workers do is seen as Claim and Complete. *)
LEMMA WorkerRefines ==
  ASSUME NEW w \in Workers, IInv, WorkerStep(w)
  PROVE  [Contract!Next]_Contract!vars
<1>1. CASE WCheck(w) \/ WClaimNext(w) \/ WClaimFull(w) \/ WEnterLost(w)
           \/ WOwn(w) \/ WCopy(w) \/ WSettle(w)
  BY <1>1, Unseen DEF WCheck, WDrop, WPass, WClaimNext, WClaimFull, WEnterLost,
     WOwn, WCopy, WSettle, WorkerGoes, WorkerForgets, WorkerMoves
<1>2. CASE WClaim(w)
  <2>1. \A e \in Experts : lutB[e] # wkr[w].k
    BY <1>2, NotTabled DEF WClaim
  <2>2. UNCHANGED <<lutB, rd>>
    BY <1>2 DEF WClaim, WorkerGoes, WorkerMoves
  <2>3. \A e \in Experts : Stage(e)' = Stage(e)
    BY <1>2, <2>1, <2>2 DEF WClaim, TypeOK
  <2> QED
    BY <2>2, <2>3, Stutter
<1>3. CASE WEnter(w)
  <2>1. wkr[w].e \in Experts /\ wkr[w].k \in Slots /\ stateB[wkr[w].k] = FILLING
    BY <1>3 DEF WEnter, WorkerInv
  <2>2. PICK e \in Experts : e = wkr[w].e
    BY <2>1
  <2>3. UNCHANGED <<stateB, rd>> /\ lutB[e] = None /\ lutB' = [lutB EXCEPT ![e] = wkr[w].k]
    BY <1>3, <2>2 DEF WEnter, WorkerGoes, WorkerMoves
  <2>4. Stage(e) = FREE /\ Stage(e)' = FILLING
    BY <2>1, <2>3 DEF TypeOK
  <2>5. \A x \in Experts : x # e => Stage(x)' = Stage(x)
    BY <2>3 DEF TypeOK
  <2>6. Contract!Claim(e)
    BY <2>3, <2>4, <2>5, MoveOne DEF Contract!Claim
  <2> QED
    BY <2>6 DEF Contract!Next
<1>4. CASE WLost(w)
  <2>1. wkr[w].k \in Slots /\ wkr[w].pc = "lost"
    BY <1>4 DEF WLost, WorkerInv
  <2>2. \A e \in Experts : lutB[e] # wkr[w].k
    BY <2>1, NotTabled
  <2>3. UNCHANGED <<lutB, rd>>
    BY <1>4 DEF WLost, WorkerForgets, WorkerMoves
  <2>4. \A e \in Experts : Stage(e)' = Stage(e)
    BY <1>4, <2>2, <2>3 DEF WLost, TypeOK
  <2> QED
    BY <2>3, <2>4, Stutter
<1>5. CASE WReady(w)
  <2>1. /\ wkr[w].e \in Experts /\ wkr[w].k \in Slots
        /\ stateB[wkr[w].k] = FILLING /\ lutB[wkr[w].e] = wkr[w].k
    BY <1>5 DEF WReady, WorkerInv
  <2>2. PICK e \in Experts : e = wkr[w].e
    BY <2>1
  <2>3. PICK k \in Slots : k = wkr[w].k
    BY <2>1
  <2>4. ASSUME NEW x \in Experts, lutB[x] = k PROVE x = e
    <3>1. PICK v \in Workers : wkr[v].pc \in {"own", "copy"} /\ wkr[v].k = k /\ wkr[v].e = x
      BY <2>1, <2>3, <2>4 DEF TableInv
    <3>2. Holds(v, k) /\ Holds(w, k)
      BY <1>5, <2>3, <3>1 DEF Holds, WReady
    <3> QED
      BY <2>2, <3>1, <3>2 DEF FillingHeldOnce
  <2>5. UNCHANGED <<lutB, rd>> /\ stateB' = [stateB EXCEPT ![k] = READY]
    BY <1>5, <2>3 DEF WReady, WorkerForgets, WorkerMoves
  <2>6. Stage(e) = FILLING /\ Stage(e)' = READY
    BY <2>1, <2>2, <2>3, <2>5 DEF TypeOK
  <2>7. \A x \in Experts : x # e => Stage(x)' = Stage(x)
    BY <2>4, <2>5 DEF TypeOK
  <2>8. Contract!Complete(e)
    BY <2>5, <2>6, <2>7, MoveOne DEF Contract!Complete
  <2> QED
    BY <2>8 DEF Contract!Next
<1> QED
  BY <1>1, <1>2, <1>3, <1>4, <1>5 DEF WorkerStep

(* A probe that succeeds is Serve, the end of the reading is Done. *)
LEMMA ReaderRefines ==
  ASSUME NEW r \in Readers, IInv, ReaderStep(r)
  PROVE  [Contract!Next]_Contract!vars
<1>0. UNCHANGED <<stateB, lutB>>
  BY DEF ReaderStep, RLut, RState, ROwner, RMiss, RDone, ReaderForgets, ReaderMoves
<1>1. CASE RLut(r) \/ RState(r) \/ RMiss(r)
  <2>1. rd[r].pc # "read" /\ rd'[r].pc # "read" /\ \A q \in Readers : q # r => rd'[q] = rd[q]
    BY <1>1 DEF RLut, RState, RMiss, ReaderForgets, ReaderMoves, TypeOK
  <2>2. Serving' = Serving
    BY <2>1
  <2> QED
    BY <1>0, <2>2, Stutter
<1>2. CASE ROwner(r)
  <2>1. /\ rd[r].e \in Experts /\ rd[r].k \in Slots /\ rd[r].pc = "owner"
        /\ stateB[rd[r].k] \in Published /\ ~Releasing(rd[r].k)
        /\ ownersB[rd[r].k] = rd[r].e
    BY <1>2 DEF ROwner, ReaderInv, Releasing
  <2>2. PICK e \in Experts : e = rd[r].e
    BY <2>1
  <2>3. lutB[e] = rd[r].k
    BY <2>1, <2>2 DEF PublishedComplete
  <2>4. Serving[r] = None /\ Serving' = [Serving EXCEPT ![r] = e]
    BY <1>2, <2>1, <2>2, ZenonT(60) DEF ROwner, ReaderMoves, TypeOK
  <2>5. Contract!Serve(r, e)
    BY <1>0, <2>1, <2>3, <2>4 DEF Contract!Serve
  <2> QED
    BY <2>5 DEF Contract!Next
<1>3. CASE RDone(r)
  <2>1. rd[r].e \in Experts /\ rd[r].pc = "read"
    BY <1>3 DEF RDone, ReaderInv
  <2>2. Serving[r] # None /\ Serving' = [Serving EXCEPT ![r] = None]
    BY <1>3, <2>1, ZenonT(60) DEF RDone, ReaderForgets, ReaderMoves, TypeOK
  <2>3. Contract!Done(r)
    BY <1>0, <2>2 DEF Contract!Done
  <2>4. Contract!Next
    BY <2>3 DEF Contract!Next
  <2> QED
    BY <2>4
<1> QED
  BY <1>1, <1>2, <1>3 DEF ReaderStep

(* The window publishes and drops; the rest of what it does is not seen. *)
LEMMA WindowRefines ==
  ASSUME IInv, WindowStep
  PROVE  [Contract!Next]_Contract!vars
<1>1. CASE PublishDone \/ Count \/ CountDone \/ Evict \/ EvictDone \/ ReleaseOwner
           \/ (\E e \in Experts, old \in Experts \cup {None} : Repin(e, old) \/ Refill(e, old))
           \/ RepinSkip \/ Upload \/ Unpool \/ RefillSkip \/ PoolCopy \/ PoolLut
  <2>1. UNCHANGED <<stateB, lutB, rd>>
    BY <1>1 DEF PublishDone, Count, CountDone, Evict, EvictDone, ReleaseOwner,
       Repin, Refill, RepinSkip, Upload, Unpool, RefillSkip, PoolCopy, PoolLut, CopiedThen,
       ReleaseThen, WindowGoes, WindowForgets, WindowMoves
  <2> QED
    BY <2>1, Unseen
<1>2. CASE Publish
  <2>0. win.k \in Slots /\ UNCHANGED <<lutB, rd>>
    BY <1>2 DEF Publish, ReleaseThen, WindowMoves
  <2>1. CASE stateB' = stateB
    BY <2>0, <2>1, Unseen
  <2>2. CASE stateB' # stateB
    <3>1. PICK k \in Slots : k = win.k
      BY <2>0
    <3>2. /\ stateB[k] = READY /\ ~Releasing(k)
          /\ stateB' = [stateB EXCEPT ![k] = RESIDENT]
      BY <1>2, <2>2, <3>1 DEF Publish, Releasing, TypeOK
    <3>3. PICK e \in Experts : e = ownersB[k] /\ lutB[e] = k
      BY <3>2 DEF PublishedComplete
    <3>4. ASSUME NEW x \in Experts, lutB[x] = k PROVE x = e
      BY <3>2, <3>3, <3>4 DEF TableInv, WorkerInv
    <3>5. Stage(e) = READY /\ Stage(e)' = RESIDENT
      BY <2>0, <3>2, <3>3 DEF TypeOK
    <3>6. \A x \in Experts : x # e => Stage(x)' = Stage(x)
      BY <2>0, <3>2, <3>4 DEF TypeOK
    <3>7. Contract!Publish(e)
      BY <2>0, <3>5, <3>6, MoveOne DEF Contract!Publish
    <3> QED
      BY <3>7 DEF Contract!Next
  <2> QED
    BY <2>1, <2>2
<1>3. CASE ReleaseLut
  <2>1. /\ win.e \in Experts /\ win.k \in Slots /\ stateB[win.k] \in Published
        /\ lutB[win.e] = win.k /\ \A r \in Readers : rd[r].pc = "idle"
    BY <1>3 DEF ReleaseLut, ReleaseInv, ReaderInv
  <2>2. PICK e \in Experts : e = win.e
    BY <2>1
  <2>3. UNCHANGED <<stateB, rd>> /\ lutB' = [lutB EXCEPT ![e] = None]
    BY <1>3, <2>2 DEF ReleaseLut, WindowGoes, WindowMoves
  <2>4. Stage(e) \in {READY, RESIDENT} /\ Stage(e)' = FREE
    BY <2>1, <2>2, <2>3 DEF TypeOK
  <2>5. \A x \in Experts : x # e => Stage(x)' = Stage(x)
    BY <2>3 DEF TypeOK
  <2>6. Contract!Move(e, {READY, RESIDENT}, FREE)
    BY <2>3, <2>4, <2>5, MoveOne
  <2>7. Contract!Drop(e)
    BY <2>1, <2>6 DEF Contract!Drop
  <2> QED
    BY <2>7 DEF Contract!Next
<1>4. CASE ReleaseFree
  <2>1. win.k \in Slots /\ \A e \in Experts : lutB[e] # win.k
    BY <1>4 DEF ReleaseFree, ReleaseInv
  <2>2. UNCHANGED <<lutB, rd>> /\ stateB' = [stateB EXCEPT ![win.k] = FREE]
    BY <1>4 DEF ReleaseFree, WindowMoves
  <2>3. \A e \in Experts : Stage(e)' = Stage(e)
    BY <2>1, <2>2 DEF TypeOK
  <2> QED
    BY <2>2, <2>3, Stutter
<1> QED
  BY <1>1, <1>2, <1>3, <1>4 DEF WindowStep

(* The pool implements the contract for every value of the constants: an   *)
(* expert's copy is never dropped or overwritten under a reader, and never *)
(* skips the stages filling and ready.                                     *)
THEOREM Implementation == Spec => ImplementsContract
<1>1. Init => Contract!Init
  BY DEF Init, Contract!Init
<1>2. IInv /\ [Next]_vars => [Contract!Next]_Contract!vars
  <2> SUFFICES ASSUME IInv, [Next]_vars PROVE [Contract!Next]_Contract!vars
    OBVIOUS
  <2>1. CASE \E w \in Workers : WorkerStep(w) \/ \E e \in Experts : WStart(w, e)
    BY <2>1, WorkerRefines, Unseen DEF WStart, WorkerMoves
  <2>2. CASE \E r \in Readers : ReaderStep(r) \/ \E e \in Experts : RStart(r, e)
    <3>1. ASSUME NEW r \in Readers, NEW e \in Experts, RStart(r, e)
          PROVE  UNCHANGED Contract!vars
      <4>1. Serving' = Serving /\ UNCHANGED <<stateB, lutB>>
        BY <3>1 DEF RStart, ReaderMoves, TypeOK
      <4> QED
        BY <4>1, Stutter
    <3> QED
      BY <2>2, <3>1, ReaderRefines
  <2>3. CASE WindowBegin \/ WindowStep
    BY <2>3, WindowRefines, Unseen DEF WindowBegin, WindowForgets, WindowMoves
  <2>4. CASE UNCHANGED vars
    BY <2>4, Unseen DEF vars
  <2> QED
    BY <2>1, <2>2, <2>3, <2>4 DEF Next
<1> QED
  BY <1>1, <1>2, Invariance, PTL DEF ImplementsContract, Contract!Spec, Spec

-----------------------------------------------------------------------------
(* The in-flight counter of the prefetch workers: each step of a worker    *)
(* moves it and the set of the workers that were charged together. The     *)
(* comparison with the budget (WPass) has no part in the argument: it is   *)
(* made long before the charge (WOwn), and limits nothing afterwards.      *)

Charged == {w \in Workers : wkr[w].pc \in {"copy", "settle"}}

USE WorkersAssumption
HIDE DEF FREE, FILLING, READY, RESIDENT, SlotStates, Published, ReaderPoints,
         WindowPoints, ReaderLocals, WindowLocals, IInv, Where, Serving, Stage

(* A worker joins or leaves the charged workers. *)
LEMMA JoinOrLeave ==
  ASSUME NEW w \in Workers
  PROVE  /\ Cardinality(Charged) \in Nat
         /\ w \notin Charged => Cardinality(Charged \cup {w}) = Cardinality(Charged) + 1
         /\ w \in Charged => Cardinality(Charged \ {w}) = Cardinality(Charged) - 1
<1>1. Charged \in SUBSET Workers
  BY DEF Charged
<1>2. IsFiniteSet(Charged)
  BY <1>1, FS_Subset
<1>. QED BY <1>2, FS_CardinalityType, FS_AddElement, FS_RemoveElement

(* A move of worker w changes the set at w only. *)
LEMMA ChargedAfterMove ==
  ASSUME TypeOK, NEW w \in Workers, NEW e, NEW k, NEW R, NEW p,
         WorkerMoves(w, p, e, k, R)
  PROVE  Charged' = IF p \in {"copy", "settle"} THEN Charged \cup {w} ELSE Charged \ {w}
<1>1. wkr'[w].pc = p /\ \A v \in Workers : v # w => wkr'[v] = wkr[v]
  BY DEF TypeOK, WorkerMoves
<1> QED
  BY <1>1 DEF Charged

(* Every step of a worker keeps the count. *)
LEMMA CountOfWorkers ==
  ASSUME TypeOK, inflight = Cardinality(Charged), NEW w \in Workers,
         WorkerStep(w) \/ \E e \in Experts : WStart(w, e)
  PROVE  inflight' = Cardinality(Charged)'
<1>1. ASSUME NEW e \in Experts, WStart(w, e) PROVE Charged' = Charged /\ inflight' = inflight
  BY <1>1, ChargedAfterMove DEF WStart, Charged
<1>2. CASE WDrop(w)
  <2>1. Charged' = Charged
    BY <1>2, ChargedAfterMove DEF WDrop, Refused, WorkerForgets, Charged
  <2>2. inflight' = inflight
    BY <1>2 DEF WDrop
  <2> QED
    BY <2>1, <2>2
<1>3. ASSUME NEW p \in {"hot", "pool", "lut", "budget"}, NEW q \in {"pool", "lut", "budget", "claim"},
             WPass(w, p, q)
      PROVE  Charged' = Charged /\ inflight' = inflight
  BY <1>3, ChargedAfterMove DEF WPass, WorkerGoes, Charged
<1>4. CASE WClaim(w) \/ WClaimNext(w) \/ WEnter(w) \/ WEnterLost(w)
  <2>1. Charged' = Charged
    BY <1>4, ChargedAfterMove DEF WClaim, WClaimNext, WEnter, WEnterLost, WorkerGoes, Charged
  <2>2. inflight' = inflight
    BY <1>4 DEF WClaim, WClaimNext, WEnter, WEnterLost
  <2> QED
    BY <2>1, <2>2
<1>5. CASE WClaimFull(w) \/ WLost(w)
  <2>1. Charged' = Charged
    BY <1>5, ChargedAfterMove DEF WClaimFull, WLost, WorkerForgets, Charged
  <2>2. inflight' = inflight
    BY <1>5 DEF WClaimFull, WLost
  <2> QED
    BY <2>1, <2>2
<1>6. CASE WOwn(w)
  <2>1. Charged' = Charged \cup {w} /\ w \notin Charged
    BY <1>6, ChargedAfterMove DEF WOwn, Charged
  <2>2. Cardinality(Charged') = Cardinality(Charged) + 1
    BY <2>1, JoinOrLeave
  <2>3. inflight' = inflight + 1
    BY <1>6 DEF WOwn
  <2> QED
    BY <2>2, <2>3
<1>7. CASE WCopy(w) \/ WReady(w)
  <2>1. Charged' = Charged
    <3>1. CASE WCopy(w)
      <4>1. PICK t \in wkr[w].rem : WorkerMoves(w, "copy", wkr[w].e, wkr[w].k, wkr[w].rem \ {t})
        BY <3>1 DEF WCopy
      <4> QED
        BY <3>1, <4>1, ChargedAfterMove DEF WCopy, Charged
    <3>2. CASE WReady(w)
      BY <3>2, ChargedAfterMove DEF WReady, WorkerForgets, Charged
    <3> QED
      BY <1>7, <3>1, <3>2
  <2>2. inflight' = inflight
    BY <1>7 DEF WCopy, WReady
  <2> QED
    BY <2>1, <2>2
<1>8. CASE WSettle(w)
  <2>1. Charged' = Charged \ {w} /\ w \in Charged
    BY <1>8, ChargedAfterMove DEF WSettle, WorkerForgets, Charged
  <2>2. Cardinality(Charged') = Cardinality(Charged) - 1
    BY <2>1, JoinOrLeave
  <2>3. inflight' = inflight - 1
    BY <1>8 DEF WSettle
  <2> QED
    BY <2>2, <2>3
<1> QED
  BY <1>1, <1>2, <1>3, <1>4, <1>5, <1>6, <1>7, <1>8 DEF WorkerStep, WCheck

(* The window and the compute threads touch neither counter nor workers. *)
LEMMA CountOfOthers ==
  ASSUME inflight = Cardinality(Charged), UNCHANGED <<inflight, wkr>>
  PROVE  inflight' = Cardinality(Charged)'
<1>1. Charged' = Charged
  BY DEF Charged
<1> QED
  BY <1>1

(* However the checks, the charges and the discharges of any number of      *)
(* workers interleave, the counter is the number of copies under way.       *)
THEOREM InflightIsExact == Spec => []InflightExact
<1>1. Init => InflightExact
  <2> SUFFICES ASSUME Init PROVE InflightExact
    OBVIOUS
  <2>1. Charged = {} /\ inflight = 0
    BY DEF Init, Charged
  <2> QED
    BY <2>1, FS_EmptySet DEF InflightExact, Charged
<1>2. TypeOK /\ InflightExact /\ [Next]_vars => InflightExact'
  <2> SUFFICES ASSUME TypeOK, InflightExact, [Next]_vars PROVE inflight' = Cardinality(Charged)'
    BY DEF InflightExact, Charged
  <2>1. inflight = Cardinality(Charged)
    BY DEF InflightExact, Charged
  <2>2. CASE \E w \in Workers : WorkerStep(w) \/ \E e \in Experts : WStart(w, e)
    BY <2>1, <2>2, CountOfWorkers
  <2>3. CASE \E r \in Readers : ReaderStep(r) \/ \E e \in Experts : RStart(r, e)
    BY <2>1, <2>3, CountOfOthers DEF ReaderStep, RStart, RLut, RState, ROwner, RMiss,
       RDone, ReaderForgets, ReaderMoves
  <2>4. CASE WindowBegin \/ WindowStep
    BY <2>1, <2>4, CountOfOthers DEF WindowBegin, WindowStep, Publish, PublishDone,
       Count, CountDone, Evict, EvictDone, ReleaseLut, ReleaseOwner,
       ReleaseFree, Repin, Refill, RepinSkip, Upload, Unpool, RefillSkip,
       PoolCopy, PoolLut, CopiedThen, ReleaseThen, WindowGoes, WindowForgets,
       WindowMoves
  <2>5. CASE UNCHANGED vars
    BY <2>1, <2>5, CountOfOthers DEF vars
  <2> QED
    BY <2>2, <2>3, <2>4, <2>5 DEF Next
<1> QED
  BY <1>1, <1>2, TypeCorrect, PTL DEF Spec
=============================================================================
