--------------------------- MODULE TierPlacement ---------------------------
(***************************************************************************)
(* Where the experts of one layer live, and how the update() window moves  *)
(* them (the adaptive part of maybe_update, pool_fill, pool_evict,         *)
(* pool_publish; src/src/llama-expert-tier.cpp). An expert is computed on  *)
(* the device from a hot slot, when the device table lut names one, or on  *)
(* the CPU from the address in ptrs, when its mask is set; the zeroed      *)
(* sentinel slot stands in for every cold expert on the device.            *)
(*                                                                         *)
(* Nothing else runs during the window. What the speculative pool adds is  *)
(* modelled in SpecPool, the upload in H2DStage.                           *)
(*                                                                         *)
(* Abstracted: the scores, decayed sums of routing counts (any integers up *)
(* to MaxScore), and the bytes (named by their expert).                    *)
(***************************************************************************)
EXTENDS Integers, FiniteSets, Functions

CONSTANTS Experts,     \* experts of the layer, integers (ties go to the least)
          LayerSlots,  \* hot slots budgeted for the layer
          PoolSlots,   \* slots of the demand pool, integers
          MinDwell,    \* windows an expert stays at least: 32
          MaxScore,    \* bound on the scores
          SlotFits,    \* whether a pool slot is within the fill budget of a window
          None,        \* "no expert", "no slot": -1
          Mmap,        \* address of an expert's slice in the mapping
          Zero         \* the content of the sentinel slot

ASSUME TierAssumption ==
  /\ Experts \subseteq Int /\ PoolSlots \subseteq Int
  /\ LayerSlots \in Nat /\ MinDwell \in Nat /\ MaxScore \in Nat /\ SlotFits \in BOOLEAN
  /\ None \notin Experts /\ None \notin PoolSlots /\ None \notin 0..LayerSlots
  /\ Mmap \notin PoolSlots /\ Zero \notin Experts /\ Zero # None

(* n_slots = LayerSlots + 1: one of them is the sentinel. *)
Slots == 0..LayerSlots

VARIABLES
  sentinel,   \* index of the zeroed hot slot
  slotExpert, \* slot_expert: hot slot -> expert
  dwell,      \* windows since the hot slot was rewritten, up to MinDwell
  lutHost,    \* lut_host: expert -> hot slot or sentinel
  lut,        \* its copy on the device
  mask,       \* experts the CPU computes
  hotBytes,   \* content of the hot slots
  poolExpert, \* pool_slot_expert
  poolState,  \* pool_slot_state: 0 or 3
  poolLut,    \* pool_lut
  poolDwell,  \* pool_dwell, up to MinDwell
  poolBytes,  \* content of the pool slots
  ptrs,       \* expert -> pool slot or Mmap
  score,      \* placement_score
  pc          \* "graph", or the next part of the window: "hot", "pool"

hotVars == <<slotExpert, dwell, lutHost, lut, mask, hotBytes>>
poolVars == <<poolExpert, poolState, poolLut, poolDwell, poolBytes, ptrs>>
vars == <<sentinel, hotVars, poolVars, score, pc>>

Scores == 0..MaxScore

(* init: the hottest experts, as many as the layer has slots, or fewer when *)
(* the heat file names fewer (each once); with heat, the pool is filled with *)
(* the cold ones, from its first slot on.                                    *)
Init ==
  /\ sentinel \in Slots /\ sentinel <= Cardinality(Experts)
  /\ LayerSlots > 0 /\ Experts # {} => sentinel > 0
  /\ slotExpert \in {f \in [Slots -> Experts \cup {None}] :
                       /\ \A s \in Slots : (f[s] = None) <=> (s >= sentinel)
                       /\ IsInjective(Restrict(f, 0..(sentinel - 1)))}
  /\ dwell = [s \in Slots |-> 0]
  /\ lutHost = [e \in Experts |->
                  IF \E s \in Slots : slotExpert[s] = e
                  THEN CHOOSE s \in Slots : slotExpert[s] = e ELSE sentinel]
  /\ lut = lutHost
  /\ mask = {e \in Experts : lutHost[e] = sentinel}
  /\ hotBytes = [s \in Slots |-> IF s = sentinel THEN Zero ELSE slotExpert[s]]
  /\ poolExpert \in {f \in [PoolSlots -> mask \cup {None}] :
                       /\ \A j, k \in PoolSlots : j # k => f[j] # f[k] \/ f[j] = None
                       /\ \A j, k \in PoolSlots : j < k /\ f[k] # None => f[j] # None
                       /\ \/ \A k \in PoolSlots : f[k] = None
                          \/ \A k \in PoolSlots : f[k] # None
                          \/ mask \subseteq {f[k] : k \in PoolSlots}}
  /\ poolState = [k \in PoolSlots |-> IF poolExpert[k] = None THEN 0 ELSE 3]
  /\ poolLut = [e \in Experts |->
                  IF \E k \in PoolSlots : poolExpert[k] = e
                  THEN CHOOSE k \in PoolSlots : poolExpert[k] = e ELSE None]
  /\ poolDwell = [k \in PoolSlots |-> 0]
  /\ poolBytes = poolExpert
  /\ ptrs = [e \in Experts |-> IF poolLut[e] = None THEN Mmap ELSE poolLut[e]]
  /\ score = [e \in Experts |-> 0]
  /\ pc = "graph"

(* What a cold operator reads for expert e. *)
At(e) == IF ptrs[e] = Mmap THEN e ELSE poolBytes[ptrs[e]]

Tick(n) == IF n < MinDwell THEN n + 1 ELSE n

-----------------------------------------------------------------------------
(* The graph has run; the window updates the scores. *)
Observe ==
  /\ pc = "graph"
  /\ score' \in [Experts -> Scores]
  /\ pc' = "hot"
  /\ UNCHANGED <<sentinel, hotVars, poolVars>>

(* An empty slot counts as score 0. *)
Heat(e) == IF e = None THEN 0 ELSE score[e]

(* The first of the coldest slots but the sentinel; the first of the hottest *)
(* experts of a set, if it has any score at all.                             *)
ColdestOf(S, expert) ==
  {s \in S : \A r \in S : \/ Heat(expert[s]) < Heat(expert[r])
                          \/ Heat(expert[s]) = Heat(expert[r]) /\ s <= r}
ColdestWithSentinel == ColdestOf(Slots, slotExpert)
ColdestSlots == ColdestOf(Slots \ {sentinel}, slotExpert)
HottestOf(S) ==
  {e \in S : /\ score[e] > 0
             /\ \A f \in S : score[f] < score[e] \/ (score[f] = score[e] /\ e <= f)}

(* The newcomer has to be hotter by half, and the occupant to have stayed. *)
MayReplace(old, stay, e) ==
  \/ old = None
  \/ stay >= MinDwell /\ 2 * score[e] > 3 * Heat(old)

Repinnable(s, e) ==
  /\ s \in ColdestSlots /\ e \in HottestOf(mask)
  /\ MayReplace(slotExpert[s], Tick(dwell[s]), e)

SwapMask(e, old) == (mask \ {e}) \cup ({old} \ {None})

(* The promoted expert's demand-pool slot is given back. *)
GiveUpKeepsAddress(e) ==
  IF poolLut[e] = None THEN UNCHANGED poolVars
  ELSE /\ poolExpert' = [poolExpert EXCEPT ![poolLut[e]] = None]
       /\ poolState' = [poolState EXCEPT ![poolLut[e]] = 0]
       /\ poolLut' = [poolLut EXCEPT ![e] = None]
       /\ poolDwell' = [poolDwell EXCEPT ![poolLut[e]] = 0]
       /\ UNCHANGED <<poolBytes, ptrs>>

GiveUpPoolSlot(e) ==
  IF poolLut[e] = None THEN UNCHANGED poolVars
  ELSE /\ poolExpert' = [poolExpert EXCEPT ![poolLut[e]] = None]
       /\ poolState' = [poolState EXCEPT ![poolLut[e]] = 0]
       /\ poolLut' = [poolLut EXCEPT ![e] = None]
       /\ poolDwell' = [poolDwell EXCEPT ![poolLut[e]] = 0]
       /\ ptrs' = [ptrs EXCEPT ![e] = Mmap]
       /\ UNCHANGED poolBytes

(* The hottest cold expert takes the coldest hot slot. *)
Repin(s, e) ==
  /\ pc = "hot" /\ Repinnable(s, e)
  /\ lutHost' = [f \in Experts |-> IF f = e THEN s
                                   ELSE IF f = slotExpert[s] THEN sentinel ELSE lutHost[f]]
  /\ hotBytes' = [hotBytes EXCEPT ![s] = At(e)]
  /\ lut' = lutHost'
  /\ mask' = SwapMask(e, slotExpert[s])
  /\ GiveUpPoolSlot(e)
  /\ slotExpert' = [slotExpert EXCEPT ![s] = e]
  /\ dwell' = [r \in Slots |-> IF r = s THEN 0 ELSE Tick(dwell[r])]
  /\ pc' = "pool"
  /\ UNCHANGED <<sentinel, score>>

NoRepinNoTick ==
  /\ pc = "hot" /\ ~\E s \in Slots, e \in Experts : Repinnable(s, e)
  /\ pc' = "pool"
  /\ UNCHANGED <<sentinel, hotVars, poolVars, score>>

NoRepin ==
  /\ pc = "hot" /\ ~\E s \in Slots, e \in Experts : Repinnable(s, e)
  /\ dwell' = [r \in Slots |-> Tick(dwell[r])]
  /\ pc' = "pool"
  /\ UNCHANGED <<sentinel, slotExpert, lutHost, lut, mask, hotBytes, poolVars, score>>

-----------------------------------------------------------------------------
(* The same one level down: the hottest expert neither hot nor pooled takes *)
(* the coldest pool slot (pool_evict, then pool_fill).                      *)

Unpooled == {e \in mask : poolLut[e] = None}

Fillable(k, e) ==
  /\ SlotFits
  /\ k \in ColdestOf(PoolSlots, poolExpert) /\ e \in HottestOf(Unpooled)
  /\ MayReplace(poolExpert[k], Tick(poolDwell[k]), e)

Evicted(old) == [f \in Experts |-> IF f = old THEN None ELSE poolLut[f]]
EvictedPtrs(old) == [f \in Experts |-> IF f = old THEN Mmap ELSE ptrs[f]]

PoolFill(k, e) ==
  /\ pc = "pool" /\ Fillable(k, e)
  /\ poolLut' = [Evicted(poolExpert[k]) EXCEPT ![e] = k]
  /\ ptrs' = [EvictedPtrs(poolExpert[k]) EXCEPT ![e] = k]
  /\ poolExpert' = [poolExpert EXCEPT ![k] = e]
  /\ poolState' = [poolState EXCEPT ![k] = 3]
  /\ poolBytes' = [poolBytes EXCEPT ![k] = e]
  /\ poolDwell' = [j \in PoolSlots |-> IF j = k THEN 0 ELSE Tick(poolDwell[j])]
  /\ pc' = "graph"
  /\ UNCHANGED <<sentinel, hotVars, score>>

NoPoolFill ==
  /\ pc = "pool" /\ ~\E k \in PoolSlots, e \in Experts : Fillable(k, e)
  /\ poolDwell' = [j \in PoolSlots |-> Tick(poolDwell[j])]
  /\ pc' = "graph"
  /\ UNCHANGED <<sentinel, hotVars, poolExpert, poolState, poolLut, poolBytes, ptrs, score>>

-----------------------------------------------------------------------------
Next ==
  \/ Observe
  \/ \E s \in Slots, e \in Experts : Repin(s, e)
  \/ NoRepin
  \/ \E k \in PoolSlots, e \in Experts : PoolFill(k, e)
  \/ NoPoolFill

Spec == Init /\ [][Next]_vars

(* Graphs, and the windows after them, go on. *)
FairSpec == Spec /\ WF_vars(Next)

-----------------------------------------------------------------------------
(* Properties.                                                             *)

TypeOK ==
  /\ sentinel \in Slots
  /\ slotExpert \in [Slots -> Experts \cup {None}]
  /\ dwell \in [Slots -> 0..MinDwell]
  /\ lutHost \in [Experts -> Slots] /\ lut \in [Experts -> Slots]
  /\ mask \in SUBSET Experts
  /\ hotBytes \in [Slots -> Experts \cup {Zero, None}]
  /\ poolExpert \in [PoolSlots -> Experts \cup {None}]
  /\ poolState \in [PoolSlots -> {0, 3}]
  /\ poolLut \in [Experts -> PoolSlots \cup {None}]
  /\ poolDwell \in [PoolSlots -> 0..MinDwell]
  /\ poolBytes \in [PoolSlots -> Experts \cup {None}]
  /\ ptrs \in [Experts -> PoolSlots \cup {Mmap}]
  /\ score \in [Experts -> Scores]
  /\ pc \in {"graph", "hot", "pool"}

(* Every expert is computed exactly once, from its own weights: on the      *)
(* device from the slot in lut or on the CPU from the address in ptrs; for  *)
(* what the CPU computes the device adds zero.                              *)
ComputedOnce ==
  /\ hotBytes[sentinel] = Zero
  /\ \A e \in Experts :
       IF e \in mask THEN lut[e] = sentinel /\ At(e) = e
       ELSE lut[e] # sentinel /\ hotBytes[lut[e]] = e

(* The redundant tables agree: hot slots and pool slots with the experts    *)
(* they hold, in both directions, and no expert is in both.                 *)
TablesAgree ==
  /\ \A s \in Slots, e \in Experts :
       (slotExpert[s] = e) <=> (lutHost[e] = s /\ s # sentinel)
  /\ \A k \in PoolSlots, e \in Experts : (poolExpert[k] = e) <=> (poolLut[e] = k)
  /\ \A k \in PoolSlots : (poolState[k] = 0) <=> (poolExpert[k] = None)
  /\ \A e \in Experts : ptrs[e] = IF poolLut[e] = None THEN Mmap ELSE poolLut[e]
  /\ \A e \in Experts : poolLut[e] # None => e \in mask

(* Hysteresis delays, it does not starve: once the scores stop changing, no *)
(* cold expert stays hotter by half than the occupant of a hot slot, and    *)
(* none outside the pool than the occupant of a pool slot.                  *)
Balanced ==
  /\ \A e \in mask, s \in Slots \ {sentinel} : 2 * score[e] <= 3 * Heat(slotExpert[s])
  /\ \A e \in Unpooled, k \in PoolSlots : 2 * score[e] <= 3 * Heat(poolExpert[k])
Converges == <>[][score' = score]_vars => <>[]Balanced
=============================================================================
