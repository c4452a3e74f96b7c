------------------------------ MODULE SpecPool ------------------------------
(***************************************************************************)
(* The speculative pool of one MoE layer (src/src/llama-expert-tier.cpp):  *)
(* a handful of host-RAM slots that background prefetch workers fill with  *)
(* predicted experts while the graph computes, and from which the cold CPU *)
(* operators read without a lock.                                          *)
(*                                                                         *)
(* Three kinds of threads share the slots:                                 *)
(*   - the prefetch workers, one run of prefetch_fill at a time each;      *)
(*   - the thread that runs the graph and, between two graphs, the         *)
(*     update() window (maybe_update: publish, evict, promote, pool fill); *)
(*   - the compute threads of the graph, which call pregate_probe.         *)
(* The window and the compute threads exclude each other (the window runs  *)
(* after ggml_backend_sched_synchronize); the workers run beside both.     *)
(* Each atomic operation on a word that another thread may write at the    *)
(* time is a step of its own.                                              *)
(*                                                                         *)
(* Abstracted: which expert the scores choose (any cold one), the          *)
(* timestamps that order evictions (any published slot may be the oldest), *)
(* the prediction queue (any expert may be asked for; see PrefetchQueue),  *)
(* and the bytes (a tensor slice is named by the expert it belongs to).    *)
(***************************************************************************)
EXTENDS Integers, FiniteSets

CONSTANTS Experts,    \* routed experts of the layer
          Workers,    \* prefetch threads
          Readers,    \* compute threads probing the pool
          Tensors,    \* tiered weight tensors of the layer (gate, up, down)
          NSlots,     \* slots of the speculative pool (n_slotsB)
          HotSlots,   \* hot slots of the layer, without the sentinel
          PoolSlots,  \* slots of the demand RAM pool
          Budget,     \* in-flight budget, in slots (g_work_budget)
          None        \* "no expert" and "no slot": -1 in the code

ASSUME NSlotsAssumption == NSlots \in Nat \ {0}
ASSUME WorkersAssumption == IsFiniteSet(Workers) /\ Workers # {}
ASSUME CapacityAssumption ==
  HotSlots \in Nat /\ PoolSlots \in Nat /\ Budget \in Nat
ASSUME NoneAssumption == None \notin Experts /\ None \notin 0..NSlots

Slots == 0..(NSlots - 1)

(* The slots the window leaves free for the workers. *)
Target == NSlots \div 4 + 1

FREE     == "free"
FILLING  == "filling"
READY    == "ready"
RESIDENT == "resident"
SlotStates == {FREE, FILLING, READY, RESIDENT}
Published  == {READY, RESIDENT}

VARIABLES
  stateB,    \* the residency word of each slot
  ownersB,   \* the expert of each slot, a plain integer in the code
  lutB,      \* expert -> slot, an atomic word per expert
  bytes,     \* the expert whose slice each tensor of a slot holds
  inflight,  \* slots being copied (g_work_inflight)
  hot,       \* experts with a hot slot: lut_host[e] # sentinel
  pooled,    \* experts in the demand pool: pool_lut[e] >= 0
  wkr,       \* worker -> program point, expert, slot, tensors left to copy
  rd,        \* compute thread -> program point, expert, slot
  win        \* window: program point, slot, expert, source slot, free slots
             \* counted, and the point to return to after a release

slotVars == <<stateB, ownersB, lutB, bytes>>
tierVars == <<hot, pooled>>
vars == <<slotVars, inflight, tierVars, wkr, rd, win>>

WorkerPoints == {"idle", "hot", "pool", "lut", "budget", "claim", "enter",
                 "lost", "own", "copy", "settle"}
ReaderPoints == {"idle", "lut", "state", "owner", "read"}
WindowPoints == {"compute", "publish", "count", "evict", "repin", "upload",
                 "unpool", "refill", "poolcopy", "poollut",
                 "rlut", "rowner", "rfree"}

WorkerLocals == [pc : WorkerPoints, e : Experts \cup {None}, k : 0..NSlots,
                 rem : SUBSET Tensors]
ReaderLocals == [pc : ReaderPoints, e : Experts \cup {None}, k : Slots \cup {None}]
WindowLocals == [pc : WindowPoints, k : 0..NSlots, e : Experts \cup {None},
                 src : Slots \cup {None}, free : 0..NSlots,
                 ret : {"compute", "publish", "evict", "unpool", "poollut"}]

Init ==
  /\ stateB = [k \in Slots |-> FREE]
  /\ ownersB = [k \in Slots |-> None]
  /\ lutB = [e \in Experts |-> None]
  /\ bytes = [k \in Slots |-> [t \in Tensors |-> None]]
  /\ inflight = 0
  /\ hot \in {H \in SUBSET Experts : Cardinality(H) <= HotSlots}
  /\ pooled \in {P \in SUBSET (Experts \ hot) : Cardinality(P) <= PoolSlots}
  /\ wkr = [w \in Workers |-> [pc |-> "idle", e |-> None, k |-> 0, rem |-> {}]]
  /\ rd = [r \in Readers |-> [pc |-> "idle", e |-> None, k |-> None]]
  /\ win = [pc |-> "compute", k |-> 0, e |-> None, src |-> None, free |-> 0,
            ret |-> "compute"]

-----------------------------------------------------------------------------
(* prefetch_fill, by worker w.                                             *)

WorkerMoves(w, point, expert, slot, rest) ==
  /\ wkr' = [wkr EXCEPT ![w] = [pc |-> point, e |-> expert, k |-> slot, rem |-> rest]]
  /\ UNCHANGED <<tierVars, rd, win>>
WorkerGoes(w, point) == WorkerMoves(w, point, wkr[w].e, wkr[w].k, wkr[w].rem)
WorkerForgets(w, point) == WorkerMoves(w, point, None, 0, {})

(* A worker takes a request for expert e. *)
WStart(w, e) ==
  /\ wkr[w].pc = "idle"
  /\ WorkerMoves(w, "hot", e, 0, {})
  /\ UNCHANGED <<slotVars, inflight>>

(* Dropped: an expert that is hot, in the demand pool, or in the table     *)
(* already, and any when the budget, charged later in WOwn, is spent. Each *)
(* is one read of a shared word.                                           *)
Refused(w, point) ==
  \/ point = "hot" /\ wkr[w].e \in hot
  \/ point = "pool" /\ wkr[w].e \in pooled
  \/ point = "lut" /\ lutB[wkr[w].e] # None
  \/ point = "budget" /\ inflight + 1 > Budget

WDrop(w) ==
  /\ Refused(w, wkr[w].pc)
  /\ WorkerForgets(w, "idle")
  /\ UNCHANGED <<slotVars, inflight>>

WPass(w, point, next) ==
  /\ wkr[w].pc = point /\ ~Refused(w, point)
  /\ WorkerGoes(w, next)
  /\ UNCHANGED <<slotVars, inflight>>

WCheck(w) ==
  \/ WDrop(w)
  \/ WPass(w, "hot", "pool") \/ WPass(w, "pool", "lut")
  \/ WPass(w, "lut", "budget") \/ WPass(w, "budget", "claim")

(* Scan for a free slot, one compare-exchange FREE -> FILLING per slot. *)
WClaim(w) ==
  /\ wkr[w].pc = "claim" /\ wkr[w].k \in Slots
  /\ stateB[wkr[w].k] = FREE
  /\ stateB' = [stateB EXCEPT ![wkr[w].k] = FILLING]
  /\ WorkerGoes(w, "enter")
  /\ UNCHANGED <<ownersB, lutB, bytes, inflight>>

WClaimNext(w) ==
  /\ wkr[w].pc = "claim" /\ wkr[w].k \in Slots
  /\ stateB[wkr[w].k] # FREE
  /\ WorkerMoves(w, "claim", wkr[w].e, wkr[w].k + 1, {})
  /\ UNCHANGED <<slotVars, inflight>>

WClaimFull(w) ==
  /\ wkr[w].pc = "claim" /\ wkr[w].k = NSlots
  /\ WorkerForgets(w, "idle")
  /\ UNCHANGED <<slotVars, inflight>>

(* Enter the expert in the table, unless another worker got there first. *)
WEnterByStore(w) ==
  /\ wkr[w].pc = "enter"
  /\ lutB' = [lutB EXCEPT ![wkr[w].e] = wkr[w].k]
  /\ WorkerGoes(w, "own")
  /\ UNCHANGED <<stateB, ownersB, bytes, inflight>>

WEnter(w) ==
  /\ wkr[w].pc = "enter"
  /\ lutB[wkr[w].e] = None
  /\ lutB' = [lutB EXCEPT ![wkr[w].e] = wkr[w].k]
  /\ WorkerGoes(w, "own")
  /\ UNCHANGED <<stateB, ownersB, bytes, inflight>>

WEnterLost(w) ==
  /\ wkr[w].pc = "enter"
  /\ lutB[wkr[w].e] # None
  /\ WorkerGoes(w, "lost")
  /\ UNCHANGED <<slotVars, inflight>>

(* The loser of that race gives its slot back. *)
WLostLeaks(w) ==
  /\ wkr[w].pc = "lost"
  /\ WorkerForgets(w, "idle")
  /\ UNCHANGED <<slotVars, inflight>>

WLost(w) ==
  /\ wkr[w].pc = "lost"
  /\ stateB' = [stateB EXCEPT ![wkr[w].k] = FREE]
  /\ WorkerForgets(w, "idle")
  /\ UNCHANGED <<ownersB, lutB, bytes, inflight>>

(* Sign the slot and charge the copy to the in-flight counter. *)
WOwn(w) ==
  /\ wkr[w].pc = "own"
  /\ ownersB' = [ownersB EXCEPT ![wkr[w].k] = wkr[w].e]
  /\ inflight' = inflight + 1
  /\ WorkerMoves(w, "copy", wkr[w].e, wkr[w].k, Tensors)
  /\ UNCHANGED <<stateB, lutB, bytes>>

(* Copy one tensor's slice, by pread or from the mapping. *)
WCopy(w) ==
  /\ wkr[w].pc = "copy"
  /\ \E t \in wkr[w].rem :
       /\ bytes' = [bytes EXCEPT ![wkr[w].k][t] = wkr[w].e]
       /\ WorkerMoves(w, "copy", wkr[w].e, wkr[w].k, wkr[w].rem \ {t})
  /\ UNCHANGED <<stateB, ownersB, lutB, inflight>>

WReady(w) ==
  /\ wkr[w].pc = "copy" /\ wkr[w].rem = {}
  /\ stateB' = [stateB EXCEPT ![wkr[w].k] = READY]
  /\ WorkerForgets(w, "settle")
  /\ UNCHANGED <<ownersB, lutB, bytes, inflight>>

WSettleUncharged(w) ==
  /\ wkr[w].pc = "settle"
  /\ WorkerForgets(w, "idle")
  /\ UNCHANGED <<slotVars, inflight>>

WSettle(w) ==
  /\ wkr[w].pc = "settle"
  /\ inflight' = inflight - 1
  /\ WorkerForgets(w, "idle")
  /\ UNCHANGED slotVars

WorkerStep(w) ==
  \/ WCheck(w) \/ WClaim(w) \/ WClaimNext(w) \/ WClaimFull(w)
  \/ WEnter(w) \/ WEnterLost(w) \/ WLost(w)
  \/ WOwn(w) \/ WCopy(w) \/ WReady(w) \/ WSettle(w)

-----------------------------------------------------------------------------
(* pregate_probe, by compute thread r of a cold operator.                  *)

ReaderMoves(r, point, expert, slot) ==
  /\ rd' = [rd EXCEPT ![r] = [pc |-> point, e |-> expert, k |-> slot]]
  /\ UNCHANGED <<slotVars, inflight, tierVars, wkr, win>>

(* Otherwise the address in the ptrs table is used. *)
ReaderForgets(r) == ReaderMoves(r, "idle", None, None)

RStart(r, e) ==
  /\ win.pc = "compute" /\ rd[r].pc = "idle"
  /\ e \notin hot
  /\ ReaderMoves(r, "lut", e, None)

RLut(r) ==
  /\ rd[r].pc = "lut"
  /\ lutB[rd[r].e] # None
  /\ ReaderMoves(r, "state", rd[r].e, lutB[rd[r].e])

(* A slot may be served from READY on (state >= 2). *)
ServableFromFilling(k) == stateB[k] # FREE
Servable(k) == stateB[k] \in Published

RState(r) ==
  /\ rd[r].pc = "state"
  /\ Servable(rd[r].k)
  /\ ReaderMoves(r, "owner", rd[r].e, rd[r].k)

ROwner(r) ==
  /\ rd[r].pc = "owner"
  /\ ownersB[rd[r].k] = rd[r].e
  /\ ReaderMoves(r, "read", rd[r].e, rd[r].k)

(* The probe misses: the table, the state or the owner says no. *)
RMiss(r) ==
  /\ \/ rd[r].pc = "lut" /\ lutB[rd[r].e] = None
     \/ rd[r].pc = "state" /\ ~Servable(rd[r].k)
     \/ rd[r].pc = "owner" /\ ownersB[rd[r].k] # rd[r].e
  /\ ReaderForgets(r)

(* The operator has finished reading the weights at the address it got. *)
RDone(r) == rd[r].pc = "read" /\ ReaderForgets(r)

ReaderStep(r) == RLut(r) \/ RState(r) \/ ROwner(r) \/ RMiss(r) \/ RDone(r)

-----------------------------------------------------------------------------
(* maybe_update, in the window between two graphs.                         *)

WindowMoves(point, slot, expert, source, free, ret) ==
  /\ win' = [pc |-> point, k |-> slot, e |-> expert, src |-> source,
             free |-> free, ret |-> ret]
  /\ UNCHANGED <<inflight, wkr, rd>>
WindowGoes(point) == WindowMoves(point, win.k, win.e, win.src, win.free, win.ret)
WindowForgets(point) == WindowMoves(point, 0, None, None, 0, "compute")

WindowBegin ==
  /\ win.pc = "compute"
  /\ \A r \in Readers : rd[r].pc = "idle"
  /\ WindowForgets("publish")
  /\ UNCHANGED <<slotVars, tierVars>>

(* Take slot k from expert e by the three stores below, then go to point. *)
ReleaseThen(k, e, free, point) == WindowMoves("rlut", k, e, win.src, free, point)

SupersededByHot(e) == e \in hot
Superseded(e) == e \in hot \cup pooled

(* READY slots are published; one whose expert went hot, or into the demand *)
(* pool, while it was filling is recycled instead.                          *)
Publish ==
  /\ win.pc = "publish" /\ win.k \in Slots
  /\ IF stateB[win.k] = READY /\ Superseded(ownersB[win.k])
     THEN ReleaseThen(win.k, ownersB[win.k], 0, "publish") /\ UNCHANGED stateB
     ELSE /\ WindowMoves("publish", win.k + 1, None, None, 0, "compute")
          /\ stateB' = [stateB EXCEPT ![win.k] = IF @ = READY THEN RESIDENT ELSE @]
  /\ UNCHANGED <<ownersB, lutB, bytes, tierVars>>

PublishDone ==
  /\ win.pc = "publish" /\ win.k = NSlots
  /\ WindowForgets("count")
  /\ UNCHANGED <<slotVars, tierVars>>

(* The free slots are counted one by one, while workers claim others. *)
Count ==
  /\ win.pc = "count" /\ win.k \in Slots
  /\ WindowMoves("count", win.k + 1, None, None,
                 win.free + (IF stateB[win.k] = FREE THEN 1 ELSE 0), "compute")
  /\ UNCHANGED <<slotVars, tierVars>>

CountDone ==
  /\ win.pc = "count" /\ win.k = NSlots
  /\ WindowMoves("evict", 0, None, None, win.free, "compute")
  /\ UNCHANGED <<slotVars, tierVars>>

EvictableWhileFilling(k) == stateB[k] # FREE
Evictable(k) == stateB[k] \in Published

(* Evict published slots until Target slots were free or were made free. *)

EvictUncounted ==
  /\ win.pc = "evict" /\ win.free < Target
  /\ \E k \in Slots :
       Evictable(k) /\ ReleaseThen(k, ownersB[k], win.free, "evict")
  /\ UNCHANGED <<slotVars, tierVars>>

Evict ==
  /\ win.pc = "evict" /\ win.free < Target
  /\ \E k \in Slots :
       /\ Evictable(k)
       /\ ReleaseThen(k, ownersB[k], win.free + 1, "evict")
  /\ UNCHANGED <<slotVars, tierVars>>

EvictDone ==
  /\ win.pc = "evict"
  /\ win.free >= Target \/ \A k \in Slots : ~Evictable(k)
  /\ WindowForgets("repin")
  /\ UNCHANGED <<slotVars, tierVars>>

(* lutB[e] := -1, ownersB[k] := -1, stateB[k] := FREE, in that order; the  *)
(* recycling and evicting loops and prefetch_release all do this.          *)
ReleaseLut ==
  /\ win.pc = "rlut"
  /\ lutB' = [lutB EXCEPT ![win.e] = None]
  /\ WindowGoes("rowner")
  /\ UNCHANGED <<stateB, ownersB, bytes, tierVars>>

ReleaseOwner ==
  /\ win.pc = "rowner"
  /\ ownersB' = [ownersB EXCEPT ![win.k] = None]
  /\ WindowGoes("rfree")
  /\ UNCHANGED <<stateB, lutB, bytes, tierVars>>

ReleaseFree ==
  /\ win.pc = "rfree"
  /\ stateB' = [stateB EXCEPT ![win.k] = FREE]
  /\ WindowMoves(win.ret, IF win.ret = "publish" THEN win.k + 1 ELSE 0,
                 IF win.ret \in {"publish", "evict"} THEN None ELSE win.e,
                 None, win.free, "compute")
  /\ UNCHANGED <<ownersB, lutB, bytes, tierVars>>

(* The slot the window may copy expert e from: prefetch_resident_slot. *)
TabledSlot(e) ==
  IF lutB[e] # None /\ ownersB[lutB[e]] = e THEN lutB[e] ELSE None

ResidentSlot(e) ==
  IF lutB[e] # None /\ stateB[lutB[e]] = RESIDENT /\ ownersB[lutB[e]] = e
  THEN lutB[e] ELSE None

(* A cold expert is promoted, into a free hot slot or over the expert old, *)
(* which gets cold: lut_host is stored before the weights are uploaded.    *)
Repin(e, old) ==
  /\ win.pc = "repin"
  /\ e \notin hot
  /\ IF old = None THEN Cardinality(hot) < HotSlots ELSE old \in hot
  /\ hot' = (hot \cup {e}) \ {old}
  /\ WindowMoves("upload", 0, e, IF e \in pooled THEN None ELSE ResidentSlot(e), 0, "compute")
  /\ UNCHANGED <<slotVars, pooled>>

RepinSkip == win.pc = "repin" /\ WindowGoes("refill") /\ UNCHANGED <<slotVars, tierVars>>

(* The weights have been read from the source slot; prefetch_release gives *)
(* it up if it is still the expert's RESIDENT slot.                        *)
CopiedThen(point) ==
  /\ IF win.src # None /\ ResidentSlot(win.e) = win.src
     THEN ReleaseThen(win.src, win.e, 0, point)
     ELSE WindowGoes(point)
  /\ UNCHANGED <<slotVars, tierVars>>

Upload == win.pc = "upload" /\ CopiedThen("unpool")

(* A promoted expert gives its demand-pool slot back. *)
Unpool ==
  /\ win.pc = "unpool"
  /\ pooled' = pooled \ {win.e}
  /\ WindowForgets("refill")
  /\ UNCHANGED <<slotVars, hot>>

(* A cold expert is chosen for the demand pool; a full pool evicts one. *)
Refill(e, old) ==
  /\ win.pc = "refill"
  /\ e \notin hot \cup pooled
  /\ IF old = None THEN Cardinality(pooled) < PoolSlots ELSE old \in pooled
  /\ pooled' = pooled \ {old}
  /\ WindowMoves("poolcopy", 0, e, ResidentSlot(e), 0, "compute")
  /\ UNCHANGED <<slotVars, hot>>

RefillSkip ==
  /\ win.pc = "refill"
  /\ WindowForgets("compute")
  /\ UNCHANGED <<slotVars, tierVars>>

PoolCopy == win.pc = "poolcopy" /\ CopiedThen("poollut")

PoolLut ==
  /\ win.pc = "poollut"
  /\ pooled' = pooled \cup {win.e}
  /\ WindowForgets("compute")
  /\ UNCHANGED <<slotVars, hot>>

WindowStep ==
  \/ Publish \/ PublishDone \/ Count \/ CountDone \/ Evict \/ EvictDone
  \/ ReleaseLut \/ ReleaseOwner \/ ReleaseFree
  \/ \E e \in Experts, old \in Experts \cup {None} : Repin(e, old) \/ Refill(e, old)
  \/ RepinSkip \/ Upload \/ Unpool \/ RefillSkip \/ PoolCopy \/ PoolLut

-----------------------------------------------------------------------------
Next ==
  \/ \E w \in Workers : WorkerStep(w) \/ \E e \in Experts : WStart(w, e)
  \/ \E r \in Readers : ReaderStep(r) \/ \E e \in Experts : RStart(r, e)
  \/ WindowBegin \/ WindowStep

Spec == Init /\ [][Next]_vars

(* Threads keep running: a request once taken and a window once begun are  *)
(* carried through. Nothing forces requests, probes or windows to begin.   *)
Fairness ==
  /\ \A w \in Workers : WF_vars(WorkerStep(w))
  /\ \A r \in Readers : WF_vars(ReaderStep(r))
  /\ WF_vars(WindowStep)

FairSpec == Spec /\ Fairness

-----------------------------------------------------------------------------
(* Properties.                                                             *)

(* Every variable keeps its type; the window's count of free slots never   *)
(* exceeds the pool.                                                       *)
TypeOK ==
  /\ stateB \in [Slots -> SlotStates]
  /\ ownersB \in [Slots -> Experts \cup {None}]
  /\ lutB \in [Experts -> Slots \cup {None}]
  /\ bytes \in [Slots -> [Tensors -> Experts \cup {None}]]
  /\ inflight \in Int
  /\ hot \in SUBSET Experts /\ pooled \in SUBSET Experts
  /\ wkr \in [Workers -> WorkerLocals]
  /\ rd \in [Readers -> ReaderLocals]
  /\ win \in WindowLocals
  /\ win.pc = "count" => win.free <= win.k

(* The worker between its claim of slot k and the store that ends it. *)
Holds(w, k) == wkr[w].pc \in {"enter", "lost", "own", "copy"} /\ wkr[w].k = k
Releasing(k) == win.pc \in {"rlut", "rowner", "rfree"} /\ win.k = k
HoldsOnly(k, e) == \A t \in Tensors : bytes[k][t] = e

(* A FILLING slot is some worker's and only one worker's, so no slot leaks  *)
(* out of the pool and no two workers write the same memory.               *)
FillingHeldOnce ==
  /\ \A k \in Slots : stateB[k] = FILLING <=> \E w \in Workers : Holds(w, k)
  /\ \A w, v \in Workers, k \in Slots : Holds(w, k) /\ Holds(v, k) => w = v

(* A published slot not being released is findable and complete: its owner's *)
(* table entry points back at it and every tensor holds the owner's slice.   *)
PublishedComplete ==
  \A k \in Slots :
    stateB[k] \in Published /\ ~Releasing(k) =>
      /\ ownersB[k] \in Experts
      /\ lutB[ownersB[k]] = k
      /\ HoldsOnly(k, ownersB[k])

(* "byte-identical correctness": as long as an operator reads a slot it got *)
(* from pregate_probe, every tensor of it is the expert that was asked for. *)
ProbeExact == \A r \in Readers : rd[r].pc = "read" => HoldsOnly(rd[r].k, rd[r].e)

(* The copies the window makes out of the pool (the upload of a promoted    *)
(* expert, the fill of a demand slot) read that expert and nothing else.    *)
SourceExact ==
  win.pc \in {"upload", "poolcopy"} /\ win.src # None => HoldsOnly(win.src, win.e)

(* While a graph computes, a RESIDENT slot is the only copy below the mmap: *)
(* its expert is neither hot nor in the demand pool, nor in another slot.   *)
ResidentExclusive ==
  win.pc = "compute" =>
    \A k \in Slots : stateB[k] = RESIDENT =>
      /\ ownersB[k] \notin hot \cup pooled
      /\ \A j \in Slots \ {k} : stateB[j] \in Published => ownersB[j] # ownersB[k]

(* "the prefetch worker only claims FREE->FILLING->READY": outside a        *)
(* release by the window, a slot never goes back to FREE.                   *)
OnlyWindowFrees ==
  [][\A k \in Slots : stateB[k] # FREE /\ stateB'[k] = FREE => win.pc = "rfree"]_vars

(* "Maximum in-flight prefetch data": copies under way fit in the budget.   *)
InflightCapped == inflight <= Budget

(* What is charged is given back: the in-flight counter is the number of    *)
(* workers between the charge and the discharge of a copy, whatever their   *)
(* interleaving. It returns to 0 when they rest; a charge that stayed would *)
(* count against every later prefetch of any layer.                         *)
InflightExact == inflight = Cardinality({w \in Workers : wkr[w].pc \in {"copy", "settle"}})

(* No slot stays FILLING for ever, and no window goes on evicting what the  *)
(* workers bring in.                                                        *)
FillEnds == \A k \in Slots : stateB[k] = FILLING ~> stateB[k] # FILLING
WindowEnds == win.pc # "compute" ~> win.pc = "compute"
FillsAndWindowsEnd == FillEnds /\ WindowEnds

-----------------------------------------------------------------------------
(* The inductive invariant behind the safety properties, in parts.         *)

(* What a worker knows of the expert and the slot it works on.             *)
WorkerInv ==
  \A w \in Workers :
    /\ wkr[w].pc \notin {"idle", "settle"} => wkr[w].e \in Experts
    /\ wkr[w].pc \in {"enter", "lost", "own", "copy"} =>
         wkr[w].k \in Slots /\ stateB[wkr[w].k] = FILLING
    /\ wkr[w].pc \in {"own", "copy"} => lutB[wkr[w].e] = wkr[w].k
    /\ wkr[w].pc = "copy" =>
         /\ ownersB[wkr[w].k] = wkr[w].e
         /\ \A t \in Tensors \ wkr[w].rem : bytes[wkr[w].k][t] = wkr[w].e

(* A table entry names the slot of a worker that is filling it with that   *)
(* expert, or a published slot of that expert.                             *)
TableInv ==
  \A e \in Experts : lutB[e] # None =>
    \/ \E w \in Workers : /\ wkr[w].pc \in {"own", "copy"}
                          /\ wkr[w].k = lutB[e] /\ wkr[w].e = e
    \/ stateB[lutB[e]] \in Published /\ ownersB[lutB[e]] = e

(* A slot under release is published, and findable until its first store.  *)
ReleaseInv ==
  /\ win.pc \in {"rlut", "rowner", "rfree"} =>
       win.k \in Slots /\ stateB[win.k] \in Published /\ win.e \in Experts
  /\ win.pc = "rlut" => ownersB[win.k] = win.e /\ lutB[win.e] = win.k
  /\ win.pc \in {"rowner", "rfree"} => \A e \in Experts : lutB[e] # win.k

(* Probes run only while no window does, and pin the slot they read.       *)
ReaderInv ==
  \A r \in Readers :
    /\ rd[r].pc # "idle" => win.pc = "compute" /\ rd[r].e \in Experts
    /\ rd[r].pc \in {"state", "owner", "read"} => rd[r].k \in Slots
    /\ rd[r].pc \in {"owner", "read"} => stateB[rd[r].k] \in Published
    /\ rd[r].pc = "read" => ownersB[rd[r].k] = rd[r].e

(* The window's source slot is the expert's RESIDENT copy.                 *)
SourceInv ==
  /\ win.pc \in {"upload", "unpool", "poolcopy", "poollut"} => win.e \in Experts
  /\ win.pc \in {"upload", "poolcopy"} /\ win.src # None =>
       stateB[win.src] = RESIDENT /\ ownersB[win.src] = win.e /\ lutB[win.e] = win.src

(* A RESIDENT slot not under release duplicates neither the demand pool    *)
(* nor, but for the source of the upload under way, the hot slots; and no  *)
(* such slot but the source holds the expert that is on its way to the     *)
(* demand pool.                                                            *)
ExclusiveInv ==
  \A k \in Slots : stateB[k] = RESIDENT /\ ~Releasing(k) =>
    /\ ownersB[k] \notin pooled
    /\ ownersB[k] \in hot => win.pc = "upload" /\ win.src = k
    /\ \/ win.pc = "poolcopy" /\ win.src # k
       \/ win.pc = "poollut"
       \/ win.pc \in {"rlut", "rowner", "rfree"} /\ win.ret = "poollut"
       => ownersB[k] # win.e

IInv == /\ TypeOK /\ FillingHeldOnce /\ PublishedComplete
        /\ WorkerInv /\ TableInv /\ ReleaseInv /\ ReaderInv /\ SourceInv
        /\ ExclusiveInv

-----------------------------------------------------------------------------
(* The pool implements the residency contract: an expert is where its table *)
(* entry's slot is, and a compute thread is served while it reads.          *)
Stage(e) == IF lutB[e] = None THEN FREE ELSE stateB[lutB[e]]
Contract == INSTANCE ResidencyContract WITH
  where <- [e \in Experts |-> Stage(e)],
  serving <- [r \in Readers |-> IF rd[r].pc = "read" THEN rd[r].e ELSE None]
ImplementsContract == Contract!Spec
=============================================================================
