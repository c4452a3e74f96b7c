--------------------------- MODULE H2DStageProofs ---------------------------
(***************************************************************************)
(* Proofs about the host-to-device stage: for any regions and experts, any *)
(* number of pinned slots and any bound on the generations.                *)
(*                                                                         *)
(* What a graph reads is exact because nothing is under way when it runs:  *)
(* outside of the window every slot in flight is awaited (WaitInv), the    *)
(* wait of a copy that is not complete is still in the stream, and a graph *)
(* is the last entry of the stream (StreamInv). What is in a region is     *)
(* then what the last copy put there (DataInv).                            *)
(***************************************************************************)
EXTENDS H2DStage, SequenceTheorems, TLAPS

(* A slot in flight is an upload of a generation the region has reached.   *)
SlotInv ==
  \A k \in Slots : slot[k].flight =>
    slot[k].region \in Regions /\ slot[k].gen \in 1..generation[slot[k].region]

(* A region without a copy under way holds what is wanted there, the last  *)
(* of its copies brings it.                                                *)
Targets(i, r) == copies[i].region = r
IsLast(i, r) == Targets(i, r) /\ \A j \in DOMAIN copies : j > i => ~Targets(j, r)
DataInv ==
  /\ \A r \in Regions :
       (\A i \in DOMAIN copies : ~Targets(i, r)) => device[r] = wanted[r]
  /\ \A r \in Regions, i \in DOMAIN copies :
       IsLast(i, r) => slot[copies[i].slot].data = wanted[r]
  /\ copying => copies # <<>>

Awaited(c) == \E n \in DOMAIN stream : Request(c.region, c.gen) \in stream[n].on
WaitInv ==
  /\ \A k \in Slots : slot[k].flight /\ ~slot[k].waited => host = "uploaded"
  /\ \A i \in DOMAIN copies : slot[copies[i].slot].waited => Awaited(copies[i])

StreamInv ==
  /\ \A n \in DOMAIN stream : stream[n] = Graph => n = Len(stream) /\ host = "graph"
  /\ running => stream # <<>> /\ Head(stream) = Graph

IInv == TypeOK /\ SlotInv /\ StagingStable /\ DataInv /\ WaitInv /\ StreamInv

-----------------------------------------------------------------------------
(* The copies under way have the type of copies. *)
LEMMA CopyTypes ==
  ASSUME TypeOK
  PROVE  /\ DOMAIN copies = 1..Len(copies)
         /\ \A i \in DOMAIN copies :
              /\ copies[i] \in Copies
              /\ copies[i].slot \in Slots
              /\ copies[i].region \in Regions
              /\ copies[i].gen \in 1..MaxGen
<1>1. copies \in Seq(Copies)
  BY DEF TypeOK
<1>2. DOMAIN copies = 1..Len(copies)
  BY <1>1
<1>3. \A i \in DOMAIN copies : copies[i] \in Copies
  BY <1>1, <1>2
<1>. QED BY <1>2, <1>3 DEF Copies

(* So have the entries of the stream. *)
LEMMA StreamTypes ==
  ASSUME TypeOK
  PROVE  DOMAIN stream = 1..Len(stream) /\ Len(stream) \in Nat
BY DEF TypeOK

(* A slot that needs no wait is no source of a copy. *)
LEMMA SettledFree ==
  ASSUME TypeOK, StagingStable, NEW k \in Slots, Settled(k)
  PROVE  \A i \in DOMAIN copies : copies[i].slot # k
BY DEF StagingStable, Settled, Pending

(* When every wait is over no copy is under way. *)
LEMMA SettledNone ==
  ASSUME TypeOK, StagingStable, AllSettled
  PROVE  copies = <<>> /\ DOMAIN copies = {}
<1>1. ASSUME NEW i \in DOMAIN copies PROVE FALSE
  BY CopyTypes, SettledFree DEF AllSettled
<1>2. copies \in Seq(Copies)
  BY DEF TypeOK
<1>3. Len(copies) = 0
  <2>1. DOMAIN copies = 1..Len(copies) /\ Len(copies) \in Nat
    BY <1>2
  <2>2. 1 \notin DOMAIN copies
    BY <1>1
  <2>. QED BY <2>1, <2>2
<1>. QED BY <1>1, <1>2, <1>3, EmptySeq

(* The invariant says a graph computes with what was promoted. *)
LEMMA Exactness == IInv => ReadExact
<1>. SUFFICES ASSUME IInv, running PROVE device = wanted
  BY DEF ReadExact
<1>0. stream \in Seq(Entries)
  BY DEF IInv, TypeOK
<1>1. Len(stream) = 1 /\ stream[1] = Graph /\ host = "graph"
  <2>1. stream # <<>> /\ Head(stream) = Graph
    BY DEF IInv, StreamInv
  <2>2. Len(stream) # 0
    BY <1>0, <2>1, EmptySeq
  <2>3. 1 \in DOMAIN stream /\ stream[1] = Graph
    BY <1>0, <2>1, <2>2
  <2>. QED BY <2>3 DEF IInv, StreamInv
<1>2. ASSUME NEW i \in DOMAIN copies PROVE FALSE
  <2>1. copies[i].slot \in Slots
    BY CopyTypes DEF IInv
  <2>2. slot[copies[i].slot].waited
    BY <1>1, <2>1 DEF IInv, StagingStable, WaitInv
  <2>3. PICK n \in DOMAIN stream : Request(copies[i].region, copies[i].gen) \in stream[n].on
    BY <2>2 DEF IInv, WaitInv, Awaited
  <2>4. n = 1
    BY <1>0, <1>1
  <2>. QED BY <1>1, <2>3, <2>4 DEF Graph
<1>3. \A r \in Regions : device[r] = wanted[r]
  BY <1>2 DEF IInv, DataInv
<1>. QED BY <1>3 DEF IInv, TypeOK

LEMMA InitInv == Init => IInv
<1>. SUFFICES ASSUME Init PROVE IInv
  OBVIOUS
<1>. USE StageAssumption
<1>1. copies = <<>> /\ stream = <<>> /\ DOMAIN copies = {} /\ DOMAIN stream = {}
  BY DEF Init
<1>2. Slots \subseteq Nat /\ 0 \in Slots
  BY DEF Slots
<1>3. TypeOK
  <2>1. Empty \in SlotValues
    BY DEF Empty, SlotValues
  <2>. QED BY <1>2, <2>1 DEF Init, TypeOK
<1>4. SlotInv /\ WaitInv
  BY <1>1 DEF Init, SlotInv, WaitInv, Empty
<1>5. StagingStable /\ DataInv /\ StreamInv
  BY <1>1 DEF Init, StagingStable, DataInv, StreamInv
<1>. QED BY <1>3, <1>4, <1>5 DEF IInv

-----------------------------------------------------------------------------
(* The host: uploads, publishing, launching and synchronising.             *)

(* Giving the slots back when no copy is under way. *)
LEMMA GiveBackInv ==
  ASSUME IInv, AllSettled, GiveBackAll, UNCHANGED copies
  PROVE  /\ slot' \in [Slots -> SlotValues]
         /\ SlotInv' /\ StagingStable'
         /\ \A k \in Slots : ~slot'[k].flight
         /\ copies = <<>> /\ DOMAIN copies = {} /\ DOMAIN copies' = {}
<1>1. copies = <<>> /\ DOMAIN copies = {} /\ DOMAIN copies' = {}
  BY SettledNone DEF IInv
<1>2. \A k \in Slots : slot'[k] \in SlotValues /\ ~slot'[k].flight
  <2>1. SUFFICES ASSUME NEW k \in Slots PROVE slot'[k] \in SlotValues /\ ~slot'[k].flight
    OBVIOUS
  <2>2. slot[k].data \in Experts \cup {None}
    BY DEF IInv, TypeOK, SlotValues
  <2>3. slot'[k] = [Empty EXCEPT !.data = slot[k].data]
    BY DEF GiveBackAll
  <2>4. slot'[k] = [flight |-> FALSE, region |-> None, gen |-> 0,
                    data |-> slot[k].data, waited |-> FALSE]
    BY <2>3 DEF Empty
  <2>5. 0 \in 0..MaxGen
    BY StageAssumption
  <2>. QED BY <2>2, <2>4, <2>5 DEF SlotValues
<1>3. slot' \in [Slots -> SlotValues]
  BY <1>2 DEF GiveBackAll
<1>. QED BY <1>1, <1>2, <1>3 DEF SlotInv, StagingStable

(* In the window no graph is in the stream. *)
LEMMA NoGraph ==
  ASSUME IInv, host # "graph"
  PROVE  ~running /\ \A n \in DOMAIN stream : stream[n] # Graph
<1>1. \A n \in DOMAIN stream : stream[n] # Graph
  BY DEF IInv, StreamInv
<1>2. ~running
  <2>1. SUFFICES ASSUME running PROVE FALSE
    OBVIOUS
  <2>2. stream # <<>> /\ Head(stream) = Graph /\ stream \in Seq(Entries)
    BY <2>1 DEF IInv, StreamInv, TypeOK
  <2>3. 1 \in DOMAIN stream /\ stream[1] = Graph
    BY <2>2, EmptySeq
  <2>. QED BY <1>1, <2>3
<1>. QED BY <1>1, <1>2

(* An upload in place: nothing is under way, the region gets its bytes. *)
LEMMA InPlaceInv ==
  ASSUME IInv, NEW r \in Regions, NEW e \in Experts, Upload(r, e), UploadInPlace(r, e)
  PROVE  IInv'
<1>. USE DEF Upload, UploadInPlace
<1>1. /\ slot' \in [Slots -> SlotValues]
      /\ SlotInv' /\ StagingStable'
      /\ copies = <<>> /\ DOMAIN copies = {} /\ DOMAIN copies' = {}
  BY GiveBackInv
<1>2. TypeOK'
  BY <1>1, StageAssumption DEF IInv, TypeOK, NextGeneration
<1>3. DataInv'
  <2>1. \A q \in Regions : device[q] = wanted[q]
    BY <1>1 DEF IInv, DataInv
  <2>2. \A q \in Regions : device'[q] = wanted'[q]
    BY <2>1 DEF IInv, TypeOK
  <2>. QED BY <1>1, <2>2 DEF IInv, DataInv
<1>4. WaitInv'
  BY <1>1 DEF WaitInv
<1>5. StreamInv'
  BY NoGraph DEF StreamInv
<1>. QED BY <1>1, <1>2, <1>3, <1>4, <1>5 DEF IInv

(* A staged upload: the slot is the source of no copy, the new copy is the   *)
(* last one of its region.                                                  *)
LEMMA StagedInv ==
  ASSUME IInv, NEW r \in Regions, NEW e \in Experts, Upload(r, e),
         Stage(r, NextGeneration(r), e), UNCHANGED device
  PROVE  IInv'
<1>. DEFINE g == NextGeneration(r)
           c == Copy(nextSlot, r, g)
           last == Len(copies) + 1
<1>. USE DEF Upload, Stage
<1>1. g \in 1..MaxGen /\ nextSlot \in Slots /\ nextSlot' \in Slots
  BY StageAssumption DEF IInv, TypeOK, NextGeneration, Following, Slots
<1>2. c \in Copies /\ c.slot = nextSlot /\ c.region = r /\ c.gen = g
  BY <1>1 DEF Copy, Copies
<1>3. /\ copies \in Seq(Copies) /\ Len(copies) \in Nat /\ DOMAIN copies = 1..Len(copies)
      /\ copies' = Append(copies, c)
  BY DEF IInv, TypeOK
<1>4. /\ copies' \in Seq(Copies) /\ DOMAIN copies' = 1..last
      /\ copies'[last] = c
      /\ \A i \in DOMAIN copies : i \in DOMAIN copies' /\ i < last /\ copies'[i] = copies[i]
      /\ \A i \in DOMAIN copies' : i \in DOMAIN copies \/ i = last
  BY <1>2, <1>3
<1>5. \A i \in DOMAIN copies : copies[i].slot \in Slots /\ copies[i].slot # nextSlot
  BY <1>1, CopyTypes, SettledFree DEF IInv
<1>6. /\ slot'[nextSlot] = Staged(r, g, e)
      /\ \A k \in Slots : k # nextSlot => slot'[k] = slot[k]
  BY <1>1 DEF IInv, TypeOK
<1>7. Staged(r, g, e) \in SlotValues
  BY <1>1, StageAssumption DEF Staged, SlotValues
<1>8. slot' \in [Slots -> SlotValues]
  BY <1>7 DEF IInv, TypeOK
<1>9. generation' \in [Regions -> 1..MaxGen]
  BY <1>1 DEF IInv, TypeOK
<1>10. TypeOK'
  BY <1>1, <1>4, <1>8, <1>9 DEF IInv, TypeOK
<1>11. SlotInv'
  <2>1. \A q \in Regions : generation[q] \in Nat /\ generation'[q] \in Nat
                           /\ generation[q] <= generation'[q]
    BY <1>9, StageAssumption DEF IInv, TypeOK, NextGeneration
  <2>2. generation'[r] = g
    BY DEF IInv, TypeOK
  <2>3. ASSUME NEW k \in Slots, slot'[k].flight
        PROVE  slot'[k].region \in Regions /\ slot'[k].gen \in 1..generation'[slot'[k].region]
    <3>1. CASE k = nextSlot
      BY <1>1, <1>6, <2>2, <3>1 DEF Staged
    <3>2. CASE k # nextSlot
      BY <1>6, <2>1, <2>3, <3>2 DEF IInv, SlotInv
    <3>. QED BY <3>1, <3>2
  <2>. QED BY <2>3 DEF SlotInv
<1>12. StagingStable'
  BY <1>2, <1>4, <1>5, <1>6 DEF IInv, StagingStable, Staged
<1>13. DataInv'
  <2>1. ASSUME NEW q \in Regions, \A i \in DOMAIN copies' : ~Targets(i, q)'
        PROVE  device'[q] = wanted'[q]
    <3>1. q # r
      BY <1>2, <1>3, <1>4, <2>1 DEF Targets
    <3>2. \A i \in DOMAIN copies : ~Targets(i, q)
      BY <1>4, <2>1 DEF Targets
    <3>. QED BY <3>1, <3>2 DEF IInv, DataInv, TypeOK
  <2>2. ASSUME NEW q \in Regions, NEW i \in DOMAIN copies', IsLast(i, q)'
        PROVE  slot'[copies'[i].slot].data = wanted'[q]
    <3>1. CASE i = last
      BY <1>2, <1>4, <1>6, <2>2, <3>1 DEF IInv, TypeOK, Staged, IsLast, Targets
    <3>2. CASE i \in DOMAIN copies
      <4>1. copies'[i] = copies[i] /\ slot'[copies[i].slot] = slot[copies[i].slot]
        BY <1>4, <1>5, <1>6, <3>2
      <4>2. q # r
        BY <1>2, <1>3, <1>4, <2>2, <3>2 DEF IsLast, Targets
      <4>3. IsLast(i, q)
        BY <1>4, <2>2, <3>2 DEF IsLast, Targets
      <4>. QED BY <3>2, <4>1, <4>2, <4>3 DEF IInv, DataInv, TypeOK
    <3>. QED BY <1>4, <3>1, <3>2
  <2>3. copies' # <<>>
    BY <1>3, <1>4
  <2>. QED BY <2>1, <2>2, <2>3 DEF DataInv
<1>14. WaitInv'
  <2>1. \A i \in DOMAIN copies' : slot'[copies'[i].slot].waited => Awaited(copies'[i])
    BY <1>2, <1>4, <1>5, <1>6 DEF IInv, WaitInv, Staged
  <2>. QED BY <2>1 DEF WaitInv, Awaited
<1>15. StreamInv'
  BY NoGraph DEF StreamInv
<1>. QED BY <1>10, <1>11, <1>12, <1>13, <1>14, <1>15 DEF IInv

(* An upload is in place or staged: a new generation is no duplicate. *)
LEMMA UploadInv ==
  ASSUME IInv, NEW r \in Regions, NEW e \in Experts, Upload(r, e)
  PROVE  IInv'
<1>1. CASE UploadInPlace(r, e)
  BY <1>1, InPlaceInv
<1>2. CASE UploadStaged(r, NextGeneration(r), e)
  <2>1. ~Duplicate(r, NextGeneration(r))
    <3>1. generation[r] \in 1..MaxGen
      BY DEF IInv, TypeOK
    <3>. QED BY <3>1 DEF IInv, SlotInv, Duplicate, NextGeneration
  <2>2. Stage(r, NextGeneration(r), e) /\ UNCHANGED device
    BY <1>2, <2>1 DEF UploadStaged
  <2>. QED BY <2>2, StagedInv
<1>. QED BY <1>1, <1>2 DEF Upload

(* Publishing to a consumer on the device puts every copy's wait into its  *)
(* stream.                                                                 *)
LEMMA WaitsInv ==
  ASSUME IInv, Publish, PublishLocal, Unwaited # {}
  PROVE  IInv'
<1>. DEFINE R == {Request(slot[k].region, slot[k].gen) : k \in Unwaited}
           last == Len(stream) + 1
<1>. USE DEF Publish, PublishLocal
<1>1. R \in SUBSET Requests
  <2>1. ASSUME NEW k \in Unwaited PROVE Request(slot[k].region, slot[k].gen) \in Requests
    <3>1. k \in Slots /\ slot[k].region \in Regions
          /\ slot[k].gen \in 1..generation[slot[k].region]
      BY DEF Unwaited, IInv, SlotInv
    <3>2. generation[slot[k].region] \in 1..MaxGen
      BY <3>1 DEF IInv, TypeOK
    <3>3. slot[k].gen \in 1..MaxGen
      BY <3>1, <3>2, StageAssumption
    <3>. QED BY <3>1, <3>3 DEF Request, Requests
  <2>. QED BY <2>1
<1>2. Wait(R) \in Entries /\ Wait(R).on = R /\ Wait(R) # Graph
  BY <1>1 DEF Wait, Entries, Graph
<1>3. /\ stream \in Seq(Entries) /\ Len(stream) \in Nat /\ DOMAIN stream = 1..Len(stream)
      /\ stream' = Append(stream, Wait(R))
  BY DEF IInv, TypeOK
<1>4. /\ stream' \in Seq(Entries) /\ DOMAIN stream' = 1..last
      /\ stream'[last] = Wait(R)
      /\ \A n \in DOMAIN stream : n \in DOMAIN stream' /\ stream'[n] = stream[n]
      /\ \A n \in DOMAIN stream' : n \in DOMAIN stream \/ n = last
  BY <1>2, <1>3
<1>5. \A k \in Slots :
        /\ slot'[k] \in SlotValues
        /\ slot'[k].flight = slot[k].flight /\ slot'[k].region = slot[k].region
        /\ slot'[k].gen = slot[k].gen /\ slot'[k].data = slot[k].data
        /\ slot'[k].waited <=> slot[k].waited \/ k \in Unwaited
  <2>1. SUFFICES ASSUME NEW k \in Slots
        PROVE  /\ slot'[k] \in SlotValues
               /\ slot'[k].flight = slot[k].flight /\ slot'[k].region = slot[k].region
               /\ slot'[k].gen = slot[k].gen /\ slot'[k].data = slot[k].data
               /\ slot'[k].waited <=> slot[k].waited \/ k \in Unwaited
    OBVIOUS
  <2>2. slot[k] \in SlotValues
    BY DEF IInv, TypeOK
  <2>3. slot'[k] = [slot[k] EXCEPT !.waited = slot[k].waited \/ k \in Unwaited]
    OBVIOUS
  <2>. QED BY <2>2, <2>3 DEF SlotValues
<1>6. TypeOK'
  BY <1>4, <1>5 DEF IInv, TypeOK
<1>7. SlotInv'
  BY <1>5 DEF IInv, SlotInv
<1>8. \A i \in DOMAIN copies : copies[i].slot \in Slots
  BY CopyTypes DEF IInv
<1>9. StagingStable'
  BY <1>5, <1>8 DEF IInv, StagingStable
<1>10. DataInv'
  BY <1>5, <1>8 DEF IInv, DataInv, IsLast, Targets
<1>11. WaitInv'
  <2>1. \A k \in Slots : slot'[k].flight => slot'[k].waited
    BY <1>5 DEF Unwaited
  <2>2. ASSUME NEW i \in DOMAIN copies PROVE Awaited(copies[i])'
    <3>1. CASE slot[copies[i].slot].waited
      BY <1>4, <3>1 DEF IInv, WaitInv, Awaited
    <3>2. CASE ~slot[copies[i].slot].waited
      <4>1. copies[i].slot \in Unwaited
        BY <1>8, <3>2 DEF IInv, StagingStable, Unwaited
      <4>2. Request(copies[i].region, copies[i].gen) \in R
        BY <4>1 DEF IInv, StagingStable
      <4>3. last \in DOMAIN stream' /\ stream'[last].on = R
        <5>1. last \in 1..last
          BY <1>3
        <5>. QED BY <1>2, <1>4, <5>1
      <4>4. copies' = copies
        OBVIOUS
      <4>5. Request(copies[i].region, copies[i].gen)' \in stream'[last].on
        BY <4>2, <4>3, <4>4 DEF Request
      <4>. QED BY <4>3, <4>5 DEF Awaited
    <3>. QED BY <3>1, <3>2
  <2>. QED BY <2>1, <2>2 DEF WaitInv
<1>12. StreamInv'
  BY <1>2, <1>4, NoGraph DEF StreamInv
<1>. QED BY <1>6, <1>7, <1>9, <1>10, <1>11, <1>12 DEF IInv

(* With nothing new to wait for the slots stay as they are. *)
LEMMA NoWaitsInv ==
  ASSUME IInv, Publish, PublishLocal, Unwaited = {}
  PROVE  IInv'
<1>. USE DEF Publish, PublishLocal
<1>1. slot' = slot
  <2>1. \A k \in Slots : [slot[k] EXCEPT !.waited = slot[k].waited \/ k \in Unwaited] = slot[k]
    <3>1. SUFFICES ASSUME NEW k \in Slots
          PROVE  [slot[k] EXCEPT !.waited = slot[k].waited \/ FALSE] = slot[k]
      OBVIOUS
    <3>2. slot[k] \in SlotValues
      BY DEF IInv, TypeOK
    <3>. QED BY <3>2 DEF SlotValues
  <2>. QED BY <2>1 DEF IInv, TypeOK
<1>2. stream' = stream
  OBVIOUS
<1>3. TypeOK' /\ SlotInv'
  BY <1>1, <1>2 DEF IInv, TypeOK, SlotInv
<1>4. StagingStable'
  BY <1>1 DEF IInv, StagingStable
<1>5. DataInv'
  BY <1>1 DEF IInv, DataInv, IsLast, Targets
<1>6. \A k \in Slots : slot[k].flight => slot[k].waited
  BY DEF Unwaited
<1>7. WaitInv'
  BY <1>1, <1>2, <1>6 DEF IInv, WaitInv, Awaited
<1>8. StreamInv'
  BY <1>2, NoGraph DEF StreamInv
<1>. QED BY <1>3, <1>4, <1>5, <1>7, <1>8 DEF IInv

(* For any other consumer the host waits. *)
LEMMA PublishForeignInv ==
  ASSUME IInv, Publish, PublishForeign
  PROVE  IInv'
<1>. USE DEF Publish, PublishForeign
<1>1. /\ slot' \in [Slots -> SlotValues]
      /\ SlotInv' /\ StagingStable'
      /\ \A k \in Slots : ~slot'[k].flight
      /\ copies = <<>> /\ DOMAIN copies = {} /\ DOMAIN copies' = {}
  BY GiveBackInv
<1>2. TypeOK'
  BY <1>1 DEF IInv, TypeOK
<1>3. DataInv' /\ WaitInv'
  BY <1>1 DEF IInv, DataInv, WaitInv, Targets
<1>4. StreamInv'
  BY NoGraph DEF StreamInv
<1>. QED BY <1>1, <1>2, <1>3, <1>4 DEF IInv

(* The graph is enqueued last, and after it nothing. *)
LEMMA LaunchInv ==
  ASSUME IInv, Launch
  PROVE  IInv'
<1>. DEFINE last == Len(stream) + 1
<1>. USE DEF Launch, hostVars
<1>1. Graph \in Entries
  BY DEF Graph, Entries
<1>2. stream \in Seq(Entries) /\ Len(stream) \in Nat /\ DOMAIN stream = 1..Len(stream)
  BY DEF IInv, TypeOK
<1>3. /\ stream' \in Seq(Entries) /\ DOMAIN stream' = 1..last /\ Len(stream') = last
      /\ \A n \in DOMAIN stream : n \in DOMAIN stream' /\ stream'[n] = stream[n]
      /\ \A n \in DOMAIN stream' : n \in DOMAIN stream \/ n = last
  BY <1>1, <1>2
<1>4. TypeOK'
  BY <1>3 DEF IInv, TypeOK
<1>5. SlotInv' /\ StagingStable' /\ DataInv'
  BY DEF IInv, SlotInv, StagingStable, DataInv, IsLast, Targets
<1>6. WaitInv'
  BY <1>3 DEF IInv, WaitInv, Awaited
<1>7. StreamInv'
  BY <1>3, NoGraph DEF StreamInv
<1>. QED BY <1>4, <1>5, <1>6, <1>7 DEF IInv

(* The window begins when the stream is empty. *)
LEMMA SynchronizeInv ==
  ASSUME IInv, Synchronize
  PROVE  IInv'
<1>. USE DEF Synchronize, hostVars, deviceVars
<1>1. DOMAIN stream = {}
  OBVIOUS
<1>2. TypeOK' /\ SlotInv' /\ StagingStable' /\ DataInv'
  BY DEF IInv, TypeOK, SlotInv, StagingStable, DataInv, IsLast, Targets
<1>3. WaitInv'
  BY DEF IInv, WaitInv, Awaited
<1>4. StreamInv'
  BY <1>1 DEF IInv, StreamInv
<1>. QED BY <1>2, <1>3, <1>4 DEF IInv

-----------------------------------------------------------------------------
(* The device: the copy stream and the consumer's stream.                  *)

(* The first of the copies and those behind it. *)
LEMMA FirstCopy ==
  ASSUME TypeOK, copies # <<>>
  PROVE  /\ copies \in Seq(Copies) /\ DOMAIN copies = 1..Len(copies) /\ Len(copies) \in Nat \ {0}
         /\ 1 \in DOMAIN copies /\ Head(copies) = copies[1]
         /\ copies[1].slot \in Slots /\ copies[1].region \in Regions
         /\ Tail(copies) \in Seq(Copies) /\ DOMAIN Tail(copies) = 1..(Len(copies) - 1)
         /\ \A i \in DOMAIN Tail(copies) : i + 1 \in DOMAIN copies /\ Tail(copies)[i] = copies[i + 1]
<1>1. copies \in Seq(Copies)
  BY DEF TypeOK
<1>2. DOMAIN copies = 1..Len(copies) /\ Len(copies) \in Nat \ {0}
  BY <1>1, EmptySeq
<1>3. 1 \in DOMAIN copies /\ Head(copies) = copies[1]
  BY <1>1, <1>2
<1>4. copies[1].slot \in Slots /\ copies[1].region \in Regions
  BY <1>3, CopyTypes
<1>5. /\ Tail(copies) \in Seq(Copies) /\ DOMAIN Tail(copies) = 1..(Len(copies) - 1)
      /\ \A i \in DOMAIN Tail(copies) : i + 1 \in DOMAIN copies /\ Tail(copies)[i] = copies[i + 1]
  BY <1>1, <1>2
<1>. QED BY <1>1, <1>2, <1>3, <1>4, <1>5

(* While the first copy runs, its region is not one that needs none. *)
LEMMA CopyBeginInv ==
  ASSUME IInv, CopyBegin
  PROVE  IInv'
<1>. USE DEF CopyBegin, hostVars
<1>1. 1 \in DOMAIN copies /\ Head(copies) = copies[1] /\ copies[1].region \in Regions
  BY FirstCopy DEF IInv
<1>2. TypeOK'
  BY <1>1 DEF IInv, TypeOK
<1>3. DataInv'
  <2>1. ASSUME NEW r \in Regions, \A i \in DOMAIN copies : ~Targets(i, r)
        PROVE  device'[r] = wanted[r]
    <3>1. r # copies[1].region
      BY <1>1, <2>1 DEF Targets
    <3>. QED BY <1>1, <2>1, <3>1 DEF IInv, DataInv, TypeOK
  <2>. QED BY <2>1 DEF IInv, DataInv, IsLast, Targets
<1>4. SlotInv' /\ StagingStable' /\ WaitInv' /\ StreamInv'
  BY DEF IInv, SlotInv, StagingStable, WaitInv, Awaited, StreamInv
<1>. QED BY <1>2, <1>3, <1>4 DEF IInv

(* When a copy ends its region holds the bytes of the slot; they are the     *)
(* wanted ones if no copy of the region is behind it.                       *)
LEMMA CopyEndInv ==
  ASSUME IInv, CopyEnd
  PROVE  IInv'
<1>. USE DEF CopyEnd, hostVars
<1>1. copies # <<>>
  BY DEF IInv, DataInv
<1>2. /\ 1 \in DOMAIN copies /\ Head(copies) = copies[1]
      /\ copies[1].slot \in Slots /\ copies[1].region \in Regions
      /\ DOMAIN copies = 1..Len(copies) /\ Len(copies) \in Nat \ {0}
      /\ copies' \in Seq(Copies) /\ DOMAIN copies' = 1..(Len(copies) - 1)
      /\ \A i \in DOMAIN copies' : i + 1 \in DOMAIN copies /\ copies'[i] = copies[i + 1]
  BY <1>1, FirstCopy DEF IInv
<1>3. \A j \in DOMAIN copies : j # 1 => j - 1 \in DOMAIN copies' /\ copies'[j - 1] = copies[j]
  <2>. SUFFICES ASSUME NEW j \in DOMAIN copies, j # 1
       PROVE  j - 1 \in DOMAIN copies' /\ copies'[j - 1] = copies[j]
    OBVIOUS
  <2>0. j \in 1..Len(copies)
    BY <1>2
  <2>1. j - 1 \in 1..(Len(copies) - 1) /\ (j - 1) + 1 = j
    BY <1>2, <2>0
  <2>2. j - 1 \in DOMAIN copies' /\ (j - 1) + 1 = j
    BY <1>2, <2>1
  <2>. QED BY <1>2, <2>2
<1>4. TypeOK'
  <2>1. slot[copies[1].slot].data \in Experts \cup {None}
    BY <1>2 DEF IInv, TypeOK, SlotValues
  <2>. QED BY <1>2, <2>1 DEF IInv, TypeOK
<1>5. DataInv'
  <2>1. ASSUME NEW r \in Regions, \A i \in DOMAIN copies' : ~Targets(i, r)'
        PROVE  device'[r] = wanted[r]
    <3>1. \A j \in DOMAIN copies : j # 1 => ~Targets(j, r)
      BY <1>3, <2>1 DEF Targets
    <3>2. CASE copies[1].region = r
      <4>1. \A j \in DOMAIN copies : j > 1 => ~Targets(j, r)
        BY <3>1
      <4>2. IsLast(1, r)
        BY <3>2, <4>1 DEF IsLast, Targets
      <4>. QED BY <1>2, <3>2, <4>2, ZenonT(60) DEF IInv, DataInv, TypeOK
    <3>3. CASE copies[1].region # r
      <4>1. \A j \in DOMAIN copies : ~Targets(j, r)
        BY <3>1, <3>3 DEF Targets
      <4>. QED BY <1>2, <3>3, <4>1 DEF IInv, DataInv, TypeOK
    <3>. QED BY <3>2, <3>3
  <2>2. ASSUME NEW r \in Regions, NEW i \in DOMAIN copies', IsLast(i, r)'
        PROVE  slot[copies'[i].slot].data = wanted[r]
    <3>1. i + 1 \in DOMAIN copies /\ copies'[i] = copies[i + 1]
      BY <1>2
    <3>2. ASSUME NEW j \in DOMAIN copies, j > i + 1 PROVE ~Targets(j, r)
      <4>1. j # 1 /\ j - 1 > i
        BY <1>2, <3>2
      <4>. QED BY <1>3, <2>2, <4>1 DEF IsLast, Targets
    <3>3. IsLast(i + 1, r)
      BY <2>2, <3>1, <3>2 DEF IsLast, Targets
    <3>. QED BY <3>1, <3>3 DEF IInv, DataInv
  <2>. QED BY <2>1, <2>2 DEF DataInv
<1>6. StagingStable' /\ WaitInv'
  BY <1>2 DEF IInv, StagingStable, WaitInv, Awaited
<1>7. SlotInv' /\ StreamInv'
  BY DEF IInv, SlotInv, StreamInv
<1>. QED BY <1>4, <1>5, <1>6, <1>7 DEF IInv

(* The first entry of the stream and those behind it. *)
LEMMA FirstEntry ==
  ASSUME TypeOK, stream # <<>>
  PROVE  /\ DOMAIN stream = 1..Len(stream) /\ Len(stream) \in Nat \ {0}
         /\ 1 \in DOMAIN stream /\ Head(stream) = stream[1]
         /\ Tail(stream) \in Seq(Entries) /\ DOMAIN Tail(stream) = 1..(Len(stream) - 1)
         /\ Len(Tail(stream)) = Len(stream) - 1
         /\ \A n \in DOMAIN Tail(stream) : n + 1 \in DOMAIN stream /\ Tail(stream)[n] = stream[n + 1]
<1>1. stream \in Seq(Entries)
  BY DEF TypeOK
<1>2. DOMAIN stream = 1..Len(stream) /\ Len(stream) \in Nat \ {0}
  BY <1>1, EmptySeq
<1>3. 1 \in DOMAIN stream /\ Head(stream) = stream[1]
  BY <1>1, <1>2
<1>4. /\ Tail(stream) \in Seq(Entries) /\ DOMAIN Tail(stream) = 1..(Len(stream) - 1)
      /\ Len(Tail(stream)) = Len(stream) - 1
      /\ \A n \in DOMAIN Tail(stream) : n + 1 \in DOMAIN stream /\ Tail(stream)[n] = stream[n + 1]
  BY <1>1, <1>2
<1>. QED BY <1>2, <1>3, <1>4

(* An entry leaves the stream; the copies it stands for need no wait.      *)
LEMMA EntryOver ==
  ASSUME IInv, stream # <<>>, stream' = Tail(stream), running' = FALSE,
         UNCHANGED <<hostVars, copies, copying, device, host, local>>,
         \A q \in stream[1].on : ~Pending(q.region, q.gen)
  PROVE  IInv'
<1>. USE DEF hostVars
<1>1. /\ DOMAIN stream = 1..Len(stream) /\ Len(stream) \in Nat \ {0}
      /\ stream' \in Seq(Entries) /\ DOMAIN stream' = 1..(Len(stream) - 1)
      /\ Len(stream') = Len(stream) - 1
      /\ \A n \in DOMAIN stream' : n + 1 \in DOMAIN stream /\ stream'[n] = stream[n + 1]
  BY FirstEntry DEF IInv
<1>2. TypeOK'
  BY <1>1 DEF IInv, TypeOK
<1>3. SlotInv' /\ StagingStable' /\ DataInv'
  BY DEF IInv, SlotInv, StagingStable, DataInv, IsLast, Targets
<1>4. WaitInv'
  <2>1. ASSUME NEW i \in DOMAIN copies, slot[copies[i].slot].waited
        PROVE  Awaited(copies[i])'
    <3>1. PICK n \in DOMAIN stream : Request(copies[i].region, copies[i].gen) \in stream[n].on
      BY <2>1 DEF IInv, WaitInv, Awaited
    <3>2. n # 1
      BY <3>1 DEF Request, Pending
    <3>3. n - 1 \in DOMAIN stream' /\ (n - 1) + 1 = n
      BY <1>1, <3>2
    <3>4. stream'[n - 1] = stream[n]
      BY <1>1, <3>3
    <3>. QED BY <3>1, <3>3, <3>4 DEF Awaited
  <2>. QED BY <2>1 DEF IInv, WaitInv
<1>5. StreamInv'
  <2>1. ASSUME NEW n \in DOMAIN stream', stream'[n] = Graph
        PROVE  n = Len(stream') /\ host = "graph"
    <3>1. n + 1 \in DOMAIN stream /\ stream[n + 1] = Graph
      BY <1>1, <2>1
    <3>2. n + 1 = Len(stream) /\ host = "graph"
      BY <3>1 DEF IInv, StreamInv
    <3>. QED BY <1>1, <3>2
  <2>. QED BY <2>1 DEF StreamInv
<1>. QED BY <1>2, <1>3, <1>4, <1>5 DEF IInv

(* A wait is over, or a graph. *)
LEMMA WaitOverInv ==
  ASSUME IInv, WaitOver
  PROVE  IInv'
<1>1. stream # <<>> /\ Head(stream) = stream[1] /\ Head(stream).op = "wait"
  BY FirstEntry DEF IInv, WaitOver
<1>2. ~running
  BY <1>1 DEF IInv, StreamInv, Graph
<1>3. running' = FALSE
  BY <1>2 DEF WaitOver, IInv, TypeOK
<1>. QED BY <1>1, <1>3, EntryOver DEF WaitOver

LEMMA GraphEndInv ==
  ASSUME IInv, GraphEnd
  PROVE  IInv'
<1>1. stream # <<>> /\ Head(stream) = Graph
  BY DEF IInv, StreamInv, GraphEnd
<1>2. stream[1] = Graph
  BY <1>1, FirstEntry DEF IInv
<1>3. \A q \in stream[1].on : ~Pending(q.region, q.gen)
  BY <1>2 DEF Graph
<1>. QED BY <1>1, <1>3, EntryOver DEF GraphEnd

LEMMA GraphBeginInv ==
  ASSUME IInv, GraphBegin
  PROVE  IInv'
BY DEF GraphBegin, hostVars, IInv, TypeOK, SlotInv, StagingStable, DataInv, IsLast, Targets,
       WaitInv, Awaited, StreamInv

(* Nothing happens. *)
LEMMA StutterInv ==
  ASSUME IInv, UNCHANGED vars
  PROVE  IInv'
BY DEF vars, hostVars, deviceVars, IInv, TypeOK, SlotInv, StagingStable, DataInv, IsLast, Targets,
       WaitInv, Awaited, StreamInv

LEMMA NextInv == IInv /\ [Next]_vars => IInv'
<1>. SUFFICES ASSUME IInv, [Next]_vars PROVE IInv'
  OBVIOUS
<1>1. CASE Uploads
  BY <1>1, UploadInv DEF Uploads
<1>2. CASE Publish
  BY <1>2, WaitsInv, NoWaitsInv, PublishForeignInv DEF Publish
<1>3. CASE Launch
  BY <1>3, LaunchInv
<1>4. CASE Synchronize
  BY <1>4, SynchronizeInv
<1>5. CASE CopyStream
  BY <1>5, CopyBeginInv, CopyEndInv DEF CopyStream
<1>6. CASE ConsumerStream
  BY <1>6, WaitOverInv, GraphBeginInv, GraphEndInv DEF ConsumerStream
<1>7. CASE UNCHANGED vars
  BY <1>7, StutterInv
<1>. QED BY <1>1, <1>2, <1>3, <1>4, <1>5, <1>6, <1>7 DEF Next

-----------------------------------------------------------------------------
(* The inductive invariant of the stage holds in every reachable state.    *)
THEOREM Invariance == Spec => []IInv
BY InitInv, NextInv, PTL DEF Spec

(* The host, the streams and the device stay within their types.           *)
THEOREM TypeCorrect == Spec => []TypeOK
<1>1. IInv => TypeOK
  BY DEF IInv
<1>. QED BY <1>1, Invariance, PTL

(* A pinned slot is not used again while the device copies out of it.      *)
THEOREM StagingIsStable == Spec => []StagingStable
<1>1. IInv => StagingStable
  BY DEF IInv
<1>. QED BY <1>1, Invariance, PTL

(* A graph computes with what was promoted last into each hot region.      *)
THEOREM ReadsAreExact == Spec => []ReadExact
BY Exactness, Invariance, PTL
=============================================================================
