------------------------------ MODULE H2DStage ------------------------------
(***************************************************************************)
(* The host-to-device staging ring of the expert tier (h2d_stage and       *)
(* h2d_stage_*, src/src/llama-expert-tier.cpp) with the device work it     *)
(* starts. In the update() window the host copies an expert's weights into *)
(* a pinned slot and enqueues, on a stream of its own, the copy from the   *)
(* slot to the hot region on the device; publishing makes the stream that  *)
(* computes the next graph wait for these copies; nobody waits on the host *)
(* unless a slot has to be used again.                                     *)
(*                                                                         *)
(* The streams, events and copies of the back end are external, modelled   *)
(* from how they are used: a stream runs its entries in order, on its own; *)
(* a wait entry stands for the completion of the copies recorded before it *)
(* was enqueued; while a copy runs, the region's bytes are undefined.      *)
(*                                                                         *)
(* Abstracted: the weights (named by the expert), and the stage's private  *)
(* compute stream, on which only waits are ever enqueued.                  *)
(***************************************************************************)
EXTENDS Integers, Sequences, FiniteSets

CONSTANTS Regions,   \* hot slots of tensors: destinations of uploads
          Large,     \* regions larger than a staging slot: uploaded in place
          Experts,   \* contents of regions
          NSlots,    \* staging slots (N_SLOTS = 3)
          MaxGen,    \* bound on the generation of a region
          None

ASSUME StageAssumption ==
  /\ NSlots \in Nat \ {0} /\ MaxGen \in Nat
  /\ Large \subseteq Regions /\ None \notin Regions \cup Experts

Slots == 0..(NSlots - 1)

VARIABLES
  slot,        \* staging slot -> in flight, region, generation, the pinned
               \* bytes, whether the consumer's stream waits for it
  nextSlot,    \* next_slot
  generation,  \* hot_generation of each region
  copies,      \* the copy stream: copies not yet complete
  copying,     \* whether its first entry is running
  stream,      \* the consumer's stream: waits and graphs not yet complete
  running,     \* whether its first entry, a graph, is running
  device,      \* region -> what is in it
  wanted,      \* region -> the expert that was promoted into it
  host,        \* program point of the host thread
  local        \* whether the consumer is on the stage's device

hostVars == <<slot, nextSlot, generation, wanted>>
deviceVars == <<copies, copying, stream, running, device>>
vars == <<hostVars, deviceVars, host, local>>

Empty == [flight |-> FALSE, region |-> None, gen |-> 0, data |-> None, waited |-> FALSE]
SlotValues == [flight : BOOLEAN, region : Regions \cup {None}, gen : 0..MaxGen,
               data : Experts \cup {None}, waited : BOOLEAN]

Copy(k, r, g) == [slot |-> k, region |-> r, gen |-> g]
Copies == [slot : Slots, region : Regions, gen : 1..MaxGen]
Request(r, g) == [region |-> r, gen |-> g]
Requests == [region : Regions, gen : 1..MaxGen]

(* The entries of the consumer's stream; the waits enqueued in one go are   *)
(* one wait for all their copies.                                           *)
Wait(requests) == [op |-> "wait", on |-> requests]
Graph == [op |-> "graph", on |-> {}]
Entries == [op : {"wait", "graph"}, on : SUBSET Requests]

Init ==
  /\ slot = [k \in Slots |-> Empty]
  /\ nextSlot = 0
  /\ generation = [r \in Regions |-> 1]
  /\ copies = <<>> /\ copying = FALSE
  /\ stream = <<>> /\ running = FALSE
  /\ wanted \in [Regions -> Experts]
  /\ device = wanted
  /\ host = "window"
  /\ local \in BOOLEAN

Pending(r, g) == \E i \in DOMAIN copies : copies[i].region = r /\ copies[i].gen = g

(* h2d_stage_wait_slot would return at once. *)
Settled(k) == slot[k].flight => ~Pending(slot[k].region, slot[k].gen)

(* h2d_stage_wait returns: every slot is given back. *)
AllSettled == \A k \in Slots : Settled(k)
GiveBackAll == slot' = [k \in Slots |-> [Empty EXCEPT !.data = slot[k].data]]

-----------------------------------------------------------------------------
(* The window promotes expert e into region r: a new generation, then      *)
(* h2d_stage_upload_once.                                                  *)

SameGeneration(r) == generation[r]
NextGeneration(r) == generation[r] + 1

(* Too large for a slot: wait for the copies under way, then write in place. *)
UploadInPlace(r, e) ==
  /\ r \in Large
  /\ AllSettled /\ GiveBackAll
  /\ device' = [device EXCEPT ![r] = e]
  /\ UNCHANGED <<nextSlot, copies>>

(* The request, named by region and generation, is in flight already. *)
Duplicate(r, g) == \E k \in Slots : slot[k].flight /\ slot[k].region = r /\ slot[k].gen = g

Staged(r, g, e) ==
  [flight |-> TRUE, region |-> r, gen |-> g, data |-> e, waited |-> FALSE]

Following(k) == (k + 1) % NSlots

StageAtOnce(r, g, e) ==
  /\ slot' = [slot EXCEPT ![nextSlot] = Staged(r, g, e)]
  /\ copies' = Append(copies, Copy(nextSlot, r, g))
  /\ nextSlot' = Following(nextSlot)

(* The next slot, once its last copy is complete, takes the bytes. *)
Stage(r, g, e) ==
  /\ Settled(nextSlot)
  /\ slot' = [slot EXCEPT ![nextSlot] = Staged(r, g, e)]
  /\ copies' = Append(copies, Copy(nextSlot, r, g))
  /\ nextSlot' = Following(nextSlot)

UploadStaged(r, g, e) ==
  /\ r \notin Large
  /\ IF Duplicate(r, g) THEN UNCHANGED <<slot, nextSlot, copies>> ELSE Stage(r, g, e)
  /\ UNCHANGED device

Upload(r, e) ==
  /\ host \in {"window", "uploaded"}
  /\ wanted[r] # e /\ generation[r] < MaxGen
  /\ generation' = [generation EXCEPT ![r] = NextGeneration(r)]
  /\ wanted' = [wanted EXCEPT ![r] = e]
  /\ UploadInPlace(r, e) \/ UploadStaged(r, NextGeneration(r), e)
  /\ host' = "uploaded"
  /\ UNCHANGED <<copying, stream, running, local>>

(* tier_h2d_stage_publish: a consumer on the device gets a wait for every   *)
(* slot in flight it does not wait for yet; for any other the host waits.   *)
Unwaited == {k \in Slots : slot[k].flight /\ ~slot[k].waited}

PublishLocal ==
  /\ local
  /\ stream' = IF Unwaited = {} THEN stream
               ELSE Append(stream, Wait({Request(slot[k].region, slot[k].gen) : k \in Unwaited}))
  /\ slot' = [k \in Slots |-> [slot[k] EXCEPT !.waited = @ \/ k \in Unwaited]]

PublishForeign ==
  /\ ~local
  /\ AllSettled /\ GiveBackAll
  /\ UNCHANGED stream

Publish ==
  /\ host = "uploaded"
  /\ PublishLocal \/ PublishForeign
  /\ host' = "window"
  /\ UNCHANGED <<nextSlot, generation, wanted, copies, copying, running, device, local>>

(* The next graph is enqueued, and synchronised with before the next window. *)
Launch ==
  /\ host = "window"
  /\ stream' = Append(stream, Graph)
  /\ host' = "graph"
  /\ UNCHANGED <<hostVars, copies, copying, running, device, local>>

Synchronize ==
  /\ host = "graph" /\ stream = <<>>
  /\ host' = "window"
  /\ UNCHANGED <<hostVars, deviceVars, local>>

-----------------------------------------------------------------------------
(* The device.                                                             *)

CopyBegin ==
  /\ copies # <<>> /\ ~copying
  /\ copying' = TRUE
  /\ device' = [device EXCEPT ![Head(copies).region] = None]
  /\ UNCHANGED <<hostVars, copies, stream, running, host, local>>

CopyEnd ==
  /\ copying
  /\ device' = [device EXCEPT ![Head(copies).region] = slot[Head(copies).slot].data]
  /\ copies' = Tail(copies) /\ copying' = FALSE
  /\ UNCHANGED <<hostVars, stream, running, host, local>>

WaitOver ==
  /\ stream # <<>> /\ Head(stream).op = "wait"
  /\ \A q \in Head(stream).on : ~Pending(q.region, q.gen)
  /\ stream' = Tail(stream)
  /\ UNCHANGED <<hostVars, copies, copying, running, device, host, local>>

GraphBegin ==
  /\ stream # <<>> /\ Head(stream) = Graph /\ ~running
  /\ running' = TRUE
  /\ UNCHANGED <<hostVars, copies, copying, stream, device, host, local>>

GraphEnd ==
  /\ running
  /\ running' = FALSE /\ stream' = Tail(stream)
  /\ UNCHANGED <<hostVars, copies, copying, device, host, local>>

-----------------------------------------------------------------------------
CopyStream == CopyBegin \/ CopyEnd
ConsumerStream == WaitOver \/ GraphBegin \/ GraphEnd
Uploads == \E r \in Regions, e \in Experts : Upload(r, e)

Next ==
  \/ Uploads \/ Publish \/ Launch \/ Synchronize
  \/ CopyStream \/ ConsumerStream

Spec == Init /\ [][Next]_vars

-----------------------------------------------------------------------------
(* Properties.                                                             *)

TypeOK ==
  /\ slot \in [Slots -> SlotValues]
  /\ nextSlot \in Slots
  /\ generation \in [Regions -> 1..MaxGen]
  /\ copies \in Seq(Copies)
  /\ copying \in BOOLEAN /\ running \in BOOLEAN /\ local \in BOOLEAN
  /\ stream \in Seq(Entries)
  /\ device \in [Regions -> Experts \cup {None}]
  /\ wanted \in [Regions -> Experts]
  /\ host \in {"window", "uploaded", "graph"}

(* A graph computes with the expert promoted last into each hot region, and *)
(* no copy touches a region while it does.                                 *)
ReadExact == running => device = wanted

(* The pinned bytes of a copy that is not complete are not overwritten: the *)
(* slot in the stream still is in flight for that upload.                   *)
StagingStable ==
  \A i \in DOMAIN copies :
    /\ slot[copies[i].slot].flight
    /\ slot[copies[i].slot].region = copies[i].region
    /\ slot[copies[i].slot].gen = copies[i].gen
=============================================================================
