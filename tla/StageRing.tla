----------------------------- MODULE StageRing -----------------------------
(***************************************************************************)
(* The demand-fetch staging ring (stage_fetch, src/src/llama-expert-tier.cpp): *)
(* a few host buffers into which the compute threads of a cold operator    *)
(* read missing experts from the model file, each buffer guarded by one    *)
(* atomic word that holds its state, its expert and its layer.             *)
(*                                                                         *)
(* A graph is a sequence of cold operators, each of some layer; all        *)
(* compute threads work on one operator, fetch the experts of their rows,  *)
(* and meet at a barrier before the next (ggml_barrier in                  *)
(* src/ggml/src/ggml-cpu/ggml-cpu.c). Each load, store and compare-exchange *)
(* of a word, and each tensor read from the file, is a step of its own.    *)
(*                                                                         *)
(* Abstracted: the bytes of a tensor (named by the layer and the expert    *)
(* they belong to), which experts are routed (any), and the rows: a thread *)
(* makes up to Fetches fetches in an operator. Experts that are found in   *)
(* the demand pool or in the speculative pool never get here.              *)
(***************************************************************************)
EXTENDS Integers, FiniteSets

CONSTANTS Threads,   \* compute threads
          Layers,    \* tiered layers
          Experts,   \* experts of a layer
          Tensors,   \* tiered weight tensors of a layer
          NBuffers,  \* buffers of the ring (g_stage_n)
          Attempts,  \* scans before a fetch gives up: 4
          Fetches,   \* fetches of a thread in an operator
          None

ASSUME RingAssumption ==
  /\ NBuffers \in Nat /\ Attempts \in Nat \ {0} /\ Fetches \in Nat
  /\ None \notin 0..NBuffers /\ None \notin Experts
ASSUME KeysAssumption == None \notin Layers \X Experts

Buffers == 0..(NBuffers - 1)
Keys == Layers \X Experts

(* The word of a buffer: stage_word. A free buffer has no key. *)
Free == [st |-> "free", key |-> None]
Claimed(key) == [st |-> "claimed", key |-> key]
Ready(key) == [st |-> "ready", key |-> key]
Words == {Free} \cup {Claimed(key) : key \in Keys} \cup {Ready(key) : key \in Keys}

VARIABLES
  word,    \* g_stage_word
  bytes,   \* the key each tensor of a buffer holds the slice of
  layer,   \* the layer of the operator under way
  faulty,  \* whether reading the file may fail, for as long as the program runs
  thread   \* thread -> program point, key wanted, buffer, candidate and the
           \* word it had, scans made, tensors still to read, fetches left

vars == <<word, bytes, layer, faulty, thread>>

Points == {"between", "scan", "claim", "wait", "load", "read", "barrier"}
Locals == [pc : Points, key : Keys \cup {None}, k : 0..NBuffers,
           cand : Buffers \cup {None}, old : Words, scans : 0..(Attempts - 1),
           rem : SUBSET Tensors, left : 0..Fetches]

AtRest(n) == [pc |-> "between", key |-> None, k |-> 0, cand |-> None, old |-> Free,
              scans |-> 0, rem |-> {}, left |-> n]

Init ==
  /\ word = [k \in Buffers |-> Free]
  /\ bytes = [k \in Buffers |-> [t \in Tensors |-> None]]
  /\ layer \in Layers /\ faulty \in BOOLEAN
  /\ thread = [p \in Threads |-> AtRest(Fetches)]

Become(p, local) == thread' = [thread EXCEPT ![p] = local]

(* The fetch of thread p is over: it got no buffer and reads the mapping. *)
FallBack(p) == Become(p, AtRest(thread[p].left))
(* It reads the weights in buffer k. *)
ReadFrom(p, k) == Become(p, [thread[p] EXCEPT !.pc = "read", !.k = k])

-----------------------------------------------------------------------------
Fetch(p, e) ==
  /\ thread[p].pc = "between" /\ thread[p].left > 0
  /\ Become(p, [AtRest(thread[p].left - 1) EXCEPT !.pc = "scan", !.key = <<layer, e>>])
  /\ UNCHANGED <<word, bytes, layer, faulty>>

(* A buffer may be taken when it is free, or holds an expert of another    *)
(* layer: the operators of other layers are over.                          *)
ReclaimableIfReady(w, key) == w.st = "free" \/ w.st = "ready"
Reclaimable(w, key) ==
  \/ w.st = "free"
  \/ w.st = "ready" /\ w.key[1] # key[1]

AtBuffer(p) == thread[p].pc = "scan" /\ thread[p].k \in Buffers

ScanHit(p) ==
  /\ AtBuffer(p)
  /\ word[thread[p].k] = Ready(thread[p].key)
  /\ ReadFrom(p, thread[p].k)
  /\ UNCHANGED <<word, bytes, layer, faulty>>

ScanInFlight(p) ==
  /\ AtBuffer(p)
  /\ word[thread[p].k] = Claimed(thread[p].key)
  /\ Become(p, [thread[p] EXCEPT !.pc = "wait"])
  /\ UNCHANGED <<word, bytes, layer, faulty>>

(* The first buffer that may be taken is remembered with its word. *)
ScanOther(p) ==
  /\ AtBuffer(p)
  /\ LET w == word[thread[p].k] IN
       /\ w.key # thread[p].key
       /\ Become(p, IF thread[p].cand = None /\ Reclaimable(w, thread[p].key)
                    THEN [thread[p] EXCEPT !.k = @ + 1, !.cand = thread[p].k, !.old = w]
                    ELSE [thread[p] EXCEPT !.k = @ + 1])
  /\ UNCHANGED <<word, bytes, layer, faulty>>

ScanEnd(p) ==
  /\ thread[p].pc = "scan" /\ thread[p].k = NBuffers
  /\ IF thread[p].cand = None THEN FallBack(p)
     ELSE Become(p, [thread[p] EXCEPT !.pc = "claim"])
  /\ UNCHANGED <<word, bytes, layer, faulty>>

ClaimByStore(p) ==
  /\ thread[p].pc = "claim"
  /\ word' = [word EXCEPT ![thread[p].cand] = Claimed(thread[p].key)]
  /\ Become(p, [thread[p] EXCEPT !.pc = "load", !.k = thread[p].cand, !.rem = Tensors])
  /\ UNCHANGED <<bytes, layer, faulty>>

Claim(p) ==
  /\ thread[p].pc = "claim"
  /\ word[thread[p].cand] = thread[p].old
  /\ word' = [word EXCEPT ![thread[p].cand] = Claimed(thread[p].key)]
  /\ Become(p, [thread[p] EXCEPT !.pc = "load", !.k = thread[p].cand, !.rem = Tensors])
  /\ UNCHANGED <<bytes, layer, faulty>>

(* A lost claim starts another scan, the last one gives up. *)
ClaimLost(p) ==
  /\ thread[p].pc = "claim"
  /\ word[thread[p].cand] # thread[p].old
  /\ IF thread[p].scans + 1 = Attempts THEN FallBack(p)
     ELSE Become(p, [thread[p] EXCEPT !.pc = "scan", !.k = 0, !.cand = None,
                                      !.old = Free, !.scans = @ + 1])
  /\ UNCHANGED <<word, bytes, layer, faulty>>

-----------------------------------------------------------------------------
(* The claimer reads the tensors of the expert from the file.              *)

Load(p) ==
  /\ thread[p].pc = "load"
  /\ \E t \in thread[p].rem :
       /\ bytes' = [bytes EXCEPT ![thread[p].k][t] = thread[p].key]
       /\ Become(p, [thread[p] EXCEPT !.rem = @ \ {t}])
  /\ UNCHANGED <<word, layer, faulty>>

LoadDone(p) ==
  /\ thread[p].pc = "load" /\ thread[p].rem = {}
  /\ word' = [word EXCEPT ![thread[p].k] = Ready(thread[p].key)]
  /\ ReadFrom(p, thread[p].k)
  /\ UNCHANGED <<bytes, layer, faulty>>

LoadFailedKept(p) ==
  /\ thread[p].pc = "load" /\ faulty /\ thread[p].rem # {}
  /\ FallBack(p)
  /\ UNCHANGED <<word, bytes, layer, faulty>>

LoadFailed(p) ==
  /\ thread[p].pc = "load" /\ faulty /\ thread[p].rem # {}
  /\ word' = [word EXCEPT ![thread[p].k] = Free]
  /\ FallBack(p)
  /\ UNCHANGED <<bytes, layer, faulty>>

-----------------------------------------------------------------------------
(* Another thread waits until the word differs from the one it saw.        *)

WaitHit(p) ==
  /\ thread[p].pc = "wait"
  /\ word[thread[p].k] = Ready(thread[p].key)
  /\ ReadFrom(p, thread[p].k)
  /\ UNCHANGED <<word, bytes, layer, faulty>>

WaitForReady(p) ==
  /\ thread[p].pc = "wait"
  /\ word[thread[p].k] # Ready(thread[p].key)
  /\ UNCHANGED vars

WaitFailed(p) ==
  /\ thread[p].pc = "wait"
  /\ word[thread[p].k] \notin {Claimed(thread[p].key), Ready(thread[p].key)}
  /\ FallBack(p)
  /\ UNCHANGED <<word, bytes, layer, faulty>>

(* The thread has multiplied its rows with the weights in the buffer. *)
ReadDone(p) ==
  /\ thread[p].pc = "read"
  /\ Become(p, AtRest(thread[p].left))
  /\ UNCHANGED <<word, bytes, layer, faulty>>

AtBarrier(p) ==
  /\ thread[p].pc = "between"
  /\ Become(p, [AtRest(0) EXCEPT !.pc = "barrier"])
  /\ UNCHANGED <<word, bytes, layer, faulty>>

(* All threads have reached the barrier: the next cold operator. *)
NextOperator ==
  /\ \A p \in Threads : thread[p].pc = "barrier"
  /\ layer' \in Layers
  /\ thread' = [p \in Threads |-> AtRest(Fetches)]
  /\ UNCHANGED <<word, bytes, faulty>>

-----------------------------------------------------------------------------
ThreadStep(p) ==
  \/ ScanHit(p) \/ ScanInFlight(p) \/ ScanOther(p) \/ ScanEnd(p)
  \/ Claim(p) \/ ClaimLost(p)
  \/ Load(p) \/ LoadDone(p) \/ LoadFailed(p)
  \/ WaitHit(p) \/ WaitFailed(p) \/ ReadDone(p) \/ AtBarrier(p)

Next ==
  \/ \E p \in Threads : ThreadStep(p) \/ \E e \in Experts : Fetch(p, e)
  \/ NextOperator

Spec == Init /\ [][Next]_vars

(* Compute threads run on; nothing makes them fetch. *)
Fairness == \A p \in Threads : WF_vars(ThreadStep(p))
FairSpec == Spec /\ Fairness

-----------------------------------------------------------------------------
(* Properties.                                                             *)

TypeOK ==
  /\ word \in [Buffers -> Words]
  /\ bytes \in [Buffers -> [Tensors -> Keys \cup {None}]]
  /\ layer \in Layers /\ faulty \in BOOLEAN
  /\ thread \in [Threads -> Locals]

HoldsOnly(k, key) == \A t \in Tensors : bytes[k][t] = key

(* The weights a thread multiplies with are those of the expert it asked    *)
(* for, until it is done: no buffer is reclaimed under its reader.          *)
FetchExact == \A p \in Threads : thread[p].pc = "read" => HoldsOnly(thread[p].k, thread[p].key)

Loads(p, k) == thread[p].pc = "load" /\ thread[p].k = k

(* A claimed buffer has one thread that reads the file into it, for the     *)
(* expert in its word, so each wait on it is a wait for somebody.           *)
OneLoader ==
  /\ \A k \in Buffers :
       word[k].st = "claimed" => \E p \in Threads : Loads(p, k) /\ thread[p].key = word[k].key
  /\ \A p, q \in Threads, k \in Buffers : Loads(p, k) /\ Loads(q, k) => p = q

(* As long as the file can be read, no expert is in the ring twice, however *)
(* many threads ask for it at once.                                         *)
FetchedOnce ==
  ~faulty => \A j, k \in Buffers : word[j].key = word[k].key /\ word[j] # Free => j = k

(* "ring full of live slots: mmap fallback": when a fetch finds no buffer to *)
(* take, other threads have been at work in this operator. (They have not:   *)
(* buffers left over from an earlier operator of the layer are not taken.)   *)
FullMeansLive ==
  \A p \in Threads :
    thread[p].pc = "scan" /\ thread[p].k = NBuffers /\ thread[p].cand = None =>
      \E q \in Threads \ {p} : thread[q] # AtRest(Fetches)

(* A fetch ends, with the file's help or without: nobody spins for ever.    *)
FetchEnds == \A p \in Threads : thread[p].pc = "scan" ~> thread[p].pc \in {"between", "read"}
=============================================================================
