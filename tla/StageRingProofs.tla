--------------------------- MODULE StageRingProofs ---------------------------
(***************************************************************************)
(* Proofs about the staging ring: for any threads, layers, experts,        *)
(* tensors and any number of buffers, a thread multiplies with the weights *)
(* it asked for, a claimed buffer has exactly one loader, and as long as   *)
(* the file can be read no expert is in the ring twice (OnceInv, below).   *)
(*                                                                         *)
(* Neither property is inductive alone. A reader's buffer is kept from a   *)
(* claim by the layer in its word, so a thread at work has a key of the    *)
(* layer of the operator (ThreadOK), and the word it compares with when it *)
(* claims was free or of another layer. A buffer that is READY is complete *)
(* because its loader, the only one, had read every tensor.                *)
(***************************************************************************)
EXTENDS StageRing, TLAPS

(* What the program point of a thread says about the rest of the state. *)
ThreadOK(l) ==
  /\ l.pc \notin {"between", "barrier"} => l.key \in Keys /\ l.key[1] = layer
  /\ l.pc \in {"wait", "load", "read"} => l.k \in Buffers
  /\ l.pc = "claim" => l.cand \in Buffers
  /\ l.pc \in {"scan", "claim"} /\ l.cand # None => Reclaimable(l.old, l.key)
  /\ l.pc = "load" => /\ word[l.k] = Claimed(l.key)
                      /\ \A t \in Tensors \ l.rem : bytes[l.k][t] = l.key
  /\ l.pc = "read" => word[l.k] = Ready(l.key)

ReadyComplete ==
  \A k \in Buffers, key \in Keys : word[k] = Ready(key) => HoldsOnly(k, key)

IInv ==
  /\ TypeOK
  /\ \A p \in Threads : ThreadOK(thread[p])
  /\ OneLoader
  /\ ReadyComplete

-----------------------------------------------------------------------------
(* The words of a buffer are told apart by state and key. *)
LEMMA WordFacts ==
  /\ Free \in Words /\ Free.st = "free" /\ Free.key = None
  /\ \A key \in Keys : /\ Claimed(key) \in Words /\ Ready(key) \in Words
                       /\ Claimed(key).st = "claimed" /\ Claimed(key).key = key
                       /\ Ready(key).st = "ready" /\ Ready(key).key = key
  /\ \A w \in Words : /\ w.st = "free" => w = Free
                      /\ w.st = "claimed" => w.key \in Keys /\ w = Claimed(w.key)
                      /\ w.st = "ready" => w.key \in Keys /\ w = Ready(w.key)
<1>1. /\ Free \in Words /\ Free.st = "free" /\ Free.key = None
  BY DEF Words, Free
<1>2. ASSUME NEW key \in Keys
      PROVE  /\ Claimed(key) \in Words /\ Ready(key) \in Words
             /\ Claimed(key).st = "claimed" /\ Claimed(key).key = key
             /\ Ready(key).st = "ready" /\ Ready(key).key = key
  BY DEF Words, Claimed, Ready
<1>3. ASSUME NEW w \in Words
      PROVE  \/ w = Free
             \/ \E key \in Keys : w = Claimed(key)
             \/ \E key \in Keys : w = Ready(key)
  BY DEF Words
<1>. QED BY <1>1, <1>2, <1>3

LEMMA RestFacts ==
  ASSUME NEW n \in 0..Fetches
  PROVE  /\ AtRest(n) \in Locals /\ AtRest(n).pc = "between" /\ AtRest(n).left = n
         /\ AtRest(n).key = None /\ AtRest(n).cand = None
BY RingAssumption DEF AtRest, Locals, Points, Words, Free

(* A step that changes one thread's locals and no buffer, outside a load. *)
LEMMA LocalStep ==
  ASSUME IInv, NEW p \in Threads, NEW l \in Locals,
         Become(p, l), UNCHANGED <<word, bytes, layer, faulty>>,
         thread[p].pc # "load", l.pc # "load", ThreadOK(l)
  PROVE  IInv'
<1>1. thread' = [thread EXCEPT ![p] = l] /\ thread \in [Threads -> Locals]
  BY DEF Become, IInv, TypeOK
<1>2. TypeOK'
  BY <1>1 DEF IInv, TypeOK
<1>3. ASSUME NEW q \in Threads PROVE ThreadOK(thread[q])'
  <2>1. CASE q = p
    BY <1>1, <2>1 DEF ThreadOK
  <2>2. CASE q # p
    <3>1. thread'[q] = thread[q]
      BY <1>1, <2>2
    <3>. QED BY <3>1 DEF ThreadOK, IInv
  <2>. QED BY <2>1, <2>2
<1>4. \A q \in Threads, k \in Buffers :
        /\ Loads(q, k)' <=> Loads(q, k)
        /\ Loads(q, k) => thread'[q] = thread[q]
  BY <1>1 DEF Loads
<1>5. OneLoader'
  BY <1>4 DEF IInv, OneLoader
<1>6. ReadyComplete'
  BY DEF IInv, ReadyComplete, HoldsOnly
<1>. QED BY <1>2, <1>3, <1>5, <1>6 DEF IInv

(* Fetch, the scan, the wait, the reads and the barrier are such steps. *)
LEMMA ScanSteps ==
  ASSUME IInv, NEW p \in Threads,
         (\E e \in Experts : Fetch(p, e)) \/ ScanHit(p) \/ ScanInFlight(p)
           \/ ScanOther(p) \/ ScanEnd(p) \/ ClaimLost(p)
  PROVE  IInv'
<1>. DEFINE l == thread[p]
<1>1. /\ l \in Locals /\ ThreadOK(l) /\ l.left \in 0..Fetches
      /\ word \in [Buffers -> Words] /\ layer \in Layers
  BY DEF IInv, TypeOK, Locals
<1>2. CASE \E e \in Experts : Fetch(p, e)
  <2>1. PICK e \in Experts : Fetch(p, e)
    BY <1>2
  <2>. DEFINE m == [AtRest(l.left - 1) EXCEPT !.pc = "scan", !.key = <<layer, e>>]
  <2>2. l.left - 1 \in 0..Fetches
    <3>1. l.left > 0
      BY <2>1 DEF Fetch
    <3>. HIDE DEF l
    <3>. QED BY <1>1, <3>1, RingAssumption
  <2>3. m \in Locals /\ m.pc = "scan" /\ m.key = <<layer, e>> /\ m.cand = None
    BY <1>1, <2>2, RestFacts DEF Locals, Points, Keys, AtRest
  <2>4. ThreadOK(m)
    BY <1>1, <2>3 DEF ThreadOK, Keys
  <2>. QED BY <2>1, <2>3, <2>4, LocalStep DEF Fetch
<1>3. CASE ScanHit(p)
  <2>. DEFINE m == [l EXCEPT !.pc = "read", !.k = l.k]
  <2>1. m \in Locals /\ m.pc = "read" /\ m.k = l.k /\ m.key = l.key
    BY <1>1 DEF Locals, Points
  <2>2. ThreadOK(m)
    BY <1>1, <1>3, <2>1 DEF ThreadOK, ScanHit, AtBuffer
  <2>. QED BY <1>3, <2>1, <2>2, LocalStep DEF ScanHit, AtBuffer, ReadFrom
<1>4. CASE ScanInFlight(p)
  <2>. DEFINE m == [l EXCEPT !.pc = "wait"]
  <2>1. m \in Locals /\ m.pc = "wait" /\ m.k = l.k /\ m.key = l.key
    BY <1>1 DEF Locals, Points
  <2>2. ThreadOK(m)
    BY <1>1, <1>4, <2>1 DEF ThreadOK, ScanInFlight, AtBuffer
  <2>. QED BY <1>4, <2>1, <2>2, LocalStep DEF ScanInFlight, AtBuffer
<1>5. CASE ScanOther(p)
  <2>1. l.pc = "scan" /\ l.k \in Buffers /\ l.k + 1 \in 0..NBuffers /\ word[l.k] \in Words
    BY <1>1, <1>5, RingAssumption DEF ScanOther, AtBuffer, Buffers
  <2>2. CASE l.cand = None /\ Reclaimable(word[l.k], l.key)
    <3>. DEFINE m == [l EXCEPT !.k = @ + 1, !.cand = l.k, !.old = word[l.k]]
    <3>1. m \in Locals /\ m.pc = "scan" /\ m.cand = l.k /\ m.old = word[l.k] /\ m.key = l.key
      BY <1>1, <2>1 DEF Locals
    <3>2. ThreadOK(m)
      BY <1>1, <2>1, <2>2, <3>1 DEF ThreadOK
    <3>. QED BY <1>5, <2>1, <2>2, <3>1, <3>2, LocalStep DEF ScanOther
  <2>3. CASE ~(l.cand = None /\ Reclaimable(word[l.k], l.key))
    <3>. DEFINE m == [l EXCEPT !.k = @ + 1]
    <3>1. m \in Locals /\ m.pc = "scan" /\ m.cand = l.cand /\ m.old = l.old /\ m.key = l.key
      BY <1>1, <2>1 DEF Locals
    <3>2. ThreadOK(m)
      BY <1>1, <2>1, <3>1 DEF ThreadOK
    <3>. QED BY <1>5, <2>1, <2>3, <3>1, <3>2, LocalStep DEF ScanOther
  <2>. QED BY <2>2, <2>3
<1>6. CASE ScanEnd(p)
  <2>1. CASE l.cand = None
    <3>1. ThreadOK(AtRest(l.left))
      BY <1>1, RestFacts DEF ThreadOK
    <3>. QED BY <1>1, <1>6, <2>1, <3>1, RestFacts, LocalStep DEF ScanEnd, FallBack
  <2>2. CASE l.cand # None
    <3>. DEFINE m == [l EXCEPT !.pc = "claim"]
    <3>1. m \in Locals /\ m.pc = "claim" /\ m.cand = l.cand /\ m.old = l.old /\ m.key = l.key
      BY <1>1 DEF Locals, Points
    <3>2. l.cand \in Buffers
      BY <1>1, <2>2 DEF Locals
    <3>3. ThreadOK(m)
      BY <1>1, <1>6, <3>1, <3>2 DEF ThreadOK, ScanEnd
    <3>. QED BY <1>6, <2>2, <3>1, <3>3, LocalStep DEF ScanEnd
  <2>. QED BY <2>1, <2>2
<1>7. CASE ClaimLost(p)
  <2>1. CASE l.scans + 1 = Attempts
    <3>1. ThreadOK(AtRest(l.left))
      BY <1>1, RestFacts DEF ThreadOK
    <3>. QED BY <1>1, <1>7, <2>1, <3>1, RestFacts, LocalStep DEF ClaimLost, FallBack
  <2>2. CASE l.scans + 1 # Attempts
    <3>. DEFINE m == [l EXCEPT !.pc = "scan", !.k = 0, !.cand = None, !.old = Free,
                               !.scans = @ + 1]
    <3>1. l.scans + 1 \in 0..(Attempts - 1) /\ 0 \in 0..NBuffers
      BY <1>1, <2>2, RingAssumption DEF Locals
    <3>2. m \in Locals /\ m.pc = "scan" /\ m.cand = None /\ m.key = l.key
      BY <1>1, <3>1, WordFacts DEF Locals, Points
    <3>3. ThreadOK(m)
      BY <1>1, <1>7, <3>2 DEF ThreadOK, ClaimLost
    <3>. QED BY <1>7, <2>2, <3>2, <3>3, LocalStep DEF ClaimLost
  <2>. QED BY <2>1, <2>2
<1>. QED BY <1>2, <1>3, <1>4, <1>5, <1>6, <1>7

LEMMA OtherLocalSteps ==
  ASSUME IInv, NEW p \in Threads,
         WaitHit(p) \/ WaitFailed(p) \/ ReadDone(p) \/ AtBarrier(p)
  PROVE  IInv'
<1>. DEFINE l == thread[p]
<1>1. l \in Locals /\ ThreadOK(l) /\ l.left \in 0..Fetches
  BY DEF IInv, TypeOK, Locals
<1>2. CASE WaitHit(p)
  <2>. DEFINE m == [l EXCEPT !.pc = "read", !.k = l.k]
  <2>1. m \in Locals /\ m.pc = "read" /\ m.k = l.k /\ m.key = l.key
    BY <1>1 DEF Locals, Points
  <2>2. ThreadOK(m)
    BY <1>1, <1>2, <2>1 DEF ThreadOK, WaitHit
  <2>. QED BY <1>2, <2>1, <2>2, LocalStep DEF WaitHit, ReadFrom
<1>3. CASE WaitFailed(p) \/ ReadDone(p)
  <2>1. ThreadOK(AtRest(l.left))
    BY <1>1, RestFacts DEF ThreadOK
  <2>. QED BY <1>1, <1>3, <2>1, RestFacts, LocalStep DEF WaitFailed, ReadDone, FallBack
<1>4. CASE AtBarrier(p)
  <2>. DEFINE m == [AtRest(0) EXCEPT !.pc = "barrier"]
  <2>1. 0 \in 0..Fetches
    BY RingAssumption
  <2>2. m \in Locals /\ m.pc = "barrier" /\ m.cand = None
    BY <2>1, RestFacts DEF Locals, Points, AtRest
  <2>3. ThreadOK(m)
    BY <2>2 DEF ThreadOK
  <2>. QED BY <1>4, <2>2, <2>3, LocalStep DEF AtBarrier
<1>. QED BY <1>2, <1>3, <1>4

-----------------------------------------------------------------------------
(* The compare-exchange found the word the candidate had: it was free, or   *)
(* READY for another layer, so nobody loads into the buffer or reads it.    *)
LEMMA ClaimStep ==
  ASSUME IInv, NEW p \in Threads, Claim(p)
  PROVE  IInv'
<1>. DEFINE l == thread[p]
            c == l.cand
            m == [l EXCEPT !.pc = "load", !.k = c, !.rem = Tensors]
<1>1. /\ l \in Locals /\ ThreadOK(l) /\ l.pc = "claim" /\ c \in Buffers /\ c # None
      /\ l.key \in Keys /\ l.key[1] = layer /\ Reclaimable(l.old, l.key)
      /\ word \in [Buffers -> Words] /\ thread \in [Threads -> Locals]
  BY RingAssumption DEF IInv, TypeOK, ThreadOK, Claim, Buffers
<1>2. /\ word[c] = l.old /\ word' = [word EXCEPT ![c] = Claimed(l.key)]
      /\ thread' = [thread EXCEPT ![p] = m] /\ UNCHANGED <<bytes, layer, faulty>>
  BY DEF Claim, Become
<1>3. m \in Locals /\ m.pc = "load" /\ m.k = c /\ m.key = l.key /\ m.rem = Tensors
  <2>1. c \in 0..NBuffers
    <3>. HIDE DEF c
    <3>. QED BY <1>1, RingAssumption DEF Buffers
  <2>. QED BY <1>1, <2>1 DEF Locals, Points
<1>4. Claimed(l.key) \in Words
  BY <1>1, WordFacts
<1>5. \A key \in Keys : key[1] = layer => word[c] # Claimed(key) /\ word[c] # Ready(key)
  BY <1>1, <1>2, WordFacts DEF Reclaimable
<1>6. \A q \in Threads : thread[q].pc \in {"load", "read"} => thread[q].k # c
  BY <1>5 DEF IInv, ThreadOK
<1>7. \A q \in Threads : q # p => thread'[q] = thread[q]
  BY <1>2
<1>8. thread'[p] = m /\ word'[c] = Claimed(l.key)
  BY <1>1, <1>2
<1>9. \A k \in Buffers : k # c => word'[k] = word[k]
  BY <1>1, <1>2
<1>. HIDE DEF m, c, l
<1>10. TypeOK'
  BY <1>1, <1>2, <1>3, <1>4 DEF IInv, TypeOK
<1>11. ASSUME NEW q \in Threads PROVE ThreadOK(thread[q])'
  <2>1. CASE q = p
    BY <1>1, <1>2, <1>3, <1>8, <2>1 DEF ThreadOK
  <2>2. CASE q # p
    <3>1. ThreadOK(thread[q]) /\ thread'[q] = thread[q]
      BY <1>7, <2>2 DEF IInv
    <3>2. thread[q].pc \in {"load", "read"} =>
            thread[q].k \in Buffers /\ word'[thread[q].k] = word[thread[q].k]
      BY <1>6, <1>9, <3>1 DEF ThreadOK
    <3>. QED BY <1>2, <3>1, <3>2 DEF ThreadOK
  <2>. QED BY <2>1, <2>2
<1>12. OneLoader'
  <2>1. ASSUME NEW k \in Buffers, word'[k].st = "claimed"
        PROVE  \E q \in Threads : Loads(q, k)' /\ thread'[q].key = word'[k].key
    <3>1. CASE k = c
      BY <1>1, <1>3, <1>8, <3>1, WordFacts DEF Loads
    <3>2. CASE k # c
      <4>1. PICK q \in Threads : Loads(q, k) /\ thread[q].key = word[k].key
        BY <1>9, <2>1, <3>2 DEF IInv, OneLoader
      <4>2. q # p
        BY <1>1, <4>1 DEF Loads, l
      <4>. QED BY <1>7, <1>9, <3>2, <4>1, <4>2 DEF Loads
    <3>. QED BY <3>1, <3>2
  <2>2. ASSUME NEW q \in Threads, NEW r \in Threads, NEW k \in Buffers,
               Loads(q, k)', Loads(r, k)'
        PROVE  q = r
    <3>1. \A t \in Threads : Loads(t, k)' => (t = p /\ k = c) \/ (Loads(t, k) /\ k # c)
      BY <1>3, <1>6, <1>7, <1>8 DEF Loads
    <3>. QED BY <2>2, <3>1 DEF IInv, OneLoader
  <2>. QED BY <2>1, <2>2 DEF OneLoader
<1>13. ReadyComplete'
  <2>1. \A key \in Keys : word'[c] # Ready(key)
    BY <1>1, <1>8, WordFacts
  <2>. QED BY <1>2, <1>9, <2>1 DEF IInv, ReadyComplete, HoldsOnly
<1>. QED BY <1>10, <1>11, <1>12, <1>13 DEF IInv

(* A loader is alone at its buffer, whose word is neither READY nor FREE.   *)
LEMMA LoaderAlone ==
  ASSUME IInv, NEW p \in Threads, thread[p].pc = "load"
  PROVE  /\ thread[p] \in Locals /\ thread[p].k \in Buffers /\ thread[p].key \in Keys
         /\ ThreadOK(thread[p]) /\ thread[p].left \in 0..Fetches
         /\ word[thread[p].k] = Claimed(thread[p].key)
         /\ \A q \in Threads \ {p} : thread[q].pc \in {"load", "read"} =>
              thread[q].k \in Buffers \ {thread[p].k}
<1>1. /\ thread[p] \in Locals /\ thread[p].k \in Buffers /\ thread[p].key \in Keys
      /\ ThreadOK(thread[p]) /\ word[thread[p].k] = Claimed(thread[p].key)
  BY DEF IInv, TypeOK, ThreadOK
<1>2. thread[p].left \in 0..Fetches
  BY <1>1 DEF Locals
<1>3. ASSUME NEW q \in Threads \ {p}, thread[q].pc \in {"load", "read"}
      PROVE  thread[q].k \in Buffers \ {thread[p].k}
  <2>1. ThreadOK(thread[q]) /\ thread[q].k \in Buffers
    BY <1>3 DEF IInv, ThreadOK
  <2>2. CASE thread[q].pc = "load"
    BY <1>1, <2>1, <2>2 DEF IInv, OneLoader, Loads
  <2>3. CASE thread[q].pc = "read"
    <3>1. thread[q].key \in Keys /\ word[thread[q].k] = Ready(thread[q].key)
      BY <2>1, <2>3 DEF ThreadOK
    <3>. QED BY <1>1, <2>1, <3>1, WordFacts
  <2>. QED BY <1>3, <2>2, <2>3
<1>. QED BY <1>1, <1>2, <1>3

LEMMA LoadStep ==
  ASSUME IInv, NEW p \in Threads, Load(p)
  PROVE  IInv'
<1>. DEFINE l == thread[p]
<1>1. PICK t \in l.rem : /\ bytes' = [bytes EXCEPT ![l.k][t] = l.key]
                         /\ thread' = [thread EXCEPT ![p] = [l EXCEPT !.rem = @ \ {t}]]
  BY DEF Load, Become
<1>2. l.pc = "load" /\ UNCHANGED <<word, layer, faulty>>
  BY DEF Load
<1>3. /\ l \in Locals /\ l.k \in Buffers /\ l.key \in Keys /\ ThreadOK(l)
      /\ word[l.k] = Claimed(l.key)
      /\ \A q \in Threads \ {p} : thread[q].pc \in {"load", "read"} => thread[q].k \in Buffers \ {l.k}
  BY <1>2, LoaderAlone
<1>4. t \in Tensors
  BY <1>3 DEF Locals
<1>5. /\ bytes \in [Buffers -> [Tensors -> Keys \cup {None}]]
      /\ thread \in [Threads -> Locals]
  BY DEF IInv, TypeOK
<1>. DEFINE m == [l EXCEPT !.rem = @ \ {t}]
<1>6. m \in Locals /\ m.pc = "load" /\ m.k = l.k /\ m.key = l.key /\ m.rem = l.rem \ {t}
  BY <1>2, <1>3 DEF Locals
<1>7. thread'[p] = m /\ \A q \in Threads \ {p} : thread'[q] = thread[q]
  BY <1>1, <1>5
<1>8. /\ \A k \in Buffers : k # l.k => bytes'[k] = bytes[k]
      /\ \A s \in Tensors : bytes'[l.k][s] = IF s = t THEN l.key ELSE bytes[l.k][s]
  BY <1>1, <1>3, <1>4, <1>5
<1>9. TypeOK'
  <2>1. bytes' \in [Buffers -> [Tensors -> Keys \cup {None}]]
    BY <1>1, <1>3, <1>4, <1>5
  <2>2. thread' \in [Threads -> Locals]
    BY <1>1, <1>5, <1>6
  <2>. QED BY <1>2, <2>1, <2>2 DEF IInv, TypeOK
<1>. HIDE DEF m, l
<1>10. ASSUME NEW q \in Threads PROVE ThreadOK(thread[q])'
  <2>1. CASE q = p
    BY <1>2, <1>3, <1>6, <1>7, <1>8, <2>1 DEF ThreadOK
  <2>2. CASE q # p
    <3>1. ThreadOK(thread[q]) /\ thread'[q] = thread[q]
      BY <1>7, <2>2 DEF IInv
    <3>2. thread[q].pc = "load" => bytes'[thread[q].k] = bytes[thread[q].k]
      BY <1>3, <1>8, <2>2
    <3>. QED BY <1>2, <3>1, <3>2 DEF ThreadOK
  <2>. QED BY <2>1, <2>2
<1>11. OneLoader'
  <2>1. \A q \in Threads, k \in Buffers :
          (Loads(q, k)' <=> Loads(q, k)) /\ thread'[q].key = thread[q].key
    BY <1>2, <1>6, <1>7 DEF Loads, l
  <2>. QED BY <1>2, <2>1 DEF IInv, OneLoader
<1>12. ReadyComplete'
  <2>1. \A key \in Keys : word[l.k] # Ready(key)
    BY <1>3, WordFacts
  <2>. QED BY <1>2, <1>8, <2>1 DEF IInv, ReadyComplete, HoldsOnly
<1>. QED BY <1>9, <1>10, <1>11, <1>12 DEF IInv

(* The loader gives its buffer the word w and goes on with the locals m.    *)
LEMMA StoreStep ==
  ASSUME IInv, NEW p \in Threads, thread[p].pc = "load",
         NEW w \in Words, NEW m \in Locals,
         word' = [word EXCEPT ![thread[p].k] = w],
         Become(p, m), UNCHANGED <<bytes, layer, faulty>>,
         w.st # "claimed",
         \/ m.pc = "between" /\ m.cand = None
         \/ /\ m.pc = "read" /\ m.k = thread[p].k /\ w = Ready(m.key)
            /\ m.key \in Keys /\ m.key[1] = layer,
         \A key \in Keys : w = Ready(key) => HoldsOnly(thread[p].k, key)
  PROVE  IInv'
<1>. DEFINE b == thread[p].k
<1>1. /\ thread[p] \in Locals /\ b \in Buffers /\ word[b] = Claimed(thread[p].key)
      /\ \A q \in Threads \ {p} : thread[q].pc \in {"load", "read"} => thread[q].k \in Buffers \ {b}
  BY LoaderAlone
<1>2. thread \in [Threads -> Locals] /\ word \in [Buffers -> Words]
  BY DEF IInv, TypeOK
<1>3. /\ thread'[p] = m /\ \A q \in Threads \ {p} : thread'[q] = thread[q]
      /\ word'[b] = w /\ \A k \in Buffers : k # b => word'[k] = word[k]
  BY <1>1, <1>2 DEF Become
<1>4. TypeOK'
  BY <1>1, <1>2 DEF IInv, TypeOK, Become
<1>. HIDE DEF b
<1>5. ASSUME NEW q \in Threads PROVE ThreadOK(thread[q])'
  <2>1. CASE q = p
    BY <1>1, <1>3, <2>1 DEF ThreadOK, b
  <2>2. CASE q # p
    <3>1. ThreadOK(thread[q]) /\ thread'[q] = thread[q]
      BY <1>3, <2>2 DEF IInv
    <3>2. thread[q].pc \in {"load", "read"} => word'[thread[q].k] = word[thread[q].k]
      BY <1>1, <1>3, <2>2
    <3>. QED BY <3>1, <3>2 DEF ThreadOK
  <2>. QED BY <2>1, <2>2
<1>6. OneLoader'
  <2>1. \A q \in Threads, k \in Buffers : Loads(q, k)' <=> Loads(q, k) /\ q # p
    BY <1>3 DEF Loads
  <2>2. \A q \in Threads, k \in Buffers : Loads(q, k) /\ q # p => thread'[q].key = thread[q].key
    BY <1>3
  <2>3. ASSUME NEW k \in Buffers, word'[k].st = "claimed"
        PROVE  \E q \in Threads : Loads(q, k)' /\ thread'[q].key = word'[k].key
    <3>1. k # b /\ word'[k] = word[k]
      BY <1>3, <2>3
    <3>2. PICK q \in Threads : Loads(q, k) /\ thread[q].key = word[k].key
      BY <2>3, <3>1 DEF IInv, OneLoader
    <3>3. q # p
      BY <3>1, <3>2 DEF Loads, b
    <3>. QED BY <2>1, <2>2, <3>1, <3>2, <3>3
  <2>. QED BY <2>1, <2>3 DEF IInv, OneLoader
<1>7. ReadyComplete'
  BY <1>1, <1>3 DEF IInv, ReadyComplete, HoldsOnly, b
<1>. QED BY <1>4, <1>5, <1>6, <1>7 DEF IInv

LEMMA LoadEnds ==
  ASSUME IInv, NEW p \in Threads, LoadDone(p) \/ LoadFailed(p)
  PROVE  IInv'
<1>. DEFINE l == thread[p]
<1>1. l.pc = "load"
  BY DEF LoadDone, LoadFailed
<1>2. /\ l \in Locals /\ l.k \in Buffers /\ l.key \in Keys /\ ThreadOK(l)
      /\ l.left \in 0..Fetches
  BY <1>1, LoaderAlone
<1>3. CASE LoadDone(p)
  <2>. DEFINE m == [l EXCEPT !.pc = "read", !.k = l.k]
              w == Ready(l.key)
  <2>1. l.rem = {} /\ word' = [word EXCEPT ![l.k] = w] /\ UNCHANGED <<bytes, layer, faulty>>
    BY <1>3 DEF LoadDone
  <2>2. Become(p, m)
    BY <1>3 DEF LoadDone, ReadFrom
  <2>3. m \in Locals /\ m.pc = "read" /\ m.k = l.k /\ m.key = l.key
    BY <1>2 DEF Locals, Points
  <2>4. w \in Words /\ w.st # "claimed" /\ \A key \in Keys : w = Ready(key) => key = l.key
    BY <1>2, WordFacts
  <2>5. HoldsOnly(l.k, l.key)
    BY <1>1, <1>2, <2>1 DEF ThreadOK, HoldsOnly
  <2>6. m.key[1] = layer
    BY <1>1, <1>2, <2>3 DEF ThreadOK
  <2>. QED BY <1>1, <1>2, <2>1, <2>2, <2>3, <2>4, <2>5, <2>6, StoreStep
<1>4. CASE LoadFailed(p)
  <2>1. word' = [word EXCEPT ![l.k] = Free] /\ UNCHANGED <<bytes, layer, faulty>>
    BY <1>4 DEF LoadFailed
  <2>2. Become(p, AtRest(l.left))
    BY <1>4 DEF LoadFailed, FallBack
  <2>3. Free \in Words /\ Free.st # "claimed" /\ \A key \in Keys : Free # Ready(key)
    BY WordFacts
  <2>4. AtRest(l.left) \in Locals /\ AtRest(l.left).pc = "between" /\ AtRest(l.left).cand = None
    BY <1>2, RestFacts
  <2>. QED BY <1>1, <2>1, <2>2, <2>3, <2>4, StoreStep
<1>. QED BY <1>3, <1>4

(* Between operators nobody reads, so the readers' layer may change. *)
LEMMA BarrierStep ==
  ASSUME IInv, NextOperator
  PROVE  IInv'
<1>1. /\ \A p \in Threads : thread[p].pc = "barrier"
      /\ layer' \in Layers /\ thread' = [p \in Threads |-> AtRest(Fetches)]
      /\ UNCHANGED <<word, bytes, faulty>>
  BY DEF NextOperator
<1>2. Fetches \in 0..Fetches
  BY RingAssumption
<1>3. \A p \in Threads : /\ thread'[p] \in Locals /\ thread'[p].pc = "between"
                         /\ thread'[p].cand = None
  BY <1>1, <1>2, RestFacts
<1>4. TypeOK'
  BY <1>1, <1>3 DEF IInv, TypeOK
<1>5. \A p \in Threads : ThreadOK(thread[p])'
  BY <1>3 DEF ThreadOK
<1>6. OneLoader'
  BY <1>1, <1>3 DEF IInv, OneLoader, Loads
<1>7. ReadyComplete'
  BY <1>1 DEF IInv, ReadyComplete, HoldsOnly
<1>. QED BY <1>4, <1>5, <1>6, <1>7 DEF IInv

LEMMA Initially == Init => IInv
<1>. SUFFICES ASSUME Init PROVE IInv
  OBVIOUS
<1>1. /\ word = [k \in Buffers |-> Free] /\ bytes = [k \in Buffers |-> [t \in Tensors |-> None]]
      /\ layer \in Layers /\ faulty \in BOOLEAN /\ thread = [p \in Threads |-> AtRest(Fetches)]
  BY DEF Init
<1>2. Fetches \in 0..Fetches
  BY RingAssumption
<1>3. \A p \in Threads : /\ thread[p] \in Locals /\ thread[p].pc = "between"
                         /\ thread[p].cand = None
  BY <1>1, <1>2, RestFacts
<1>4. TypeOK
  BY <1>1, <1>3, WordFacts DEF TypeOK
<1>5. \A p \in Threads : ThreadOK(thread[p])
  BY <1>3 DEF ThreadOK
<1>6. OneLoader
  BY <1>1, <1>3, WordFacts DEF OneLoader, Loads
<1>7. ReadyComplete
  BY <1>1, WordFacts DEF ReadyComplete
<1>. QED BY <1>4, <1>5, <1>6, <1>7 DEF IInv

LEMMA Induction == IInv /\ [Next]_vars => IInv'
<1>. SUFFICES ASSUME IInv, [Next]_vars PROVE IInv'
  OBVIOUS
<1>1. CASE UNCHANGED vars
  BY <1>1 DEF vars, IInv, TypeOK, ThreadOK, OneLoader, Loads, ReadyComplete, HoldsOnly
<1>2. CASE \E p \in Threads : ThreadStep(p) \/ \E e \in Experts : Fetch(p, e)
  <2>1. PICK p \in Threads : ThreadStep(p) \/ \E e \in Experts : Fetch(p, e)
    BY <1>2
  <2>. QED BY <2>1, ScanSteps, OtherLocalSteps, ClaimStep, LoadStep, LoadEnds DEF ThreadStep
<1>3. CASE NextOperator
  BY <1>3, BarrierStep
<1>. QED BY <1>1, <1>2, <1>3 DEF Next

-----------------------------------------------------------------------------
(* The invariant of the ring: what each program point of stage_fetch knows  *)
(* about the buffer it works on.                                           *)
THEOREM Invariance == Spec => []IInv
BY Initially, Induction, PTL DEF Spec

(* Every word, buffer and program point keeps its type. *)
THEOREM TypeCorrect == Spec => []TypeOK
<1>1. IInv => TypeOK
  BY DEF IInv
<1>. QED BY <1>1, Invariance, PTL

(* The address stage_fetch returns holds the expert it was asked for, in    *)
(* every tensor and until the multiplication is done.                      *)
THEOREM FetchesAreExact == Spec => []FetchExact
<1>1. IInv => FetchExact
  BY DEF IInv, ThreadOK, ReadyComplete, FetchExact
<1>. QED BY <1>1, Invariance, PTL

(* A claimed buffer has exactly one thread reading the file into it.        *)
THEOREM LoaderIsUnique == Spec => []OneLoader
<1>1. IInv => OneLoader
  BY DEF IInv
<1>. QED BY <1>1, Invariance, PTL

-----------------------------------------------------------------------------
(* No expert is in the ring twice. All threads scan the ring in one order   *)
(* and take the first buffer they may take, and within an operator a buffer *)
(* that may not be taken stays so. If two threads want one expert, the one  *)
(* whose claim comes later wants the same buffer, or one that the earlier   *)
(* claim's scan found taken: its compare-exchange fails.                    *)

(* Buffer k may be taken by an operator of the layer under way. *)
Open(k) == \/ word[k].st = "free"
           \/ word[k].st = "ready" /\ word[k].key[1] # layer

(* The buffers a thread has passed, below its candidate or below its place, *)
(* are not open; if one of them holds its expert now, its claim will fail.  *)
ScanOK(l) ==
  /\ l.pc = "claim" => l.k = NBuffers /\ l.cand # None
  /\ l.cand # None => l.cand \in Buffers /\ l.cand < l.k
  /\ \A i \in Buffers : i < l.k /\ (l.cand = None \/ i < l.cand) => ~Open(i)
  /\ \A i \in Buffers : i < l.k /\ word[i].key = l.key =>
                          l.cand # None /\ ~Open(l.cand)
ScanInv == \A p \in Threads : thread[p].pc \in {"scan", "claim"} => ScanOK(thread[p])

OnceInv == ~faulty => FetchedOnce /\ ScanInv

(* A thread that scans wants an expert of the layer under way, and its      *)
(* candidate was open when it passed.                                      *)
LEMMA ScanFacts ==
  ASSUME IInv, NEW p \in Threads, thread[p].pc \in {"scan", "claim"}
  PROVE  /\ thread[p].key \in Keys /\ thread[p].key[1] = layer
         /\ thread[p].k \in 0..NBuffers /\ thread[p].cand \in Buffers \cup {None}
         /\ thread[p].cand # None => Reclaimable(thread[p].old, thread[p].key)
BY DEF IInv, TypeOK, ThreadOK, Locals

(* The scanning thread p goes on with the locals m, no buffer changes. *)
LEMMA OnceLocal ==
  ASSUME IInv, OnceInv, NEW p \in Threads, NEW m \in Locals,
         Become(p, m), UNCHANGED <<word, bytes, layer, faulty>>,
         ~faulty /\ m.pc \in {"scan", "claim"} => ScanOK(m)
  PROVE  OnceInv'
<1>1. SUFFICES ASSUME ~faulty PROVE FetchedOnce' /\ ScanInv'
  BY DEF OnceInv
<1>2. FetchedOnce'
  BY <1>1 DEF OnceInv, FetchedOnce
<1>3. thread'[p] = m /\ \A q \in Threads \ {p} : thread'[q] = thread[q]
  BY DEF Become, IInv, TypeOK
<1>4. ASSUME NEW q \in Threads, thread'[q].pc \in {"scan", "claim"}
      PROVE  ScanOK(thread[q])'
  <2>1. ScanOK(thread'[q])
    BY <1>1, <1>3, <1>4 DEF OnceInv, ScanInv
  <2>. QED BY <2>1 DEF ScanOK, Open
<1>. QED BY <1>2, <1>4 DEF ScanInv

(* Fetches begin and end, a buffer is passed, a scan ends. *)
LEMMA OnceScan ==
  ASSUME IInv, OnceInv, NEW p \in Threads,
         (\E e \in Experts : Fetch(p, e)) \/ ScanHit(p) \/ ScanInFlight(p)
           \/ ScanOther(p) \/ ScanEnd(p) \/ ClaimLost(p)
           \/ WaitHit(p) \/ WaitFailed(p) \/ ReadDone(p) \/ AtBarrier(p)
  PROVE  OnceInv'
<1>. DEFINE l == thread[p]
            m == thread'[p]
<1>1. /\ l \in Locals /\ l.left \in 0..Fetches /\ thread \in [Threads -> Locals]
      /\ word \in [Buffers -> Words]
  BY DEF IInv, TypeOK, Locals
<1>2. IInv'
  BY ScanSteps, OtherLocalSteps
<1>3. m \in Locals
  BY <1>2 DEF IInv, TypeOK
<1>4. UNCHANGED <<word, bytes, layer, faulty>> /\ thread' = [thread EXCEPT ![p] = m]
  BY <1>1 DEF Fetch, ScanHit, ScanInFlight, ScanOther, ScanEnd, ClaimLost,
     WaitHit, WaitFailed, ReadDone, AtBarrier, Become, FallBack, ReadFrom
<1>5. ASSUME ~faulty, m.pc \in {"scan", "claim"} PROVE ScanOK(m)
  <2>1. CASE ScanOther(p)
    <3>1. /\ l.pc = "scan" /\ l.k \in Buffers /\ word[l.k].key # l.key
          /\ l.key[1] = layer /\ ScanOK(l) /\ l.cand \in Buffers \cup {None}
      BY <1>5, <2>1, ScanFacts DEF ScanOther, AtBuffer, OnceInv, ScanInv
    <3>2. Open(l.k) <=> Reclaimable(word[l.k], l.key)
      BY <3>1 DEF Open, Reclaimable
    <3>3. \A i \in Buffers : i < l.k + 1 => i < l.k \/ i = l.k
      BY <3>1 DEF Buffers
    <3>4. l.k < l.k + 1 /\ \A i \in Buffers : i < l.k => i < l.k + 1
      BY <3>1 DEF Buffers
    <3>5. l.k # None
      BY <3>1, RingAssumption DEF Buffers
    <3>6. CASE l.cand = None /\ Reclaimable(word[l.k], l.key)
      <4>1. /\ m.pc = "scan" /\ m.k = l.k + 1 /\ m.cand = l.k /\ m.key = l.key
        BY <1>1, <2>1, <3>1, <3>6 DEF ScanOther, Become, Locals
      <4>2. \A i \in Buffers : i < l.k => word[i].key # l.key /\ ~Open(i)
        BY <3>1, <3>6 DEF ScanOK
      <4>. QED BY <3>1, <3>3, <3>4, <3>5, <4>1, <4>2 DEF ScanOK
    <3>7. CASE ~(l.cand = None /\ Reclaimable(word[l.k], l.key))
      <4>1. /\ m.pc = "scan" /\ m.k = l.k + 1 /\ m.cand = l.cand /\ m.key = l.key
        BY <1>1, <2>1, <3>1, <3>7 DEF ScanOther, Become, Locals
      <4>2. m.cand # None => m.cand \in Buffers /\ m.cand < m.k
        BY <3>1, <3>4, <4>1 DEF ScanOK
      <4>3. ASSUME NEW i \in Buffers, i < m.k, m.cand = None \/ i < m.cand PROVE ~Open(i)
        <5>1. CASE i < l.k
          BY <3>1, <4>1, <4>3, <5>1 DEF ScanOK
        <5>2. CASE i = l.k
          <6>1. m.cand = None
            BY <3>1, <4>1, <4>3, <5>2 DEF ScanOK, Buffers
          <6>. QED BY <3>2, <3>7, <4>1, <5>2, <6>1
        <5>. QED BY <3>3, <4>1, <4>3, <5>1, <5>2
      <4>4. ASSUME NEW i \in Buffers, i < m.k, word[i].key = m.key
            PROVE  m.cand # None /\ ~Open(m.cand)
        <5>1. i < l.k
          BY <3>1, <3>3, <4>1, <4>4
        <5>. QED BY <3>1, <4>1, <4>4, <5>1 DEF ScanOK
      <4>. QED BY <4>1, <4>2, <4>3, <4>4 DEF ScanOK
    <3>. QED BY <3>6, <3>7
  <2>2. CASE ScanEnd(p)
    <3>1. l.pc = "scan" /\ l.k = NBuffers /\ ScanOK(l)
      BY <1>5, <2>2 DEF ScanEnd, OnceInv, ScanInv
    <3>2. l.cand # None
      BY <1>1, <1>5, <2>2, RestFacts DEF ScanEnd, FallBack, Become
    <3>3. m.pc = "claim" /\ m.k = l.k /\ m.cand = l.cand /\ m.key = l.key
      BY <1>1, <2>2, <3>2 DEF ScanEnd, Become, Locals
    <3>. QED BY <3>1, <3>2, <3>3 DEF ScanOK
  <2>3. CASE m.pc = "scan" /\ m.k = 0 /\ m.cand = None
    BY <2>3 DEF ScanOK, Buffers
  <2>4. CASE \E e \in Experts : Fetch(p, e)
    <3>1. PICK e \in Experts : Fetch(p, e)
      BY <2>4
    <3>2. m = [AtRest(l.left - 1) EXCEPT !.pc = "scan", !.key = <<layer, e>>]
      BY <1>1, <3>1 DEF Fetch, Become
    <3>3. m.pc = "scan" /\ m.k = 0 /\ m.cand = None
      BY <3>2 DEF AtRest
    <3>. QED BY <2>3, <3>3
  <2>5. CASE ClaimLost(p)
    <3>1. l.scans + 1 # Attempts
      BY <1>1, <1>5, <2>5, RestFacts DEF ClaimLost, FallBack, Become
    <3>2. m.pc = "scan" /\ m.k = 0 /\ m.cand = None
      BY <1>1, <2>5, <3>1, ZenonT(60) DEF ClaimLost, Become, Locals
    <3>. QED BY <2>3, <3>2
  <2>6. CASE ScanHit(p) \/ WaitHit(p) \/ ScanInFlight(p)
    BY <1>1, <1>5, <2>6, ZenonT(60) DEF ScanHit, WaitHit, ScanInFlight, ReadFrom, Become, Locals
  <2>7. CASE WaitFailed(p) \/ ReadDone(p)
    BY <1>1, <1>5, <2>7, RestFacts DEF WaitFailed, ReadDone, FallBack, Become
  <2>8. CASE AtBarrier(p)
    <3>1. m = [AtRest(0) EXCEPT !.pc = "barrier"]
      BY <1>1, <2>8 DEF AtBarrier, Become
    <3>. QED BY <1>5, <3>1 DEF AtRest
  <2>. QED BY <2>1, <2>2, <2>4, <2>5, <2>6, <2>7, <2>8
<1>. HIDE DEF m
<1>. QED BY <1>3, <1>4, <1>5, OnceLocal DEF Become

(* A claim takes an open buffer below which none is open, and nobody has    *)
(* the expert: what is above was passed without it, or would have closed    *)
(* the candidate.                                                          *)
LEMMA OnceClaim ==
  ASSUME IInv, OnceInv, NEW p \in Threads, Claim(p)
  PROVE  OnceInv'
<1>1. SUFFICES ASSUME ~faulty PROVE FetchedOnce' /\ ScanInv'
  BY DEF OnceInv, Claim
<1>. DEFINE l == thread[p]
            c == l.cand
            m == [l EXCEPT !.pc = "load", !.k = c, !.rem = Tensors]
<1>2. l \in Locals /\ thread \in [Threads -> Locals] /\ word \in [Buffers -> Words]
  BY DEF IInv, TypeOK
<1>3. /\ l.pc = "claim" /\ l.k = NBuffers /\ c \in Buffers /\ c # None /\ ScanOK(l)
      /\ l.key \in Keys /\ l.key[1] = layer /\ Reclaimable(l.old, l.key)
  BY <1>1, ScanFacts DEF Claim, OnceInv, ScanInv, ScanOK
<1>4. /\ word[c] = l.old /\ word' = [word EXCEPT ![c] = Claimed(l.key)]
      /\ thread' = [thread EXCEPT ![p] = m] /\ UNCHANGED <<bytes, layer, faulty>>
  BY DEF Claim, Become
<1>5. Open(c)
  BY <1>3, <1>4 DEF Open, Reclaimable
<1>6. /\ thread'[p].pc = "load"
      /\ \A q \in Threads \ {p} : thread'[q] = thread[q]
      /\ word'[c] = Claimed(l.key) /\ \A k \in Buffers \ {c} : word'[k] = word[k]
  BY <1>2, <1>3, <1>4 DEF Locals
<1>7. word'[c].key = l.key /\ word'[c].st = "claimed"
  BY <1>3, <1>6, WordFacts
<1>8. \A i \in Buffers : i < NBuffers
  BY RingAssumption DEF Buffers
<1>9. \A i \in Buffers : word[i].key # l.key
  BY <1>3, <1>5, <1>8 DEF ScanOK
<1>. DEFINE OpenNow(k) ==
              \/ word'[k].st = "free"
              \/ word'[k].st = "ready" /\ word'[k].key[1] # layer
<1>10. \A i \in Buffers : OpenNow(i) => Open(i) /\ i # c
  BY <1>4, <1>6, <1>7 DEF Open
<1>. HIDE DEF m, c, l, OpenNow
<1>11. FetchedOnce'
  <2>1. FetchedOnce
    BY <1>1 DEF OnceInv
  <2>. QED BY <1>1, <1>4, <1>6, <1>7, <1>9, <2>1 DEF FetchedOnce
<1>12. ASSUME NEW q \in Threads, thread'[q].pc \in {"scan", "claim"}
       PROVE  ScanOK(thread[q])'
  <2>. DEFINE n == thread[q]
  <2>1. q # p /\ thread'[q] = n
    BY <1>6, <1>12
  <2>2. ScanOK(n) /\ n.cand \in Buffers \cup {None} /\ n.k \in 0..NBuffers
    BY <1>1, <1>12, <2>1, ScanFacts DEF OnceInv, ScanInv
  <2>. HIDE DEF n
  <2>3. ASSUME NEW i \in Buffers, i < n.k, word'[i].key = n.key
        PROVE  n.cand # None /\ ~OpenNow(n.cand)
    <3>1. CASE i # c
      BY <1>6, <1>10, <2>2, <2>3, <3>1 DEF ScanOK
    <3>2. CASE i = c
      <4>1. n.cand # None /\ n.cand \in Buffers /\ ~(c < n.cand)
        BY <1>3, <1>5, <2>2, <2>3, <3>2 DEF ScanOK
      <4>2. CASE n.cand = c
        BY <1>10, <4>1, <4>2
      <4>3. CASE n.cand # c
        <5>1. n.cand < c
          BY <1>3, <4>1, <4>3 DEF Buffers
        <5>2. ~Open(n.cand)
          BY <1>3, <1>8, <4>1, <5>1 DEF ScanOK, c
        <5>. QED BY <1>10, <4>1, <5>2
      <4>. QED BY <4>1, <4>2, <4>3
    <3>. QED BY <3>1, <3>2
  <2>4. /\ n.pc = "claim" => n.k = NBuffers /\ n.cand # None
        /\ n.cand # None => n.cand \in Buffers /\ n.cand < n.k
        /\ \A i \in Buffers : i < n.k /\ (n.cand = None \/ i < n.cand) => ~OpenNow(i)
    BY <1>10, <2>2 DEF ScanOK
  <2>5. layer' = layer
    BY <1>4
  <2>6. \A i : Open(i)' <=> OpenNow(i)
    BY <2>5 DEF Open, OpenNow
  <2>7. Open(thread[q].cand)' <=> OpenNow(n.cand)
    BY <2>1, <2>5 DEF Open, OpenNow
  <2>. QED BY <2>1, <2>3, <2>4, <2>6, <2>7 DEF ScanOK
<1>. QED BY <1>11, <1>12 DEF ScanInv

(* A load changes no word, its end no key. *)
LEMMA OnceLoad ==
  ASSUME IInv, OnceInv, NEW p \in Threads, Load(p) \/ LoadDone(p) \/ LoadFailed(p)
  PROVE  OnceInv'
<1>1. SUFFICES ASSUME ~faulty PROVE FetchedOnce' /\ ScanInv'
  BY DEF OnceInv, Load, LoadDone, LoadFailed
<1>. DEFINE l == thread[p]
            b == l.k
<1>2. /\ l.pc = "load" /\ b \in Buffers /\ l.key \in Keys /\ l.key[1] = layer
      /\ word[b] = Claimed(l.key) /\ l \in Locals
      /\ thread \in [Threads -> Locals] /\ word \in [Buffers -> Words]
  BY LoaderAlone DEF Load, LoadDone, LoadFailed, IInv, TypeOK, ThreadOK
<1>3. /\ thread'[p].pc \in {"load", "read"} /\ UNCHANGED <<layer, faulty>>
      /\ \A q \in Threads \ {p} : thread'[q] = thread[q]
      /\ word' = word \/ word' = [word EXCEPT ![b] = Ready(l.key)]
  <2>1. CASE Load(p)
    <3>1. PICK t \in l.rem : thread' = [thread EXCEPT ![p] = [l EXCEPT !.rem = @ \ {t}]]
      BY <2>1 DEF Load, Become
    <3>2. UNCHANGED <<word, layer, faulty>>
      BY <2>1 DEF Load
    <3>3. thread'[p].pc = "load"
      BY <1>2, <3>1 DEF Locals
    <3>. QED BY <1>2, <3>1, <3>2, <3>3
  <2>2. CASE LoadDone(p)
    <3>1. /\ thread' = [thread EXCEPT ![p] = [l EXCEPT !.pc = "read", !.k = l.k]]
          /\ word' = [word EXCEPT ![b] = Ready(l.key)] /\ UNCHANGED <<layer, faulty>>
      BY <2>2 DEF LoadDone, ReadFrom, Become
    <3>2. thread'[p].pc = "read"
      BY <1>2, <3>1 DEF Locals
    <3>. QED BY <1>2, <3>1, <3>2
  <2>. QED BY <1>1, <2>1, <2>2 DEF LoadFailed
<1>. HIDE DEF b, l
<1>4. \A k \in Buffers :
        /\ word'[k].key = word[k].key
        /\ word'[k] = Free <=> word[k] = Free
        /\ word'[k] = word[k] \/ (k = b /\ word'[k].st = "ready" /\ word'[k].key[1] = layer)
  BY <1>2, <1>3, WordFacts
<1>. DEFINE OpenNow(k) ==
              \/ word'[k].st = "free"
              \/ word'[k].st = "ready" /\ word'[k].key[1] # layer
<1>5. \A k \in Buffers : OpenNow(k) => Open(k)
  BY <1>4 DEF Open
<1>6. \A k : Open(k)' <=> OpenNow(k)
  BY <1>3 DEF Open
<1>7. FetchedOnce'
  BY <1>1, <1>3, <1>4 DEF OnceInv, FetchedOnce
<1>. HIDE DEF OpenNow
<1>8. ASSUME NEW q \in Threads, thread'[q].pc \in {"scan", "claim"}
      PROVE  ScanOK(thread[q])'
  <2>. DEFINE n == thread[q]
  <2>1. thread'[q] = n
    BY <1>3, <1>8
  <2>2. ScanOK(n)
    BY <1>1, <1>8, <2>1 DEF OnceInv, ScanInv
  <2>. HIDE DEF n
  <2>3. Open(thread[q].cand)' <=> OpenNow(n.cand)
    BY <1>3, <2>1 DEF Open, OpenNow
  <2>. QED BY <1>4, <1>5, <1>6, <2>1, <2>2, <2>3 DEF ScanOK
<1>. QED BY <1>7, <1>8 DEF ScanInv

LEMMA OnceInitially == Init => OnceInv
<1>. SUFFICES ASSUME Init PROVE OnceInv
  OBVIOUS
<1>1. \A k \in Buffers : word[k] = Free
  BY DEF Init
<1>2. \A p \in Threads : thread[p].pc = "between"
  BY DEF Init, AtRest
<1>. QED BY <1>1, <1>2 DEF OnceInv, FetchedOnce, ScanInv

LEMMA OnceInduction == IInv /\ OnceInv /\ [Next]_vars => OnceInv'
<1>. SUFFICES ASSUME IInv, OnceInv, [Next]_vars PROVE OnceInv'
  OBVIOUS
<1>1. CASE UNCHANGED vars
  BY <1>1 DEF vars, OnceInv, FetchedOnce, ScanInv, ScanOK, Open
<1>2. CASE \E p \in Threads : ThreadStep(p) \/ \E e \in Experts : Fetch(p, e)
  <2>1. PICK p \in Threads : ThreadStep(p) \/ \E e \in Experts : Fetch(p, e)
    BY <1>2
  <2>. QED BY <2>1, OnceScan, OnceClaim, OnceLoad DEF ThreadStep
<1>3. CASE NextOperator
  <2>1. \A p \in Threads : thread'[p].pc = "between"
    BY <1>3 DEF NextOperator, AtRest
  <2>. QED BY <1>3, <2>1 DEF NextOperator, OnceInv, FetchedOnce, ScanInv
<1>. QED BY <1>1, <1>2, <1>3 DEF Next

(* While the file can be read, no expert is loaded into two buffers. *)
THEOREM ExpertsAreFetchedOnce == Spec => []FetchedOnce
<1>1. OnceInv => FetchedOnce
  BY DEF OnceInv, FetchedOnce
<1>. QED BY <1>1, Invariance, OnceInitially, OnceInduction, PTL DEF Spec
=============================================================================
