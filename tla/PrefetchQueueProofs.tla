------------------------ MODULE PrefetchQueueProofs ------------------------
(***************************************************************************)
(* Proofs about the prefetch queue: for any number of workers, any cap and *)
(* any predictions, the queue overshoots its cap by less than one token's  *)
(* predictions, and no request waits for a sleeping worker without a       *)
(* woken worker or a notification on its way.                              *)
(*                                                                         *)
(* The argument for the wake-ups is a count. A request is pushed together  *)
(* with a job to notify of, a worker that takes one was at the lock, a     *)
(* worker goes to sleep only when nothing is left, and a notification      *)
(* turns one job into one worker at the lock, or wakes them all.           *)
(***************************************************************************)
EXTENDS PrefetchQueue, FiniteSetTheorems, SequenceTheorems, TLAPS

(* What the program points of the producer and of pred_shutdown say. *)
PointsOK ==
  /\ prod.pc = "idle" => prod.jobs = 0
  /\ prod.pc = "hook" => prod.jobs <= Cardinality(prod.queued)
  /\ shut # "running" => exit

IInv == TypeOK /\ PointsOK /\ QueueBounded /\ NoLostWakeup

-----------------------------------------------------------------------------
(* A ranking is a sequence of distinct experts, at most TopK of them. *)
LEMMA RankingFacts ==
  ASSUME NEW S \in SUBSET Experts, NEW r \in Rankings(S)
  PROVE  /\ r \in Seq(Experts) /\ Len(r) \in 0..TopK
         /\ Elements(r) \in SUBSET S
         /\ IsFiniteSet(Elements(r)) /\ Cardinality(Elements(r)) = Len(r)
<1>1. PICK n \in 0..TopK : r \in [1..n -> S] /\ IsInjective(r)
  BY DEF Rankings
<1>2. n \in Nat /\ n \in 0..TopK
  BY SizesAssumption
<1>3. r \in Seq(Experts) /\ Len(r) = n
  BY <1>1, <1>2
<1>4. Elements(r) \in SUBSET S
  BY <1>1 DEF Elements
<1>5. r \in Bijection(1..n, Elements(r))
  BY <1>1 DEF Elements, IsInjective, Bijection, Injection, Surjection
<1>6. IsFiniteSet(1..n) /\ Cardinality(1..n) = n
  BY <1>2, FS_Interval
<1>7. IsFiniteSet(Elements(r)) /\ Cardinality(Elements(r)) = n
  BY <1>5, <1>6, FS_Bijection DEF ExistsBijection
<1>. QED BY <1>2, <1>3, <1>4, <1>7

(* The threads at the lock are finitely many. *)
LEMMA AtLockFinite ==
  IsFiniteSet(AtLock) /\ Cardinality(AtLock) \in Nat
BY ThreadsAssumption, FS_Subset, FS_CardinalityType DEF AtLock

(* A thread that comes to the lock is one more there. *)
LEMMA OneMoreAtLock ==
  ASSUME NEW w \in Workers, TypeOK, worker[w] # "lock",
         worker' = [worker EXCEPT ![w] = "lock"]
  PROVE  /\ worker' \in [Workers -> {"lock", "asleep", "fill", "gone"}]
         /\ Cardinality(AtLock') = Cardinality(AtLock) + 1
         /\ Asleep' \subseteq Asleep
<1>1. /\ worker' \in [Workers -> {"lock", "asleep", "fill", "gone"}]
      /\ Asleep' \subseteq Asleep
  BY DEF TypeOK, Asleep
<1>2. AtLock' = AtLock \cup {w} /\ w \notin AtLock
  BY DEF TypeOK, AtLock
<1>. QED BY <1>1, <1>2, AtLockFinite, FS_AddElement

(* A thread that goes on is one less. *)
LEMMA OneLessAtLock ==
  ASSUME NEW w \in Workers, TypeOK, worker[w] = "lock",
         NEW s \in {"asleep", "fill", "gone"}, worker' = [worker EXCEPT ![w] = s]
  PROVE  /\ worker' \in [Workers -> {"lock", "asleep", "fill", "gone"}]
         /\ Cardinality(AtLock') = Cardinality(AtLock) - 1
         /\ s # "asleep" => Asleep' = Asleep
<1>1. /\ worker' \in [Workers -> {"lock", "asleep", "fill", "gone"}]
      /\ s # "asleep" => Asleep' = Asleep
  BY DEF TypeOK, Asleep
<1>2. AtLock' = AtLock \ {w} /\ w \in AtLock
  BY DEF TypeOK, AtLock
<1>. QED BY <1>1, <1>2, AtLockFinite, FS_RemoveElement

-----------------------------------------------------------------------------
LEMMA Initially == Init => IInv
<1>. SUFFICES ASSUME Init PROVE IInv
  OBVIOUS
<1>1. Cardinality(Experts) \in Nat
  BY ExpertsAssumption, FS_CardinalityType
<1>2. TypeOK
  <2>1. queue \in Seq(Experts) /\ exit \in BOOLEAN
    <3>1. queue = <<>> /\ exit = FALSE
      BY DEF Init
    <3>2. <<>> \in Seq(Experts)
      OBVIOUS
    <3>3. exit \in BOOLEAN
      BY <3>1
    <3>. QED BY <3>1, <3>2, <3>3, Zenon
  <2>2. worker \in [Workers -> {"lock", "asleep", "fill", "gone"}]
    BY DEF Init
  <2>3. prod \in Producer
    BY <1>1, SizesAssumption DEF Init, Rest, Producer
  <2>. QED BY <2>1, <2>2, <2>3 DEF Init, TypeOK
<1>3. PointsOK
  BY DEF Init, PointsOK, Rest
<1>4. QueueBounded
  BY SizesAssumption DEF Init, QueueBounded
<1>5. Asleep = {}
  BY DEF Init, Asleep
<1>. QED BY <1>2, <1>3, <1>4, <1>5 DEF IInv, NoLostWakeup

(* prefetch_worker. *)
LEMMA TakeStep == ASSUME IInv, NEW w \in Workers, Take(w) PROVE IInv'
<1>. USE DEF IInv, TypeOK
<1>1. /\ worker' \in [Workers -> {"lock", "asleep", "fill", "gone"}]
      /\ Cardinality(AtLock') = Cardinality(AtLock) - 1 /\ Asleep' = Asleep
  BY OneLessAtLock DEF Take
<1>2. queue' \in Seq(Experts) /\ Len(queue') = Len(queue) - 1
  BY DEF Take
<1>3. TypeOK'
  BY <1>1, <1>2 DEF Take
<1>4. PointsOK'
  BY DEF PointsOK, Take
<1>5. Len(queue) \in Nat /\ Cap \in Nat /\ TopK \in Nat
  BY SizesAssumption
<1>6. QueueBounded'
  BY <1>2, <1>5 DEF QueueBounded
<1>7. prod.jobs \in Int /\ prod' = prod /\ exit' = exit
  BY DEF Take, Producer
<1>8. NoLostWakeup'
  BY <1>1, <1>2, <1>5, <1>7, AtLockFinite DEF NoLostWakeup
<1>. QED BY <1>3, <1>4, <1>6, <1>8

(* A worker sleeps only when the queue is empty. *)
LEMMA SleepStep == ASSUME IInv, NEW w \in Workers, Sleep(w) PROVE IInv'
<1>. USE DEF IInv, TypeOK
<1>1. /\ worker' \in [Workers -> {"lock", "asleep", "fill", "gone"}]
      /\ Cardinality(AtLock') = Cardinality(AtLock) - 1
  BY OneLessAtLock DEF Sleep
<1>2. TypeOK' /\ PointsOK' /\ QueueBounded'
  BY <1>1 DEF PointsOK, QueueBounded, Sleep
<1>3. IsFiniteSet(AtLock') /\ Cardinality(AtLock') \in Nat
  BY ThreadsAssumption, FS_Subset, FS_CardinalityType DEF AtLock
<1>4. prod'.jobs \in Nat
  BY ExpertsAssumption, FS_CardinalityType DEF Sleep, Producer
<1>5. Len(queue') = 0
  BY DEF Sleep
<1>6. NoLostWakeup'
  BY <1>3, <1>4, <1>5 DEF NoLostWakeup
<1>. QED BY <1>2, <1>6

LEMMA QuitStep == ASSUME IInv, NEW w \in Workers, Quit(w) PROVE IInv'
<1>. USE DEF IInv, TypeOK
<1>1. TypeOK' /\ PointsOK' /\ QueueBounded' /\ NoLostWakeup'
  BY DEF PointsOK, QueueBounded, NoLostWakeup, Quit
<1>. QED BY <1>1

(* A worker that comes back from a fill or wakes up reads the queue again. *)
LEMMA ReturnStep ==
  ASSUME IInv, NEW w \in Workers, Filled(w) \/ WakeSpuriously(w)
  PROVE  IInv'
<1>. USE DEF IInv, TypeOK
<1>1. /\ worker' \in [Workers -> {"lock", "asleep", "fill", "gone"}]
      /\ Cardinality(AtLock') = Cardinality(AtLock) + 1
      /\ Asleep' \subseteq Asleep
  BY OneMoreAtLock DEF Filled, WakeSpuriously
<1>2. TypeOK' /\ PointsOK' /\ QueueBounded'
  BY <1>1 DEF PointsOK, QueueBounded, Filled, WakeSpuriously
<1>3. prod.jobs \in Int /\ prod' = prod /\ exit' = exit /\ queue' = queue
  BY DEF Filled, WakeSpuriously, Producer
<1>4. Len(queue) \in Nat
  OBVIOUS
<1>5. NoLostWakeup'
  BY <1>1, <1>3, <1>4, AtLockFinite DEF NoLostWakeup
<1>. QED BY <1>2, <1>5

-----------------------------------------------------------------------------
(* pregate_hook: a token pushes as many requests as it adds to its debt.   *)
LEMMA TokenStep == ASSUME IInv, HookToken PROVE IInv'
<1>. USE DEF IInv, TypeOK
<1>1. PICK jobs \in Rankings(Experts \ prod.queued) :
        /\ Len(queue) < Cap \/ jobs = <<>>
        /\ queue' = queue \o jobs
        /\ prod' = [prod EXCEPT !.left = @ - 1, !.queued = @ \cup Elements(jobs),
                                !.jobs = @ + Len(jobs)]
  BY DEF HookToken
<1>2. /\ jobs \in Seq(Experts) /\ Len(jobs) \in 0..TopK
      /\ Elements(jobs) \in SUBSET (Experts \ prod.queued)
      /\ IsFiniteSet(Elements(jobs)) /\ Cardinality(Elements(jobs)) = Len(jobs)
  BY <1>1, RankingFacts
<1>3. /\ prod.pc = "hook" /\ prod.left \in 0..MaxTokens /\ prod.left > 0
      /\ prod.queued \in SUBSET Experts /\ prod.jobs \in Nat
  BY ExpertsAssumption, FS_CardinalityType DEF HookToken, Producer
<1>4. /\ Len(queue) \in Nat /\ Len(jobs) \in Nat /\ Cap \in Nat \ {0}
      /\ TopK \in Nat /\ MaxTokens \in Nat
  BY <1>2, SizesAssumption
<1>5. queue' \in Seq(Experts) /\ Len(queue') = Len(queue) + Len(jobs)
  BY <1>1, <1>2
<1>6. prod' = [pc |-> "hook", left |-> prod.left - 1,
               queued |-> prod.queued \cup Elements(jobs), jobs |-> prod.jobs + Len(jobs)]
  BY <1>1, <1>3 DEF Producer
<1>7. prod.jobs + Len(jobs) <= Cardinality(prod.queued \cup Elements(jobs))
  <2>1. IsFiniteSet(prod.queued) /\ Cardinality(prod.queued) \in Nat
    BY <1>3, ExpertsAssumption, FS_Subset, FS_CardinalityType
  <2>2. prod.queued \cap Elements(jobs) = {}
    BY <1>2
  <2>3. Cardinality(prod.queued \cup Elements(jobs)) = Cardinality(prod.queued) + Len(jobs)
    <3>1. Cardinality(prod.queued \cup Elements(jobs)) =
            Cardinality(prod.queued) + Cardinality(Elements(jobs))
              - Cardinality(prod.queued \cap Elements(jobs))
      BY <1>2, <2>1, FS_Union
    <3>2. Cardinality(prod.queued \cap Elements(jobs)) = 0
      BY <2>2, FS_EmptySet
    <3>. QED BY <1>2, <1>4, <2>1, <3>1, <3>2
  <2>4. prod.jobs <= Cardinality(prod.queued)
    BY <1>3 DEF PointsOK
  <2>. QED BY <1>3, <1>4, <2>1, <2>3, <2>4
<1>8. TypeOK'
  <2>1. prod.queued \cup Elements(jobs) \in SUBSET Experts
    BY <1>2, <1>3
  <2>2. Cardinality(prod.queued \cup Elements(jobs)) <= Cardinality(Experts)
    BY <2>1, ExpertsAssumption, FS_Subset
  <2>3. /\ Cardinality(Experts) \in Nat
        /\ Cardinality(prod.queued \cup Elements(jobs)) \in Nat
    BY <2>1, ExpertsAssumption, FS_Subset, FS_CardinalityType
  <2>4. prod.jobs + Len(jobs) \in 0..Cardinality(Experts)
    BY <1>3, <1>4, <1>7, <2>2, <2>3
  <2>5. prod.left - 1 \in 0..MaxTokens
    BY <1>3, <1>4
  <2>6. prod' \in Producer
    BY <1>6, <2>1, <2>4, <2>5 DEF Producer
  <2>. QED BY <1>5, <2>6 DEF HookToken
<1>9. PointsOK'
  BY <1>6, <1>7 DEF PointsOK, HookToken
<1>10. QueueBounded'
  <2>1. CASE jobs = <<>>
    BY <1>4, <1>5, <2>1 DEF QueueBounded
  <2>2. CASE Len(queue) < Cap
    BY <1>2, <1>4, <1>5, <2>2 DEF QueueBounded
  <2>. QED BY <1>1, <2>1, <2>2
<1>11. AtLock' = AtLock /\ Asleep' = Asleep /\ exit' = exit
  BY DEF HookToken, AtLock, Asleep
<1>12. NoLostWakeup'
  BY <1>3, <1>4, <1>5, <1>6, <1>11, AtLockFinite DEF NoLostWakeup
<1>. QED BY <1>8, <1>9, <1>10, <1>12

LEMMA HookEdges == ASSUME IInv, HookBegin \/ HookEnd PROVE IInv'
<1>. USE DEF IInv, TypeOK
<1>1. Cardinality(Experts) \in Nat /\ Cardinality({}) = 0
  BY ExpertsAssumption, FS_CardinalityType, FS_EmptySet
<1>2. AtLock' = AtLock /\ Asleep' = Asleep
  BY DEF HookBegin, HookEnd, AtLock, Asleep
<1>3. CASE HookBegin
  <2>1. prod.jobs = 0
    BY <1>3 DEF HookBegin, PointsOK
  <2>2. PICK n \in 0..MaxTokens :
          prod' = [pc |-> "hook", left |-> n, queued |-> {}, jobs |-> 0]
    BY <1>3 DEF HookBegin, Rest
  <2>3. prod' \in Producer /\ prod'.jobs = prod.jobs
    BY <1>1, <2>1, <2>2 DEF Producer
  <2>4. PointsOK'
    <3>1. prod'.pc = "hook" /\ prod'.jobs = 0 /\ Cardinality(prod'.queued) = 0
      BY <1>1, <2>2
    <3>2. exit' = exit /\ shut' = shut
      BY <1>3 DEF HookBegin
    <3>3. shut' # "running" => exit'
      BY <3>2, Zenon DEF PointsOK
    <3>. QED BY <3>1, <3>3, SMT DEF PointsOK
  <2>. QED BY <1>2, <1>3, <2>3, <2>4 DEF HookBegin, QueueBounded, NoLostWakeup
<1>4. CASE HookEnd
  <2>1. prod' \in Producer /\ prod'.jobs = prod.jobs /\ prod'.pc = "notify"
    BY <1>4 DEF HookEnd, Producer
  <2>. QED BY <1>2, <1>4, <2>1 DEF HookEnd, QueueBounded, NoLostWakeup, PointsOK
<1>. QED BY <1>3, <1>4

(* markov_update compares the length at each push. *)
LEMMA MarkovStep == ASSUME IInv, MarkovPush PROVE IInv'
<1>. USE DEF IInv, TypeOK
<1>1. PICK jobs \in Rankings(Experts) :
        /\ Len(queue) + Len(jobs) <= Cap \/ jobs = <<>>
        /\ queue' = queue \o jobs
        /\ prod' = [prod EXCEPT !.pc = "notify", !.jobs = Len(jobs)]
  BY DEF MarkovPush
<1>2. /\ jobs \in Seq(Experts) /\ Len(jobs) \in Nat
      /\ Elements(jobs) \in SUBSET Experts /\ Cardinality(Elements(jobs)) = Len(jobs)
  BY <1>1, RankingFacts, SizesAssumption
<1>3. Len(jobs) \in 0..Cardinality(Experts)
  <2>1. Cardinality(Elements(jobs)) <= Cardinality(Experts)
    BY <1>2, ExpertsAssumption, FS_Subset
  <2>. QED BY <1>2, <2>1, ExpertsAssumption, FS_CardinalityType
<1>4. queue' \in Seq(Experts) /\ Len(queue') = Len(queue) + Len(jobs)
  BY <1>1, <1>2
<1>5. prod' \in Producer /\ prod'.pc = "notify" /\ prod'.jobs = Len(jobs)
  BY <1>1, <1>3 DEF Producer
<1>6. TypeOK' /\ PointsOK'
  BY <1>4, <1>5 DEF MarkovPush, PointsOK
<1>7. Len(queue) \in Nat /\ Cap \in Nat \ {0} /\ TopK \in Nat \ {0}
  BY SizesAssumption
<1>8. QueueBounded'
  <2>1. CASE jobs = <<>>
    BY <1>2, <1>4, <1>7, <2>1 DEF QueueBounded
  <2>2. CASE Len(queue) + Len(jobs) <= Cap
    BY <1>2, <1>4, <1>7, <2>2 DEF QueueBounded
  <2>. QED BY <1>1, <2>1, <2>2
<1>9. AtLock' = AtLock /\ Asleep' = Asleep /\ exit' = exit /\ prod.jobs = 0
  BY DEF MarkovPush, AtLock, Asleep, PointsOK
<1>10. NoLostWakeup'
  BY <1>2, <1>4, <1>5, <1>7, <1>9, AtLockFinite DEF NoLostWakeup
<1>. QED BY <1>6, <1>8, <1>10

(* One job wakes one worker, more wake them all. *)
LEMMA NotifyStep == ASSUME IInv, Notify PROVE IInv'
<1>. USE DEF IInv, TypeOK
<1>1. prod.jobs \in Nat /\ Len(queue) \in Nat
  BY ExpertsAssumption, FS_CardinalityType DEF Producer
<1>2. /\ prod' = Rest /\ queue' = queue /\ exit' = exit /\ shut' = shut
      /\ Rest.jobs = 0 /\ Rest.pc = "idle"
  BY DEF Notify, Rest
<1>3. Rest \in Producer
  BY ExpertsAssumption, FS_CardinalityType, SizesAssumption DEF Rest, Producer
<1>4. PointsOK' /\ QueueBounded'
  BY <1>2 DEF PointsOK, QueueBounded
<1>5. CASE worker' = worker /\ (prod.jobs = 0 \/ Asleep = {})
  <2>1. AtLock' = AtLock /\ Asleep' = Asleep
    BY <1>5 DEF AtLock, Asleep
  <2>. QED BY <1>1, <1>2, <1>3, <1>4, <1>5, <2>1, AtLockFinite DEF NoLostWakeup
<1>6. CASE /\ prod.jobs = 1
           /\ \E w \in Asleep : worker' = [worker EXCEPT ![w] = "lock"]
  <2>1. PICK w \in Asleep : worker' = [worker EXCEPT ![w] = "lock"]
    BY <1>6
  <2>2. /\ worker' \in [Workers -> {"lock", "asleep", "fill", "gone"}]
        /\ Cardinality(AtLock') = Cardinality(AtLock) + 1
        /\ Asleep' \subseteq Asleep
    BY <2>1, OneMoreAtLock DEF Asleep
  <2>. QED BY <1>1, <1>2, <1>3, <1>4, <1>6, <2>2, AtLockFinite DEF NoLostWakeup
<1>7. CASE NotifyAll
  <2>1. /\ worker' \in [Workers -> {"lock", "asleep", "fill", "gone"}]
        /\ Asleep' = {}
    BY <1>7 DEF NotifyAll, Asleep
  <2>. QED BY <1>2, <1>3, <1>4, <2>1 DEF NoLostWakeup
<1>8. \/ worker' = worker /\ prod.jobs = 0
      \/ NotifyOne /\ prod.jobs = 1
      \/ NotifyAll
  BY DEF Notify
<1>. QED BY <1>5, <1>6, <1>7, <1>8 DEF NotifyOne

(* pred_shutdown: once exit is set nobody waits for a wake-up any more. *)
LEMMA ShutSteps == ASSUME IInv, ShutBegin \/ ShutStep PROVE IInv'
<1>. USE DEF IInv, TypeOK, PointsOK, QueueBounded, NoLostWakeup
<1>1. CASE ShutBegin
  BY <1>1 DEF ShutBegin
<1>2. CASE ShutNotify
  BY <1>2 DEF ShutNotify, NotifyAll
<1>3. CASE ShutJoin
  BY <1>3 DEF ShutJoin
<1>. QED BY <1>1, <1>2, <1>3 DEF ShutStep

LEMMA Induction == IInv /\ [Next]_vars => IInv'
<1>. SUFFICES ASSUME IInv, [Next]_vars PROVE IInv'
  OBVIOUS
<1>1. CASE UNCHANGED vars
  <2>1. AtLock' = AtLock /\ Asleep' = Asleep
    BY <1>1 DEF vars, AtLock, Asleep
  <2>. QED BY <1>1, <2>1 DEF vars, IInv, TypeOK, PointsOK, QueueBounded, NoLostWakeup
<1>2. ASSUME NEW w \in Workers, WorkerStep(w) \/ WakeSpuriously(w) PROVE IInv'
  BY <1>2, TakeStep, SleepStep, QuitStep, ReturnStep DEF WorkerStep
<1>3. CASE HookBegin \/ MarkovPush \/ ProducerStep
  BY <1>3, HookEdges, MarkovStep, TokenStep, NotifyStep DEF ProducerStep
<1>4. CASE ShutBegin \/ ShutStep
  BY <1>4, ShutSteps
<1>. QED BY <1>1, <1>2, <1>3, <1>4 DEF Next

-----------------------------------------------------------------------------
(* The count of requests, wake-ups and notifications is inductive. *)
THEOREM Invariance == Spec => []IInv
BY Initially, Induction, PTL DEF Spec

(* Whatever is predicted, a call queues no more requests than there are    *)
(* experts. *)
THEOREM TypeCorrect == Spec => []TypeOK
<1>1. IInv => TypeOK
  BY DEF IInv
<1>. QED BY <1>1, Invariance, PTL

(* The queue overshoots its cap by less than one token's predictions. *)
THEOREM QueueIsBounded == Spec => []QueueBounded
<1>1. IInv => QueueBounded
  BY DEF IInv
<1>. QED BY <1>1, Invariance, PTL

(* No request is left behind while a worker sleeps that nobody will wake.  *)
THEOREM NoWakeupIsLost == Spec => []NoLostWakeup
<1>1. IInv => NoLostWakeup
  BY DEF IInv
<1>. QED BY <1>1, Invariance, PTL
=============================================================================
