--------------------------- MODULE PrefetchQueue ---------------------------
(***************************************************************************)
(* The queue between the predictors and the prefetch workers               *)
(* (src/src/llama-expert-tier.cpp): a deque g_work_q under g_work_mu, a    *)
(* condition variable, and the exit flag of pred_shutdown.                 *)
(*                                                                         *)
(* One producer runs at a time: pregate_hook, called by thread 0 of the    *)
(* cold operator while a graph computes, or markov_update, between graphs. *)
(* A critical section of g_work_mu is one step. Testing the predicate and  *)
(* going to sleep is one, too: that is what condition_variable::wait       *)
(* promises. A sleeping worker may wake up for no reason.                  *)
(*                                                                         *)
(* Abstracted: the predictions (any ranking of distinct experts, less      *)
(* those found hot, pooled or tabled at the time) and their statistics,    *)
(* the target layer of a request, and the fill (see SpecPool).             *)
(***************************************************************************)
EXTENDS Integers, Sequences, FiniteSets, Functions

CONSTANTS Experts,    \* experts a request may name
          Workers,    \* prefetch threads (g_n_workers)
          Cap,        \* the queue length that stops the producers: 4096
          TopK,       \* experts predicted for a token: n_routed, g_markov_top_n
          MaxTokens   \* tokens of a batch

ASSUME SizesAssumption == Cap \in Nat \ {0} /\ TopK \in Nat \ {0} /\ MaxTokens \in Nat
ASSUME ThreadsAssumption == IsFiniteSet(Workers) /\ Workers # {}
ASSUME ExpertsAssumption == IsFiniteSet(Experts)

VARIABLES
  queue,   \* g_work_q
  exit,    \* g_work_exit
  worker,  \* worker -> what it is about to do
  prod,    \* the producer: program point, tokens left, experts queued by
           \* this call (queued), requests it has to notify of (queued_jobs)
  shut     \* pred_shutdown: program point

vars == <<queue, exit, worker, prod, shut>>

Producer == [pc : {"idle", "hook", "notify"}, left : 0..MaxTokens,
             queued : SUBSET Experts, jobs : 0..Cardinality(Experts)]

Rest == [pc |-> "idle", left |-> 0, queued |-> {}, jobs |-> 0]

Init ==
  /\ queue = <<>> /\ exit = FALSE
  /\ worker = [w \in Workers |-> "lock"]
  /\ prod = Rest
  /\ shut = "running"

(* The rankings of at most TopK experts out of S. *)
Rankings(S) ==
  UNION {{r \in [1..n -> S] : IsInjective(r)} : n \in 0..TopK}

Elements(s) == {s[i] : i \in DOMAIN s}

-----------------------------------------------------------------------------
(* prefetch_worker: the predicate is tested under the lock.                *)

Take(w) ==
  /\ worker[w] = "lock" /\ ~exit /\ queue # <<>>
  /\ queue' = Tail(queue)
  /\ worker' = [worker EXCEPT ![w] = "fill"]
  /\ UNCHANGED <<exit, prod, shut>>

Sleep(w) ==
  /\ worker[w] = "lock" /\ ~exit /\ queue = <<>>
  /\ worker' = [worker EXCEPT ![w] = "asleep"]
  /\ UNCHANGED <<queue, exit, prod, shut>>

Quit(w) ==
  /\ worker[w] = "lock" /\ exit
  /\ worker' = [worker EXCEPT ![w] = "gone"]
  /\ UNCHANGED <<queue, exit, prod, shut>>

(* prefetch_fill returns. *)
Filled(w) ==
  /\ worker[w] = "fill"
  /\ worker' = [worker EXCEPT ![w] = "lock"]
  /\ UNCHANGED <<queue, exit, prod, shut>>

WakeSpuriously(w) ==
  /\ worker[w] = "asleep"
  /\ worker' = [worker EXCEPT ![w] = "lock"]
  /\ UNCHANGED <<queue, exit, prod, shut>>

-----------------------------------------------------------------------------
Asleep == {w \in Workers : worker[w] = "asleep"}

NotifyOne ==
  IF Asleep = {} THEN UNCHANGED worker
  ELSE \E w \in Asleep : worker' = [worker EXCEPT ![w] = "lock"]

NotifyAll ==
  worker' = [w \in Workers |-> IF worker[w] = "asleep" THEN "lock" ELSE worker[w]]

-----------------------------------------------------------------------------
(* pregate_hook: one critical section for each token, one notification     *)
(* after the last.                                                         *)

HookBegin ==
  /\ prod.pc = "idle"
  /\ \E n \in 0..MaxTokens : prod' = [Rest EXCEPT !.pc = "hook", !.left = n]
  /\ UNCHANGED <<queue, exit, worker, shut>>

HookTokenUnchecked ==
  /\ prod.pc = "hook" /\ prod.left > 0
  /\ \E jobs \in Rankings(Experts \ prod.queued) :
       /\ queue' = queue \o jobs
       /\ prod' = [prod EXCEPT !.left = @ - 1, !.queued = @ \cup Elements(jobs),
                               !.jobs = @ + Len(jobs)]
  /\ UNCHANGED <<exit, worker, shut>>

(* The length is compared with Cap once for the token, not for each push. *)
HookToken ==
  /\ prod.pc = "hook" /\ prod.left > 0
  /\ \E jobs \in Rankings(Experts \ prod.queued) :
       /\ Len(queue) < Cap \/ jobs = <<>>
       /\ queue' = queue \o jobs
       /\ prod' = [prod EXCEPT !.left = @ - 1, !.queued = @ \cup Elements(jobs),
                               !.jobs = @ + Len(jobs)]
  /\ UNCHANGED <<exit, worker, shut>>

HookEnd ==
  /\ prod.pc = "hook" /\ prod.left = 0
  /\ prod' = [prod EXCEPT !.pc = "notify"]
  /\ UNCHANGED <<queue, exit, worker, shut>>

(* markov_update: one critical section; the length is compared at each push. *)
MarkovPush ==
  /\ prod.pc = "idle"
  /\ \E jobs \in Rankings(Experts) :
       /\ Len(queue) + Len(jobs) <= Cap \/ jobs = <<>>
       /\ queue' = queue \o jobs
       /\ prod' = [prod EXCEPT !.pc = "notify", !.jobs = Len(jobs)]
  /\ UNCHANGED <<exit, worker, shut>>

(* Both producers notify after they gave the lock back. *)
NotifyOnlyOne ==
  /\ prod.pc = "notify"
  /\ IF prod.jobs > 0 THEN NotifyOne ELSE UNCHANGED worker
  /\ prod' = Rest
  /\ UNCHANGED <<queue, exit, shut>>

NotifyOnlyMany ==
  /\ prod.pc = "notify"
  /\ IF prod.jobs > 1 THEN NotifyAll ELSE UNCHANGED worker
  /\ prod' = Rest
  /\ UNCHANGED <<queue, exit, shut>>

Notify ==
  /\ prod.pc = "notify"
  /\ CASE prod.jobs = 0 -> UNCHANGED worker
       [] prod.jobs = 1 -> NotifyOne
       [] OTHER -> NotifyAll
  /\ prod' = Rest
  /\ UNCHANGED <<queue, exit, shut>>

-----------------------------------------------------------------------------
(* pred_shutdown, called by exit() in whatever thread calls it.            *)

ShutBegin ==
  /\ shut = "running"
  /\ exit' = TRUE /\ shut' = "notify"
  /\ UNCHANGED <<queue, worker, prod>>

ShutNotifyOne ==
  /\ shut = "notify"
  /\ NotifyOne /\ shut' = "join"
  /\ UNCHANGED <<queue, exit, prod>>

ShutNotify ==
  /\ shut = "notify"
  /\ NotifyAll /\ shut' = "join"
  /\ UNCHANGED <<queue, exit, prod>>

ShutJoin ==
  /\ shut = "join"
  /\ \A w \in Workers : worker[w] = "gone"
  /\ shut' = "joined"
  /\ UNCHANGED <<queue, exit, worker, prod>>

-----------------------------------------------------------------------------
WorkerStep(w) == Take(w) \/ Sleep(w) \/ Quit(w) \/ Filled(w)
ProducerStep == HookToken \/ HookEnd \/ Notify
ShutStep == ShutNotify \/ ShutJoin

Next ==
  \/ \E w \in Workers : WorkerStep(w) \/ WakeSpuriously(w)
  \/ HookBegin \/ MarkovPush \/ ProducerStep
  \/ ShutBegin \/ ShutStep

Spec == Init /\ [][Next]_vars

(* Threads run on, mutexes are granted, fills end. Nothing makes a producer *)
(* start, a worker wake up spuriously, or the program exit.                 *)
Fairness ==
  /\ \A w \in Workers : WF_vars(WorkerStep(w))
  /\ WF_vars(ProducerStep) /\ WF_vars(ShutStep)

FairSpec == Spec /\ Fairness

-----------------------------------------------------------------------------
(* Properties.                                                             *)

(* Types; one call of a producer queues an expert at most once, however     *)
(* many tokens ask for it.                                                 *)
TypeOK ==
  /\ queue \in Seq(Experts) /\ exit \in BOOLEAN
  /\ worker \in [Workers -> {"lock", "asleep", "fill", "gone"}]
  /\ prod \in Producer
  /\ shut \in {"running", "notify", "join", "joined"}

(* The queue stays within Cap but for the last token's predictions: the     *)
(* hook compares the length before a token, not before each push.           *)
QueueBounded == Len(queue) <= Cap - 1 + TopK

AtLock == {w \in Workers : worker[w] = "lock"}

(* No lost wake-up: while a worker sleeps, there is a woken worker, or a    *)
(* notification on its way, for every request in the queue.                 *)
NoLostWakeup ==
  ~exit /\ Asleep # {} => Len(queue) <= Cardinality(AtLock) + prod.jobs

(* A queue that stays non-empty is served again and again.                 *)
RequestsAreTaken ==
  <>[](queue # <<>> /\ ~exit) => []<><<\E w \in Workers : Take(w)>>_vars

(* The join in pred_shutdown returns.                                      *)
ShutdownEnds == shut = "notify" ~> shut = "joined"
=============================================================================
