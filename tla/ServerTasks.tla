----------------------------- MODULE ServerTasks -----------------------------
(***************************************************************************)
(* The server's tasks: the queue and its loop (server_queue), the results  *)
(* (server_response), the reader each request gets its results through     *)
(* (server_response_reader), and the slots that run the tasks              *)
(* (server_context_impl).  One thread runs the loop; every request has an  *)
(* HTTP thread.  Two mutexes, mutex_tasks and mutex_results: a step is one *)
(* critical section of one of them, or a part of the loop that touches     *)
(* only the slots, which no other thread sees.                             *)
(***************************************************************************)
EXTENDS Naturals, Sequences, SequencesExt, FiniteSets

CONSTANTS
  Readers,    \* requests, each with its reader and its thread
  Tasks,      \* completion tasks
  ReaderOf,   \* the request each task belongs to
  NSlots,     \* slots
  Envs,       \* the surroundings Init chooses from (see EnvOk)
  None, Loop  \* no task; the loop's thread

Slots == 1 .. NSlots
TasksOf(r) == {t \in Tasks : ReaderOf[t] = r}

(* What surrounds the server: the requests whose client may go away, the   *)
(* tasks that may fail, whether the server sleeps when idle, whether it is *)
(* told to end, the slot a task asks for (0: any), the child of each       *)
(* parent task (at most one, and its own: add_child makes a new task), and *)
(* the updates of the slots a task takes before its last one (bound).      *)
EnvOk(e) ==
  /\ e.leaves \subseteq Readers
  /\ e.fails \subseteq Tasks
  /\ e.sleeps \in BOOLEAN /\ e.ends \in BOOLEAN
  /\ e.steps \in Nat
  /\ e.want \in [Tasks -> 0 .. NSlots]
  /\ e.kids \in [Tasks -> SUBSET Tasks]
  /\ \A t \in Tasks : /\ Cardinality(e.kids[t]) \in {0, 1} /\ Cardinality(e.kids[t]) < NSlots
                      /\ \A k \in e.kids[t] : /\ ReaderOf[k] = ReaderOf[t]
                                              /\ e.kids[k] = {} /\ e.want[k] = 0
  /\ \A t, u \in Tasks : t # u => e.kids[t] \cap e.kids[u] = {}

ASSUME TasksAssumption == /\ ReaderOf \in [Tasks -> Readers]
                          /\ \A r \in Readers : IsFiniteSet(TasksOf(r))
ASSUME SlotsAssumption == NSlots \in Nat \ {0}
ASSUME EnvsAssumption == \A e \in Envs : EnvOk(e)
ASSUME NoneAssumption == None \notin Tasks /\ Loop \notin Readers

VARIABLES
  env,        \* an element of Envs, chosen once
  queue,      \* queue_tasks
  deferred,   \* queue_tasks_deferred
  running, sleeping,
  wake,       \* req_stop_sleeping
  blocked,    \* threads waiting on condition_tasks for sleep to end
  waiting,    \* waiting_task_ids
  results,    \* queue_results
  task,       \* the task of each slot, None when it is idle
  ready,      \* slots whose task need not wait for its parent's prompt
  left,       \* steps left to each task
  pc,         \* where the loop is
  hand,       \* the task the loop has taken off the queue
  todo,       \* slots this update still has to deal with
  reader,     \* where each request is
  got,        \* tasks whose final result was received
  missed      \* tasks cancelled while the loop had them in its hand

queueVars == <<queue, deferred, running, sleeping, wake, blocked>>
resultVars == <<waiting, results>>
slotVars == <<task, ready, left>>
loopVars == <<pc, hand, todo>>
readerVars == <<reader, got, missed>>
vars == <<env, queueVars, resultVars, slotVars, loopVars, readerVars>>

Run(t) == [type |-> "run", id |-> t]
CancelOf(t) == [type |-> "cancel", id |-> t]
NextResponse == [type |-> "next", id |-> None]
Nothing == [type |-> "none", id |-> None]
Entries == {Run(t) : t \in Tasks} \cup {CancelOf(t) : t \in Tasks} \cup {NextResponse}
Kinds == {"partial", "final", "error"}
Answers == [id : Tasks, kind : Kinds]

Init ==
  /\ env \in Envs
  /\ queue = <<>> /\ deferred = <<>>
  /\ running = TRUE /\ sleeping = FALSE /\ wake = FALSE /\ blocked = {}
  /\ waiting = {} /\ results = <<>>
  /\ task = [s \in Slots |-> None] /\ ready = [s \in Slots |-> FALSE]
  /\ left = [t \in Tasks |-> env.steps]
  /\ pc = "pop" /\ hand = Nothing /\ todo = {}
  /\ reader = [r \in Readers |-> "start"] /\ got = {} /\ missed = {}

-----------------------------------------------------------------------------
(* The condition variable: notify_one wakes one blocked thread, any one.   *)
NotifyOne ==
  \/ blocked = {} /\ UNCHANGED blocked
  \/ \E x \in blocked : blocked' = blocked \ {x}

(* q without the elements in X, in a form that can be reasoned about       *)
(* (nothing is known of SelectSeq to the provers).                         *)
Less(q, X) ==
  LET f[n \in 0 .. Len(q)] == IF n = 0 THEN <<>>
                              ELSE IF q[n] \in X THEN f[n - 1] ELSE Append(f[n - 1], q[n])
  IN f[Len(q)]

(* cleanup_pending_task, for each of the tasks ids. *)
Without(q, ids) == Less(q, {Run(t) : t \in ids})

(* post of a request's tasks: they go to the back.  The children of a task *)
(* travel inside it.                                                       *)
Carried(x) == IF x.type = "run" THEN {x.id} \cup env.kids[x.id] ELSE {}
Children == UNION {env.kids[t] : t \in Tasks}
PostTasks(ids) == queue' = queue \o [i \in 1 .. Cardinality(ids \ Children) |->
                                       Run(SetToSeq(ids \ Children)[i])]

(* A plausible mistake: the cancels do not name their target. *)
PostCancelsOfNone(ids) ==
  /\ queue' = [i \in 1 .. Cardinality(ids) |-> CancelOf(None)] \o Without(queue, ids)
  /\ deferred' = Less(deferred, ids)

(* A plausible mistake: the children are not cancelled. *)
PostCancelsOfParents(ids) ==
  /\ queue' = [i \in 1 .. Cardinality(ids \ Children) |-> CancelOf(SetToSeq(ids \ Children)[i])]
              \o Without(queue, ids)
  /\ deferred' = Less(deferred, ids)

(* A plausible mistake: only the main queue is cleaned up. *)
PostCancelsQueueOnly(ids) ==
  /\ queue' = [i \in 1 .. Cardinality(ids) |-> CancelOf(SetToSeq(ids)[i])]
              \o Without(queue, ids)
  /\ UNCHANGED deferred

(* post of cancels: each cleans up its target and goes to the front. *)
PostCancels(ids) ==
  /\ queue' = [i \in 1 .. Cardinality(ids) |-> CancelOf(SetToSeq(ids)[i])]
              \o Without(queue, ids)
  /\ deferred' = Less(deferred, ids)

(* pop_deferred_task: the first deferred task that wants slot s, otherwise *)
(* the first one, goes to the front of the queue.                          *)
Wanting(s) == {i \in 1 .. Len(deferred) : env.want[deferred[i]] = s}
Popped(s) == IF Wanting(s) # {} THEN CHOOSE i \in Wanting(s) : \A j \in Wanting(s) : i <= j
                                ELSE 1
PopDeferred(s) ==
  \/ deferred = <<>> /\ UNCHANGED <<queue, deferred>>
  \/ /\ deferred # <<>>
     /\ queue' = <<Run(deferred[Popped(s)])>> \o queue
     /\ deferred' = RemoveAt(deferred, Popped(s))

(* server_response::send: dropped when nobody waits for the task. *)
Send(t, kind) ==
  /\ results' = IF t \in waiting THEN Append(results, [id |-> t, kind |-> kind]) ELSE results
  /\ UNCHANGED waiting

-----------------------------------------------------------------------------
(* The loop (start_loop). *)

LoopTakes ==
  /\ pc = "pop" /\ running /\ queue # <<>>
  /\ hand' = Head(queue) /\ queue' = Tail(queue) /\ pc' = "hand"
  /\ UNCHANGED <<env, deferred, running, sleeping, wake, blocked>>
  /\ UNCHANGED <<resultVars, slotVars, todo, readerVars>>

LoopDrained ==
  /\ pc = "pop" /\ running /\ queue = <<>>
  /\ pc' = "update"
  /\ UNCHANGED <<env, queueVars, resultVars, slotVars, hand, todo, readerVars>>

LoopEnds ==
  /\ pc = "pop" /\ ~running
  /\ pc' = "done"
  /\ UNCHANGED <<env, queueVars, resultVars, slotVars, hand, todo, readerVars>>

(* get_available_slot: the slot asked for, busy or not, or any idle one    *)
(* (the longest common prefix and the age decide which).                   *)
Idle == {s \in Slots : task[s] = None}
Available(t) == IF env.want[t] # 0 THEN {env.want[t]} ELSE Idle

(* get_free_slots for the child: the first other idle slot. *)
KidSlot(t, s) ==
  IF env.kids[t] = {} THEN {} ELSE {x \in Idle \ {s} : \A y \in Idle \ {s} : x <= y}

(* A plausible mistake: the slot asked for is taken, busy or not. *)
FitsAnyway(t, s) == Cardinality(KidSlot(t, s)) = Cardinality(env.kids[t])

(* process_single_task of a completion: the task can have its slots. *)
Fits(t, s) == s \in Idle /\ Cardinality(KidSlot(t, s)) = Cardinality(env.kids[t])

Defers(t) ==
  /\ \/ Available(t) = {}
     \/ \E s \in Available(t) : ~Fits(t, s)
  /\ deferred' = Append(deferred, t)
  /\ NotifyOne
  /\ UNCHANGED <<queue, running, sleeping, wake, resultVars, slotVars>>

(* launch_slots_with_parent_task, launch_slot_with_task: each task into    *)
(* its slot; a child waits there for its parent's prompt.                  *)
Launches(t) ==
  /\ \E s \in Available(t) :
       /\ Fits(t, s)
       /\ task' = [x \in Slots |-> IF x = s THEN t
                                    ELSE IF x \in KidSlot(t, s) THEN CHOOSE k \in env.kids[t] : TRUE
                                    ELSE task[x]]
       /\ ready' = [ready EXCEPT ![s] = TRUE]
  /\ UNCHANGED <<queueVars, resultVars, left>>

(* A launch fails.  The child is launched before its parent: when that     *)
(* fails the child's slot is released again.                               *)
LaunchFails(t) ==
  \E s \in Available(t), k \in {t} \cup env.kids[t] :
    /\ Fits(t, s) /\ k \in env.fails
    /\ Send(k, "error")
    /\ IF k = t /\ env.kids[t] # {}
       THEN (\A x \in KidSlot(t, s) : PopDeferred(x)) /\ NotifyOne
       ELSE UNCHANGED <<queue, deferred, blocked>>
    /\ UNCHANGED <<running, sleeping, wake, slotVars>>

(* A plausible mistake: the release does not look at the deferred tasks. *)
ReleaseSilently(s) ==
  /\ task' = [task EXCEPT ![s] = None]
  /\ ready' = [ready EXCEPT ![s] = FALSE]
  /\ UNCHANGED <<queueVars, left>>

(* slot.release, with the callback that pops a deferred task. *)
Release(s) ==
  /\ task' = [task EXCEPT ![s] = None]
  /\ ready' = [ready EXCEPT ![s] = FALSE]
  /\ PopDeferred(s) /\ NotifyOne
  /\ UNCHANGED <<running, sleeping, wake, left>>

(* process_single_task of a cancel: only the slots are looked at. *)
Cancels(t) ==
  \/ \E s \in Slots : task[s] = t /\ Release(s) /\ UNCHANGED resultVars
  \/ (\A s \in Slots : task[s] # t) /\ UNCHANGED <<queueVars, resultVars, slotVars>>

LoopProcesses ==
  /\ pc = "hand"
  /\ \/ /\ hand.type = "run"
        /\ Defers(hand.id) \/ Launches(hand.id) \/ LaunchFails(hand.id)
     \/ hand.type = "cancel" /\ Cancels(hand.id)
     \/ hand.type = "next" /\ UNCHANGED <<queueVars, resultVars, slotVars>>
  /\ hand' = Nothing /\ pc' = "pop"
  /\ UNCHANGED <<env, todo, readerVars>>

(* A plausible mistake: NEXT_RESPONSE is posted for the first step only. *)
LoopUpdatesOnce ==
  /\ pc = "update"
  /\ todo' = Slots \ Idle
  /\ IF Idle = Slots THEN pc' = "idle" /\ UNCHANGED <<queue, blocked>>
     ELSE /\ pc' = "step" /\ NotifyOne
          /\ queue' = IF \E s \in todo' : left[task[s]] < env.steps THEN queue
                                                          ELSE Append(queue, NextResponse)
  /\ UNCHANGED <<env, deferred, running, sleeping, wake, resultVars, slotVars, hand, readerVars>>

(* update_slots: with a busy slot a NEXT_RESPONSE is posted, then every    *)
(* busy slot takes a step.                                                 *)
LoopUpdates ==
  /\ pc = "update"
  /\ todo' = Slots \ Idle
  /\ IF Idle = Slots THEN pc' = "idle" /\ UNCHANGED <<queue, blocked>>
                     ELSE pc' = "step" /\ queue' = Append(queue, NextResponse) /\ NotifyOne
  /\ UNCHANGED <<env, deferred, running, sleeping, wake, resultVars, slotVars, hand, readerVars>>

(* The slot the update deals with: the slots in their order. *)
Now == CHOOSE s \in todo : \A x \in todo : s <= x
StepOf(s) == pc = "step" /\ todo # {} /\ s = Now

(* A part of the prompt, or a token that is not sent. *)
SlotWorks(s) ==
  /\ StepOf(s) /\ ready[s] /\ left[task[s]] > 0
  /\ left' = [left EXCEPT ![task[s]] = @ - 1] /\ todo' = todo \ {s}
  /\ UNCHANGED <<env, queueVars, resultVars, task, ready, pc, hand, readerVars>>

(* The children of a task whose prompt is done go on from its state. *)
Readied(s) == [x \in Slots |-> ready[x] \/ task[x] \in env.kids[task[s]]]

(* A token that is sent.  Bound: the last one has been received. *)
SlotSends(s) ==
  /\ StepOf(s) /\ ready[s] /\ left[task[s]] > 0
  /\ \A i \in DOMAIN results : results[i].id # task[s]
  /\ Send(task[s], "partial")
  /\ left' = [left EXCEPT ![task[s]] = @ - 1] /\ todo' = todo \ {s}
  /\ ready' = Readied(s)
  /\ UNCHANGED <<env, queueVars, task, pc, hand, readerVars>>

(* The last result, or an error; the release is a step of its own.  An     *)
(* error may come before the prompt is done, and to a child that waits     *)
(* (abort_all_slots).                                                      *)
SlotEnds(s) ==
  /\ StepOf(s)
  /\ \/ ready[s] /\ Send(task[s], "final") /\ ready' = Readied(s)
     \/ task[s] \in env.fails /\ Send(task[s], "error") /\ UNCHANGED ready
  /\ pc' = "release"
  /\ UNCHANGED <<env, queueVars, task, left, hand, todo, readerVars>>

(* A child waits for its parent's prompt (SLOT_STATE_WAIT_OTHER). *)
SlotWaits(s) ==
  /\ StepOf(s) /\ ~ready[s]
  /\ todo' = todo \ {s}
  /\ UNCHANGED <<env, queueVars, resultVars, slotVars, pc, hand, readerVars>>

SlotReleases ==
  /\ pc = "release"
  /\ Release(Now)
  /\ todo' = todo \ {Now} /\ pc' = "step"
  /\ UNCHANGED <<env, resultVars, hand, readerVars>>

LoopUpdated ==
  /\ pc = "step" /\ todo = {}
  /\ pc' = "idle"
  /\ UNCHANGED <<env, queueVars, resultVars, slotVars, hand, todo, readerVars>>

(* Waiting for new tasks: the wait ends when there is one, or the end. *)
LoopGoesOn ==
  /\ pc = "idle" /\ (~running \/ queue # <<>>)
  /\ pc' = "pop"
  /\ UNCHANGED <<env, queueVars, resultVars, slotVars, hand, todo, readerVars>>

(* The idle time is over.  It is a second or more: a thread that was woken *)
(* has long had the mutex.                                                 *)
LoopSleeps ==
  /\ pc = "idle" /\ running /\ queue = <<>> /\ env.sleeps
  /\ \A r \in Readers : reader[r] = "parked" => r \in blocked
  /\ sleeping' = TRUE /\ wake' = FALSE
  /\ pc' = "asleep" /\ blocked' = blocked \cup {Loop}
  /\ UNCHANGED <<env, queue, deferred, running, resultVars, slotVars, hand, todo, readerVars>>

(* A plausible mistake: one thread is told that sleep is over. *)
LoopWakesOne ==
  /\ pc = "asleep" /\ Loop \notin blocked
  /\ IF ~running THEN pc' = "pop" /\ UNCHANGED <<sleeping, wake, blocked>>
     ELSE IF ~wake THEN blocked' = blocked \cup {Loop} /\ UNCHANGED <<pc, sleeping, wake>>
     ELSE pc' = "pop" /\ sleeping' = FALSE /\ wake' = FALSE /\ NotifyOne
  /\ UNCHANGED <<env, queue, deferred, running, resultVars, slotVars, hand, todo, readerVars>>

(* The loop was notified: it ends, goes on sleeping, or reloads the model  *)
(* and tells everyone.                                                     *)
LoopWakes ==
  /\ pc = "asleep" /\ Loop \notin blocked
  /\ IF ~running THEN pc' = "pop" /\ UNCHANGED <<sleeping, wake, blocked>>
     ELSE IF ~wake THEN blocked' = blocked \cup {Loop} /\ UNCHANGED <<pc, sleeping, wake>>
     ELSE pc' = "pop" /\ sleeping' = FALSE /\ wake' = FALSE /\ blocked' = {}
  /\ UNCHANGED <<env, queue, deferred, running, resultVars, slotVars, hand, todo, readerVars>>

(* server_context::terminate, from a signal. *)
Terminate ==
  /\ running /\ env.ends
  /\ running' = FALSE /\ blocked' = {}
  /\ UNCHANGED <<env, queue, deferred, sleeping, wake, resultVars, slotVars, loopVars, readerVars>>

-----------------------------------------------------------------------------
(* A request's thread. *)

(* wait_until_no_sleep, when the response object is made. *)
ReaderStarts(r) ==
  /\ reader[r] = "start"
  /\ \/ ~sleeping /\ reader' = [reader EXCEPT ![r] = "begun"] /\ UNCHANGED <<wake, blocked>>
     \/ /\ sleeping /\ reader' = [reader EXCEPT ![r] = "parked"] /\ wake' = TRUE
        /\ IF wake THEN blocked' = blocked \cup {r}
           ELSE \E x \in blocked \cup {None} :
                  /\ (x = None) <=> (blocked = {})
                  /\ blocked' = (blocked \ {x}) \cup {r}
  /\ UNCHANGED <<env, queue, deferred, running, sleeping>>
  /\ UNCHANGED <<resultVars, slotVars, loopVars, got, missed>>

ReaderWakes(r) ==
  /\ reader[r] = "parked" /\ r \notin blocked
  /\ IF sleeping THEN blocked' = blocked \cup {r} /\ UNCHANGED reader
                 ELSE reader' = [reader EXCEPT ![r] = "begun"] /\ UNCHANGED blocked
  /\ UNCHANGED <<env, queue, deferred, running, sleeping, wake>>
  /\ UNCHANGED <<resultVars, slotVars, loopVars, got, missed>>

(* post_tasks: first the results are waited for, then the tasks posted. *)
ReaderAwaits(r) ==
  /\ reader[r] = "begun"
  /\ waiting' = waiting \cup TasksOf(r)
  /\ reader' = [reader EXCEPT ![r] = "added"]
  /\ UNCHANGED <<env, queueVars, results, slotVars, loopVars, got, missed>>

ReaderPosts(r) ==
  /\ reader[r] = "added"
  /\ PostTasks(TasksOf(r)) /\ NotifyOne
  /\ reader' = [reader EXCEPT ![r] = "recv"]
  /\ UNCHANGED <<env, deferred, running, sleeping, wake>>
  /\ UNCHANGED <<resultVars, slotVars, loopVars, got, missed>>

(* next: the first result for one of the request's tasks. *)
Mine(r) == {i \in DOMAIN results : ReaderOf[results[i].id] = r}
ReaderReceives(r) ==
  /\ reader[r] = "recv" /\ Mine(r) # {} /\ ~(TasksOf(r) \subseteq got)
  /\ LET i == CHOOSE x \in Mine(r) : \A y \in Mine(r) : x <= y IN
       /\ results' = RemoveAt(results, i)
       /\ got' = IF results[i].kind = "final" THEN got \cup {results[i].id} ELSE got
       /\ reader' = IF results[i].kind = "error" THEN [reader EXCEPT ![r] = "stop"] ELSE reader
  /\ UNCHANGED <<env, queueVars, waiting, slotVars, loopVars, missed>>

(* should_stop: the client went away, or the server ends. *)
ReaderLeaves(r) ==
  /\ reader[r] = "recv" /\ ~(TasksOf(r) \subseteq got)
  /\ r \in env.leaves \/ ~running
  /\ reader' = [reader EXCEPT ![r] = "stop"]
  /\ UNCHANGED <<env, queueVars, resultVars, slotVars, loopVars, got, missed>>

(* stop, its first part; with every task received it is the whole of it. *)
ReaderStops(r) ==
  /\ reader[r] = "stop" \/ (reader[r] = "recv" /\ TasksOf(r) \subseteq got)
  /\ waiting' = waiting \ TasksOf(r)
  /\ reader' = [reader EXCEPT ![r] = IF TasksOf(r) \subseteq got THEN "gone" ELSE "cancel"]
  /\ UNCHANGED <<env, queueVars, results, slotVars, loopVars, got, missed>>

(* A plausible mistake: the results stay. *)
KeepResults(r) == UNCHANGED results

(* stop, its second part: the results that came in are thrown away, every  *)
(* task of the request is cancelled.                                       *)
CleanResults(r) == results' = Less(results, [id : TasksOf(r), kind : Kinds])
ReaderCancels(r) ==
  /\ reader[r] = "cancel"
  /\ CleanResults(r)
  /\ PostCancels(TasksOf(r)) /\ NotifyOne
  /\ missed' = missed \cup (TasksOf(r) \cap Carried(hand))
  /\ reader' = [reader EXCEPT ![r] = "gone"]
  /\ UNCHANGED <<env, running, sleeping, wake, waiting, slotVars, loopVars, got>>

LoopStep ==
  \/ LoopTakes \/ LoopDrained \/ LoopEnds \/ LoopProcesses \/ LoopUpdates \/ LoopUpdated
  \/ LoopGoesOn \/ LoopWakes \/ SlotReleases
  \/ \E s \in Slots : SlotWorks(s) \/ SlotSends(s) \/ SlotEnds(s) \/ SlotWaits(s)
ReaderStep(r) ==
  \/ ReaderStarts(r) \/ ReaderWakes(r) \/ ReaderAwaits(r) \/ ReaderPosts(r)
  \/ ReaderReceives(r) \/ ReaderStops(r) \/ ReaderCancels(r)
Next ==
  \/ LoopStep \/ LoopSleeps \/ Terminate
  \/ \E r \in Readers : ReaderStep(r) \/ ReaderLeaves(r)

(* The loop's thread and the requests' threads are scheduled.  Nothing     *)
(* makes a client go away, the idle time pass or a signal come.            *)
Fairness == WF_vars(LoopStep) /\ \A r \in Readers : WF_vars(ReaderStep(r))
Spec == Init /\ [][Next]_vars /\ Fairness
-----------------------------------------------------------------------------
TypeOK ==
  /\ env \in Envs
  /\ queue \in Seq(Entries) /\ deferred \in Seq(Tasks)
  /\ running \in BOOLEAN /\ sleeping \in BOOLEAN /\ wake \in BOOLEAN
  /\ blocked \subseteq Readers \cup {Loop}
  /\ waiting \subseteq Tasks /\ results \in Seq(Answers)
  /\ task \in [Slots -> Tasks \cup {None}] /\ ready \in [Slots -> BOOLEAN]
  /\ left \in [Tasks -> 0 .. env.steps]
  /\ pc \in {"pop", "hand", "update", "step", "release", "idle", "asleep", "done"}
  /\ hand \in Entries \cup {Nothing}
  /\ todo \subseteq Slots
  /\ reader \in [Readers -> {"start", "parked", "begun", "added", "recv", "stop", "cancel", "gone"}]
  /\ got \subseteq Tasks /\ missed \subseteq Tasks

(* Where a task is: on the queue, deferred, in the loop's hand, in a slot  *)
(* that has yet to answer it, or answered with the answer not yet taken.   *)
Places(t) ==
  Cardinality({i \in DOMAIN queue : t \in Carried(queue[i])})
  + Cardinality({i \in DOMAIN deferred : t \in {deferred[i]} \cup env.kids[deferred[i]]})
  + Cardinality({x \in {hand} : t \in Carried(x)})
  + Cardinality({s \in Slots : task[s] = t /\ ~(pc = "release" /\ s = Now)})
  + Cardinality({i \in DOMAIN results : results[i] = [id |-> t, kind |-> "final"]})

(* A task whose request waits for it is in exactly one place: it is never  *)
(* lost between the queues and the slots, never run twice, and answered    *)
(* once; a task nobody waits for is in one place at most.                  *)
HasError(r) == \E i \in Mine(r) : results[i].kind = "error"
OnePlace ==
  \A t \in Tasks :
    /\ Places(t) <= 1
    /\ (reader[ReaderOf[t]] = "recv" /\ ~HasError(ReaderOf[t]) /\ t \notin got) => Places(t) = 1
    /\ t \in got => Places(t) = 0

(* No result is left behind for a request that is gone: nobody would ever  *)
(* take it out.                                                            *)
NoneLeftBehind == \A i \in DOMAIN results : reader[ReaderOf[results[i].id]] # "gone"

(* A slot works on a task of a request that is gone only until the loop    *)
(* gets to its cancel, unless the loop had the task in hand when it was    *)
(* cancelled.                                                              *)
WorksForSomeone ==
  \A s \in Slots :
    (task[s] # None /\ reader[ReaderOf[task[s]]] = "gone" /\ task[s] \notin missed) =>
      \/ pc = "release" /\ s = Now
      \/ hand = CancelOf(task[s])
      \/ \E i \in DOMAIN queue : queue[i] = CancelOf(task[s])

(* The model is unloaded only when no slot works with it. *)
UnloadedWhenIdle == pc = "asleep" => Idle = Slots

(* When nobody leaves and nothing fails, every request that was posted     *)
(* gets the final result of every task, the deferred ones included.        *)
Calm == env.leaves = {} /\ env.fails = {} /\ ~env.sleeps
EveryTaskAnswered ==
  \A r \in Readers : (Calm /\ reader[r] = "recv") ~> (TasksOf(r) \subseteq got \/ ~running)

(* Whoever leaves and whatever fails, the slots of a request that is gone  *)
(* are given back.                                                         *)
GivenBack(r) == \A s \in Slots : task[s] \notin TasksOf(r)
SlotsGivenBack ==
  \A r \in Readers :
    (reader[r] = "gone" /\ TasksOf(r) \cap missed = {}) ~> (GivenBack(r) \/ ~running)

(* A request that waits for the model to be loaded again goes on. *)
SleeperWoken == \A r \in Readers : (reader[r] = "parked") ~> (reader[r] # "parked" \/ ~running)

-----------------------------------------------------------------------------
(* server-queue.h:39 says of defer "defer until one slot is available":    *)
(* the loop never waits for new tasks with every slot idle and a task      *)
(* deferred.                                                               *)
DeferredUntilSlotAvailable ==
  (pc = "idle" /\ running /\ queue = <<>> /\ Idle = Slots) => deferred = <<>>

(* README.md:2002 says that any new incoming task triggers the model to    *)
(* reload.                                                                 *)
NewTaskReloads == (sleeping /\ queue # <<>>) ~> (~sleeping \/ ~running)

(* server-queue.cpp:27 says of a cancel to make sure to clean up pending   *)
(* tasks: the slots of every request that is gone are given back.          *)
CancelCleansUp == \A r \in Readers : (reader[r] = "gone") ~> (GivenBack(r) \/ ~running)
=============================================================================
