# TLA+ models of Phantasma.cpp

Phantasma.cpp is a fork of llama.cpp that runs mixture-of-experts models larger
than the GPU by tiering the expert weights: some experts live in device memory
("hot" slots), some in host-RAM pools, the rest in the memory-mapped file. The
fork's own core is `src/src/llama-expert-tier.cpp`: it moves experts between
tiers while graphs are being computed, with background threads and device
streams. This project models that core first; of the parts inherited from
upstream llama.cpp it models those whose state is hard to keep right: the
server's task queue, its resumable streams and the KV cache.

## 1. Inventory

### Components, their state and their operations

| Component (source) | State | Operations | What is hard | What makes it correct |
|---|---|---|---|---|
| Speculative pool (`llama-expert-tier.cpp`: `prefetch_fill` 1207, `pregate_probe` 904, `maybe_update` 1712, `pool_fill` 1498, `prefetch_release` 932) | per layer: slot words `stateB`, `ownersB`, `lutB`, pool bytes; global in-flight counter | a worker fills a slot; a compute thread probes; the window publishes, recycles, evicts, copies out, releases | lock-free sharing of slots between workers, compute threads and the window | a reader never sees bytes of another expert, no slot leaks, one writer per slot, an exact in-flight counter |
| Prefetch queue (`prefetch_worker` 1283, `pred_shutdown` 1298, `pregate_hook` 1309, `markov_update` 1599) | deque, condition variable, exit flag, threads; `markov_pending` | predict and enqueue, take, shut down | wake-ups, a capacity checked per token, shutdown with work left | no lost wake-up, bounded queue, shutdown joins |
| Tier placement (`maybe_update` 1812-1945, `pool_evict`, `pool_fill`) | hot slots, masks, `lut_host`, demand pool, scores, dwell counters | promote, demote, fill, evict | several tables that must agree; hysteresis; a fill budget | every expert is computed exactly once, tables agree, a newcomer is not evicted at once |
| Pread staging ring (`stage_fetch` 1103) | one word per ring slot | claim, load, publish, wait | claim races, waiting for another thread's load, load failures | a returned address holds the slice, waiting ends |
| H2D stage (`h2d_stage` 331) | three pinned buffers, copy stream, events | upload, wait, fence, synchronous fallback | reuse of a buffer whose copy is under way, stale de-duplication | device memory holds what was uploaded when the graph reads it |
| Budget policy (`hot_slot_budget_policy` 245) | none (pure) | distribute slots over layers | rounding, starvation, fallback | the byte budget is kept |
| Sidecar (`load_sidecar` 980, `save_sidecar` 1019) | a file of per-expert heat | load, save by rename | crash between write and rename | a reader sees an old or a new file |
| Tier ownership (`init` 2332, `context_constructing` 3057, `model_destroying` 3081) | the owning model, global enable flag | claim, refuse, release | a second context, destruction while workers run | no use of a destroyed model |
| Graph building (`build_mul_mat_id` 3089, `begin_moe_cold` 3129) | none | choose operators | hot and cold halves partition the experts | — |
| Cold CPU operators (`ggml-cpu.c` `moe_cold_addr`) | none | look an address up, multiply | — | — |
| Server tasks (`tools/server/server-queue.cpp`, `server-context.cpp`: `start_loop`, `process_single_task`, `update_slots`, `server_response_reader`) | task deques, waiting ids, results, sleep flags; which task each slot runs | post, defer, pop, cancel, launch, release, send, receive, sleep, wake, terminate | condition variables, tasks in nobody's list while the loop has them, cancels in three places, launch failures | each task is answered or cancelled, none is lost or run twice, slots are given back |
| Server streams (`tools/server/server-stream.cpp`) | the buffer of each generation, the map of sessions, the collector | append, finalize, replace, evict, stop, replay, collect | producers, readers, stoppers and the collector meet at one session | a replay has no gap and ends, a session that can be found is complete, a stop ends the stream |
| KV cells, KV cache (`llama-kv-cells.h`, `llama-kv-cache.cpp`) | cell positions and sequences, their indexes, owed shifts, pending copies | sequence operations, update, find_slot, prepare, apply, roll-back, save, restore | indexes kept in step one by one, a trial run undone, copies delayed | indexes agree with the cells, every K is rotated for its position, a decode costs no sequence what it still needs |
| Tree draft (`common/tree-draft-*.cpp`) | reservations, budgets, page tables | reserve, commit, release | protocol of small units | ledgers balance |

The rest of the repository (model loading, tokenisation, chat templates,
samplers, grammars, device back ends, tools, user interface, conversion
scripts, tests) is listed in `PROJECT.json` with the reason it is left out.

### How the components interact

A *step* computes a graph. During it the compute threads of the cold CPU
operators ask `moe_cold_addr` for an expert's weights: the table of pointers
gives an address, `pregate_probe` may replace it by a speculative-pool slot,
`stage_fetch` by a staging-ring buffer. Meanwhile `pregate_hook` (called from
the graph) predicts experts and queues them; the prefetch workers take them and
call `prefetch_fill`. Between two graphs, `update()` runs with the scheduler
synchronised: it reads counters, predicts by the Markov chain, and calls
`maybe_update` per layer, which publishes and evicts speculative slots, promotes
an expert over the H2D stage, and refills the demand pool. So the window and
the compute threads exclude each other, the workers run beside both, and the
device copies the window starts are awaited by the next graph.

In the server, one thread runs the loop over the tasks and the slots; every
HTTP request has a thread that posts tasks and waits for results. The response
of a request with a conversation id also writes into a stream session, which
other connections replay or stop; a stop reaches a stream through the
session's flag, which the thread of the response asks for while it waits for the
next result, though not while it waits for the first.
The slots' updates decode batches into the KV cache, on the loop's thread.

## 2. The modules

### `SpecPool`: the speculative pool of a layer

One action per atomic access another thread may observe.

- Workers (`W...`) follow `prefetch_fill` line by line: four reads that refuse a
  request (`WCheck`), the scan with one compare-exchange per slot (`WClaim`,
  `WClaimNext`, `WClaimFull`), the compare-exchange on the table (`WEnter`,
  `WEnterLost`), the store that gives the slot back (`WLost`), signing and
  charging (`WOwn`), one copy per tensor (`WCopy`), READY (`WReady`) and the
  discharge (`WSettle`).
- Compute threads (`R...`) are `pregate_probe` and the operator that reads at the
  address it returns: three loads, then a read that lasts until `RDone`.
- The window is `maybe_update`: publish or recycle each slot, count the free
  ones (one load each, so the count is of different moments), evict until
  `Target`, promote, upload, refill. A release is three stores in the code's order
  (`ReleaseLut`, `ReleaseOwner`, `ReleaseFree`).

Memory is sequentially consistent in the model. The code's orders are at least
release on the stores and acquire on the loads of the slot word that publish
bytes, and the argument of the invariant only uses what passes through that
word; `ownersB` is a plain `int32` that is written only by the thread that holds
the slot. One layer is modelled: layers share nothing but the in-flight counter,
which for one layer is the counter of the whole system when the other layers are
at rest. Scores and time stamps are left out: any expert may be requested and any
published slot may be the oldest.

`ResidencyContract` is what the pool promises to the rest of the program: an
expert moves free -> filling -> ready -> resident -> free, and while a compute
thread is being served an expert it stays published. `SpecPool` implements it
under the mapping "an expert's stage is the state of the slot its table entry
names".

| Run | Instance | Shows |
|---|---|---|
| `spec_pool_safety` | 2 workers, 1 compute thread, 2 slots, 2 experts, 2 tensors, 1 hot and 1 pool slot, budget 2 | one writer per slot, completeness, exact reads by probes and by the window's copies, exclusive residence, an in-flight counter that is the number of copies under way, the refinement |
| `spec_pool_live` | one slot, one tensor, budget 1, so that the budget refuses | fills end, and windows end although workers refill what is evicted (`FillsAndWindowsEnd`) |
| `spec_pool_inflight_capped` | as safety, budget 1 | a counterexample: the documented cap on in-flight data is overshot when two workers check before either charges |

Two workers suffice for every race between workers, since a worker interacts
with one rival at a time through one slot or one table entry; two slots
distinguish "my slot" from another; the theorems below drop these bounds.

Fairness is weak, per thread: an operating-system thread that can run keeps
running, none of these steps blocks, and the copy of a slice ends. No fairness
is assumed of the arrival of requests, probes or windows.

### `PrefetchQueue`: the queue between predictors and workers

A critical section of `g_work_mu` is one action. `Take`, `Sleep` and `Quit` are
the outcomes of the predicate of `condition_variable::wait`, `Filled` is the
return of `prefetch_fill`, `WakeSpuriously` what the library allows.
`HookToken` is one token of `pregate_hook`: the length is compared with `Cap`
once, then every prediction not queued by this call is pushed. `MarkovPush` is
the critical section of `markov_update`, which compares at each push. `Notify`
is the choice between `notify_one` and `notify_all` after the lock is given
back, so workers run between the pushes and the notification. `ShutBegin`,
`ShutNotify` and `ShutJoin` are `pred_shutdown`, which `exit()` may call at any
moment of a worker's or producer's life. The two producers exclude each other:
the hook runs inside a graph, the Markov update between graphs.

| Run | Instance | Shows |
|---|---|---|
| `prefetch_queue` | 3 workers, 2 experts, cap 2, 2 predictions per token, 2 tokens | the cap is overshot by less than one token's predictions; no lost wake-up; a non-empty queue is served again and again; the join of `pred_shutdown` returns |

Three workers are enough to have one asleep, one filling and one woken; a cap
of two makes the hook overshoot and the Markov update stop short. Weak fairness
of each worker (the mutex is granted, the fill ends, which `FillEnds` of
`SpecPool` shows), of a producer that began, and of a shutdown that began.
`RequestsAreTaken` speaks of the queue and not of one request: requests left
when the flag is set are dropped.

### `StageRing`: the demand-fetch staging ring

All compute threads run `stage_fetch` for the experts of their rows, one action
per load, compare-exchange and store of a buffer's word and per tensor read
from the file: the scan (`ScanHit`, `ScanInFlight`, `ScanOther`, `ScanEnd`) with
its candidate and the candidate's word as they were read, the claim (`Claim`,
`ClaimLost` with at most `Attempts` scans), the load (`Load`, `LoadDone`,
`LoadFailed`) and the wait for another thread's load (`WaitHit`, `WaitFailed`).
`ReadFrom` .. `ReadDone` is the multiplication with the weights. `AtBarrier` and
`NextOperator` are `ggml_barrier` between two nodes of the graph: the ring's
comment rests on it ("cold ops are serialized by the threadpool").

| Run | Instance | Shows |
|---|---|---|
| `stage_ring` | 2 threads, 2 layers, 2 experts, 1 tensor, 2 buffers, 2 scans, 2 fetches per operator | weights read are the ones asked for, one loader per claimed buffer; without failures no expert is in two buffers; every fetch ends |

Two threads are a loader and its waiter, or two rivals for one buffer; two
buffers let them pick different ones, and two fetches per operator let a thread
come back while the other is still at its first; two layers are needed for
reclaiming. The theorems of section 4 hold for any numbers. Whether reads may
fail (`faulty`) is chosen at the start. `FetchedOnce` is true only without
failures: after a failed load a thread can claim the freed buffer for an expert
another one has meanwhile fetched elsewhere. Fairness is weak, per thread, and
none of a thread's wish to fetch.
### `H2DStage`: the host-to-device stage

The host is sequential: in the window `Upload` takes a new generation of the
region and calls `h2d_stage_upload_once` (de-duplicate, wait for the next pinned
slot, copy into it, enqueue, record), `Publish` is `h2d_stage_wait_backend` with
its fallback, and then the graph is launched and later synchronised. The copy
stream and the consumer's stream are actors of their own. They are external and
modelled from their use: entries run in order; the waits one
`Publish` enqueues are one entry, which ends when the copies it names are complete; the region is undefined while its copy runs. A consumer on
another device (`local = FALSE`) is served by waiting on the host.

The run `h2d_stage_safety` has three regions (one too large for a slot), two
pinned slots and generations up to 4 (`MaxGen`, a bound of the model), so that a slot is used again while its copy is pending and while the region has been promoted a second
time. The device's compute stream of the stage itself carries only waits and is
left out, and with it the fence in the synchronous path, which waits for a
stream with nothing else on it. The theorems of section 4 drop
all these bounds.
### `TierPlacement`: hot slots and the demand pool of a layer

`Observe` is a graph and the score update, with any scores up to `MaxScore`;
`Repin`/`NoRepin` the hot half of `maybe_update`, `PoolFill`/`NoPoolFill` the pool
half with `pool_evict` and `pool_fill`. Nothing runs beside a window, so each half is one action. The dwell
counters saturate at `MinDwell`, which the code only compares them with; the
factor 1.5 is `2 * new > 3 * old`. `Init` is every placement `init` can leave: a
heat file may name fewer experts than there are slots, so the zeroed sentinel
need not be the last slot. The file is assumed to name an expert of a layer
once, as the profiler and the sidecar write it.

| Run | Instance | Shows |
|---|---|---|
| `tier_placement` | 4 experts, 2 hot slots and the sentinel, 1 pool slot, dwell 2, scores 0..2 | each expert is computed exactly once, from its own weights; the tables agree; once scores rest, the placement settles within the hysteresis |

The shape of the argument does not depend on the numbers: one expert enters and
one leaves per window and level; four experts leave one outside both levels.
Fairness: graphs go on. The fill budget is renewed for each layer, so it is the
constant `SlotFits`.

### `KVCache`: the KV cells and the calls that change them

The cache belongs to one thread, so a call is a step. What a call does to the
cells is a loop (`ForEach`) of the operation on one cell (`SeqRmCell`, `PosAdd`,
`SeqAddCell` ...) in the order of the code, since each operation updates the
counts per position (`seqPos`), the set `used` and the flag `hasShift`
incrementally, and whether these agree in the end is the question. So are the
ubatches of a batch, in the trial (`Tried`), its undo (`Undone`), the
computation (`Computed`) and the roll-back (`Rollback`).
 `rot` is the
one thing kept of the data: the position the K of a cell is rotated for.

- `SeqRm`, `SeqRmAny`, `SeqKeep`, `SeqCp`, `SeqCpStream`, `SeqAdd`, `SeqDiv`,
  `Clear` are the sequence operations. A copy between streams changes cells at
  once and appends to `sc_info`; the data follows at the next update.
- `Decode` is the pending update, the trial run of `prepare` with its undo
  (`Undo`), then each ubatch placed (`ApplyUbatch`: `Place` the tokens, `Purge`
  what lies below an overwritten position) and computed. `DecodeRefused` is a
  batch for which the trial finds no cells; `DecodeAborted` one whose computation
  fails at ubatch k, with the roll-back of `llama_context::decode`.
- `FindSlot` searches from the head as the code does, the reset of a late head
  included; `Usable` is a free cell, or one of a single sequence whose position
  the window masks.
- `StateCopy` saves one sequence and restores it as another, `StateRestore` saves
  and restores a whole stream.

The callers' side of the contract, as the code asserts it or as its callers
keep it: `SeqCp` names a range in which no cell has the destination yet
(`seq_add` asserts this); positions of a sequence go on from its last one and
sequences that share a token are at the same positions (`llama_batch_allocr`);
states are saved and restored with nothing pending; a batch that fails half-way
has one sequence for each token. The hazards in `PROJECT.json` say what happens
outside of the last two.

| Run | Instance | Shows |
|---|---|---|
| `kv_cache` | 2 sequences; one stream of 3 cells with no window or a window of 2, or a stream of 2 cells for each sequence with the window; positions 0..2; four batches of one or two ubatches, one with a shared token; ranges `[0,1)` and `[1,end)`; shift -1; at most one pending stream copy and one owed position (`Waiting`) | the indexes agree (`IndexesAgree`), every K ends up rotated for its cell's position (`ShiftIsOwed`), no decode that succeeds takes from a sequence a position its next token attends to (`WindowKept`; a refused one may, see below) or makes a gap (`NoNewGaps`) |
| `kv_refusal_keeps_window` | one stream of 5 cells, window 3, a batch of four ubatches | a counterexample: see section 3 |

Two sequences are needed for shared cells and copies; three cells hold a
sequence longer than the window and force both the reuse of masked cells and
refusals; a shift of -1 drops a position and owes a rotation. `SeqDiv` is not
in `Next` (section 3). `KVCacheProofs` proves all four properties for any number of
sequences, cells and positions, any window, ranges and shifts, and any legal
batches. "Next token" means the one after the last position the sequence has had, before or after the decode
(`NextPos`): with a window of 1, which the proof covers and the run does not, the last
position itself may be reused by another sequence.

### `StreamSession`: resumable streams

A session belongs to one request, so it has the request's name. A critical
section of `map_mu` or of a session's `mu` is an action. The thread of a request
goes through `create_or_replace` (`SetReq`, then `CancelPrevious` and
`FinalizePrevious` outside of the lock), the wait for the first result of a stream
(`SetNext` ends it), chunks (`NextChunk`, `Write`), the loss of its client
(`Disconnect`, `Drain`), an end without a stream (`ReturnUnstreamed`: an error, all
the results of a response that is not streamed, a client that left; then `Evict`,
`FinalizeEvicted`) and the destruction of the response
(`Destroy`). Replays are `Get`, `CheckOffset`, `ReadChunk`, `ReadLost`,
`ReadDone` and `ReaderGone`; a stop is `Stop`, `StopCancel`, `StopFinalize`; the
collector is `Gc`, and the shutdown `StopGc` and `FinalizeLive`. A byte is
its place in the generation's output, so a gap or a repetition shows.

| Run | Instance | Shows |
|---|---|---|
| `stream_sessions` | 2 requests of one conversation, 1 replay connection, 1 stopper, a buffer of 3 bytes, generations of up to 4 bytes in chunks of 2 or 4 | a buffer is the last bytes accepted, replays are gap-free, a replay that ended has everything, a session that can be found is complete, a session that is not done can be found or is about to be finalized; replays end, and so does a stream that is stopped |

Two requests make one replace the other at any point of its life; chunks of 2
overflow the buffer by a part, a chunk of 4 is larger than the buffer. The
requests are interchangeable and come in their order (`InOrder`). `MaxBytes` is
the bound: past it a generation goes on with empty chunks, since one without a limit
of tokens does.

Fairness is weak, and for threads only that nobody keeps waiting: a request's thread
in what it does between two waits (`Proceed`), a replay's, a stopper's from the
moment it took a session out of the map, and the shutdown's once it has begun. A
request's waits (`Await`) are not fair: a result need never come, since a generation may be
without a limit and another one may be queued behind it; and clients may stay or
leave. The wait for the next result of a stream is the exception once the session is
cancelled, for `next_orig` asks for the flag while it waits. So `ReplayEnds` asks for
an end only when the session is cancelled, or its producer is about to go; and
`CancelledEnds` says that a cancelled request ends from every point but the wait for a
first result, or for all results, where the code does not ask for the flag
(section 3).

### `ServerTasks`: the server's queue, results, readers and slots

An action is one critical section of `mutex_tasks` or `mutex_results`, or a
part of the loop that only touches the slots. The loop takes a task
(`LoopTakes`), has it in hand, processes it (`LoopProcesses`: defer, launch, fail
to launch, cancel), and when the queue is empty updates the slots one after the
other (`LoopUpdates`, `SlotWorks`, `SlotSends`, `SlotEnds`, `SlotReleases`,
`SlotWaits` for a child that waits for its parent's prompt), then waits or sleeps
(`LoopSleeps`, `LoopWakes`). The thread of a request waits for the end of sleep
(`ReaderStarts`, `ReaderWakes`), announces its ids (`ReaderAwaits`), posts
(`ReaderPosts`), receives, and stops (`ReaderStops`, `ReaderCancels`, two critical
sections). `notify_one` wakes any one of the threads that wait, the loop or a
request.

What surrounds the server is chosen at the start (`Envs`), so that one run looks
at five situations:

| Surroundings | What can happen |
|---|---|
| `Wanted` | two tasks want the same slot: deferral and the order of release |
| `Family` | a parent with a child |
| `Trouble` | a parent with a child, either may fail to launch or fail later; a client that leaves |
| `Sleepy` | a server that sleeps when idle |
| `Short` | one that sleeps, and is told to end |

| Run | Instance | Shows |
|---|---|---|
| `server_tasks` | 2 requests with two tasks and one, 2 slots, the five surroundings, one update before a task's last | a task whose request waits is in exactly one place, no result is left for a request that is gone, a slot works for a request that is gone only until the loop gets to the cancel, the model is unloaded only when idle; every task is answered, slots are given back, whoever waits for the end of sleep goes on |
| `server_deferred_until_slot` | three tasks that want one slot, the second fails to launch | a counterexample: see section 3 |

Two slots are the least a parent with a child needs; three tasks leave one
deferred behind another. Bounds: a task takes `env.steps` updates before its
last, has at most one partial result unread, and a parent at most one child. A
prompt is not empty. The idle time is a second or more, so `LoopSleeps` waits for
threads that were woken and have yet to run. Weak fairness of the loop's thread and
of each request's; none for a client's leaving, the idle time or the signal.
`UnloadedWhenIdle` and `WorksForSomeone` name the two windows in which the code
knows better than its flags: the release that follows a last result, and a task
that was cancelled while the loop had it in hand (`missed`).

The removal of elements from a queue (`cleanup_pending_task` and its like) is
`Less`, a recursive function and not the library's `SelectSeq`, of which nothing
can be proved. `EnvOk` says what `add_child` makes of tasks: a child is a task of
its parent's request, has no child of its own and one parent. All the safety
properties are proved (`ServerTasksProofs`, section 4).

## 3. Where the code does something else than its comments and documents say

Each of these was met while modelling. The first three are runs of the project
that end with a counterexample; the others are stated as properties, with a
configuration that shows the counterexample
(`tlc -config <cfg> <module>` in this directory).

| Statement | What the code does | Property | Configuration |
|---|---|---|---|
| the in-flight cap of the speculative pool | two workers read the counter before either charges it: every worker may be charged at once, whatever the cap | `InflightCapped` | `SpecPool_InflightCapped.cfg` (run) |
| `llama-kv-cache.cpp:853`, the trial run restores "the cells to their original state" | what a trial purged below an overwritten position is not restored: a refused batch costs a sequence positions of its window | `RefusalKeepsWindow` | `KVCache_Refusal.cfg` (run) |
| `server-queue.h:40`, defer "until one slot is available" | a release moves one deferred task; if its launch fails the tasks behind it wait with every slot idle | `DeferredUntilSlotAvailable` | `ServerTasks_Deferred.cfg` (run) |
| `llama-expert-tier.cpp:634`, the window owns the transitions to FREE | a worker that lost the race for the table gives its own slot back; harmless, since it holds the slot | `OnlyWindowFrees` | `SpecPool_OnlyWindowFrees.cfg` (`MCSpecPool`) |
| `llama-expert-tier.cpp:1144`, "ring full of live slots: mmap fallback" | a buffer filled for an earlier operator of the running layer is not taken either, though nobody reads it any more | `FullMeansLive` | `StageRing_FullMeansLive.cfg` (`StageRing`) |
| `llama-kv-cells.h:469`, the array "accumulates any applied shifts to the pos array" | `pos_div` adds the old position minus the new one, the opposite sign of `pos_add`: the K ends up rotated for another position | `ShiftIsOwed` | `KVCache_Div.cfg` (`MCKVCache`) |
| `README-dev.md:135`, every chunk is in the buffer before the socket, "so a chunk lost to a dead wire is already buffered"; `server-stream.cpp:636` | a request that ends without a stream evicts by conversation id, and may take a newer request's session | `TeedUnlessStopped` | `StreamSession_Teed.cfg` (`MCStreamSession`) |
| `tools/server/README-dev.md:137`, a `DELETE` stops work "by raising the flag and letting the worker unwind" | the waits for a first result and for all results of a response that is not streamed (`server-context.cpp:4606`, `4574`) ask for the connection and not for the flag: a stop does not end them | `DeleteStops` | `StreamSession_Delete.cfg` (`MCStreamSession`) |
| `tools/server/README.md:2002`, any new task triggers the reload | a request that saw the server awake posts after the loop went to sleep: its task waits until another request comes | `NewTaskReloads` | `ServerTasks_Reload.cfg` (`MCServerTasks`) |
| `server-queue.cpp:27`, a cancel cleans up its pending task | a task in the loop's hand is in neither queue nor slot; deferred after the cancel was processed, it is run for nobody | `CancelCleansUp` | `ServerTasks_Cancel.cfg` (`MCServerTasks`) |

The comment at `server-stream.cpp:309`, that a stop "does not interrupt the
underlying generation itself", disagrees with that document and with the code the
other way round. For a stream it is wrong: its thread sees the flag, the response is
destroyed, and `~server_response_reader` cancels its tasks (`CancelledEnds` here, the
cancel in `ServerTasks`). For the two waits it is right.

In `ServerTasks`, too, a server that is told to end while it sleeps leaves
`sleeping` set, and a request that waits for the end of sleep is not told.


## 4. Proofs

Every proof has the same shape: an inductive invariant (`IInv`; `Inv` in
`KVCacheProofs`), one lemma for each
group of actions, the induction, and temporal theorems that follow by PTL. The
types are part of it; that they hold is proved and no run checks it
again.

- `SpecPoolProofs`: `Invariance` proves `Spec => []IInv`. None of the safety
  properties is inductive alone. That a probe reads the right bytes needs that a
  published slot is complete, which needs that the worker that stores READY has
  copied every tensor into a slot only it holds (`WorkerInv`, `FillingHeldOnce`),
  which needs that the slot it claimed is freed by nobody else, which needs that
  the window releases published slots only and that the table entry it clears is
  the slot's own (`TableInv`, `ReleaseInv`). `ReaderInv` pins the slot of a probe by
  the exclusion of windows and graphs; `SourceInv` and `ExclusiveInv` do the same
  for the copies the window makes.
- `Implementation`, in `SpecPoolProofs` too: every step maps to a step of
  `ResidencyContract` or a stutter.
- `InflightIsExact`, at the end of `SpecPoolProofs`: the in-flight counter is the
  number of workers between charge and discharge. The proof counts: a step of a worker
  makes it join or leave them exactly when it changes the counter
  (`JoinOrLeave`), and what others are there does not change.
- `PrefetchQueueProofs`: `NoWakeupIsLost` is a count. A request is pushed together
  with a job the producer owes a notification for; a worker that takes a request
  was at the lock; a worker goes to sleep only when the queue is empty; `Notify`
  turns one job into one worker at the lock, or empties the set of sleepers. The
  strengthening is `PointsOK`: an idle producer owes nothing, and a hook owes at
  most one job for each expert in its `queued` set, which bounds the debt by the
  number of experts (`TypeCorrect`). `QueueIsBounded` needs only the comparison
  with the cap before each token or push.
- `StageRingProofs`: `FetchesAreExact` rests on two facts, one per side of the
  word. `ThreadOK` says of each program point what the thread knows of the buffer
  it works on (a loader's buffer carries its claim and holds the tensors copied
  so far; a reader's buffer is ready under its key). `ReadyComplete` says a ready
  buffer holds every tensor of its key. What a claim could break, a buffer under a
  thread that still multiplies, is excluded by the layer in the key: all threads
  between two barriers work for the same layer, and a claim takes a ready buffer of
  another layer only. `LoaderIsUnique` is inductive with them.
  `ExpertsAreFetchedOnce` has an invariant of its own, `OnceInv`, which shows why
  the code may claim with one compare-exchange after a scan of many words. Within an
  operator a buffer that may not be taken stays so (the reason the file must be
  readable: a failed load frees its buffer), and all threads scan in one order and
  remember the first buffer they may take (`ScanOK`). So when two threads want one
  expert, the later claim is for the same buffer, or for one the earlier scan
  found taken, and its compare-exchange fails.
- `H2DStageProofs`: `StagingIsStable` is inductive: a slot that needs no wait is the
  source of no copy, since a copy under way names the upload its slot is in flight
  for. `ReadsAreExact` follows from what is under way when a graph runs: nothing.
  Outside of the window every slot in flight is awaited, the wait of a copy that is
  not complete is still in the stream (`WaitInv`), a graph is the stream's last entry
  (`StreamInv`), so when it is first no copy is left, and a region without one holds
  what is wanted (`DataInv`). A new generation is never a duplicate (`UploadInv`).
- `TierPlacementProofs`: `TablesAgree` is inductive with the types and `Contents`
  (a slot's bytes are those of the expert its owner table names). The steps that
  need an argument are the two halves of a window: a promotion replaces a hot
  slot's owner in the masks and tables at once and gives up the expert's pool slot
  (`PoolWithout`: only that expert's entry goes), and a fill puts a new expert where
  an evicted one was. `EachIsComputedOnce` follows from the
  invariant without induction.
- `StreamSessionProofs`: `WindowInv` says the buffer and the chunk its producer has in
  hand are consecutive pieces of the output, and that a session that is not done
  accepted everything. `MapInv` says who has a session: the map under its
  conversation, or one that took it out, never both; a request that has not begun
  has none. Only those who took a session out, and its own producer, finalize it,
  so a session in the map is not done while its producer works (`DoneInMap`), which
  is `FoundCorrect`; `ReplayInv` ties what a replay has received to its offset.
- `ServerTasksProofs`: `EveryTaskInOnePlace` is a count as well. Its first part
  proves what the changes the code makes to its queues do to the number of elements
  of a sequence that are in a set; the removal of elements needs induction over the
  sequence's length, taken from the well-foundedness of the naturals (`Least`,
  `Induction`), and so does the existence of the recursive function it is defined
  by (`LessDefined`). `PlaceInv` then counts a task's places. That it stays at most one
  needs that a failed task is nowhere any more and that a final result is a task's
  last (`ResultInv`: otherwise a request could receive a result, believe the task
  done and leave another behind), and that nothing is sent for a task nobody
  waits for. What a step of the loop may do to the tasks is one formula, `Moves`,
  which every one of its thirteen kinds of steps is shown to satisfy; that the
  invariant survives it is proved once. `SlotsWorkForSomeone` needs that a cancelled
  task is in none of the queues unless it was in the loop's hand (`CancelInv`):
  otherwise it could be launched after its cancel. `SleepsWhenIdle` rests on
  `LoopInv`: while slots are at work a `NEXT_RESPONSE` is on the queue.
- `KVCacheProofs`: an operation is a loop over cells, and a batch a loop over
  ubatches, so its first part proves three rules for `ForEach`: a property that each
  round keeps holds after the loop (`LoopKeeps`), one that may depend on how far the
  loop has come (`LoopRule`), and one of two loops that run side by side
  (`Lockstep`). They need induction over the rounds, taken from the
  well-foundedness of the naturals. `CellRule` is the argument every operation on one
  cell shares: if it changes one cell, that cell is in order afterwards, and the
  counts follow it, the cells and the indexes still agree (`Sound`; the counts are
  cardinalities of sets of cells). `Owes` then says of a stream and of data that the
  K of each used cell is its position less its shift; `ShiftIsOwed` is `Owes` of the
  data as the pending copies will leave it, which is why a copy of a cell has to owe
  what the cell owes (`Copies`). The hard step is the decode. The trial run may take
  used cells, and its undo must bring each stream back to cells that are in order and
  have no position but the one they had before (`Fewer`), though not all of them: a
  purge stays. The undo is a loop from the end of a stack, each entry of which leads
  to the next (`TrialsFrom`). The batch that
  fails half-way needs that the roll-back empties every cell of the failed ubatch
  (`Gone`), whose K was never computed; this is where `Single` is used: with a token of
  several sequences it is false.
  `WindowKept` and `NoNewGaps` compare the positions before and after a whole batch,
  and the batch does not run on the cells it was tried on: the undo leaves out what the
  trial purged. `AsTried` says that a decode which succeeds leaves the same cells
  all the same. The batch goes into the cells the trial found, and a cell keeps what the
  undo left in it until it is taken; what the undo left there is what the trial found
  there, for it had survived the trial's purges. So the batch takes and purges the same. Both
  properties are then about the trial. By induction over its ubatches
  (`DecodePositions`), a sequence has before each of them the positions it had and was
  given so far but for the lowest, and each
  missing one is behind the window of its next token: a cell is reused only when it is
  masked, and the purge takes only what is below a reused one.

Each theorem holds for every value of the constants its module's assumptions
allow: any set of experts (a finite one for the queue), any number of slots or buffers
(at least one for the speculative pool and the stage), any non-empty finite set of
workers, any threads, requests, conversations, readers and stoppers (the last two
kinds of actor of a session, requests and stoppers, being different), any capacity;
for the server any requests with finitely many tasks each, any number of slots, and
surroundings in which a task has at most one child; for the KV cache any integers as
shifts, any ranges within the positions, and any batches that are non-empty lists
of non-empty rows of tokens with at least one sequence each.

Model-checked only: what is liveness (`FillsAndWindowsEnd`, `RequestsAreTaken`,
`ShutdownEnds`, `FetchEnds`, `Converges`, `ReplayEnds`, `CancelledEnds`,
`EveryTaskAnswered`, `SlotsGivenBack`, `SleeperWoken`). Every safety property that a
passing run checks has a theorem. What the code may do against its documentation is a counterexample of TLC's.

## 5. Plan

Order: the races first, the sequential bookkeeping after.

1. `SpecPool`, `ResidencyContract` and their proofs. *Done.*
2. `PrefetchQueue`, `StageRing`, `H2DStage`: the other concurrent parts of the
   tier. *Modelled, checked and proved.*
3. `TierPlacement`: hot slots, masks, tables and demand pool. *Modelled,
   checked and proved.*
4. `ServerTasks`: the server's task queue, slots and result readers. *Modelled,
   checked and proved.*
5. `StreamSession`: resumable streams. *Modelled, checked and proved.*
6. `KVCache`: the KV cells and the cache over them. *Modelled, checked and
   proved.*
7. `TierOwner` (init, second context, destruction, exit), `HotSlotBudget` (the
   greedy loop against a reference), the sidecar with a crash.
8. The tree-draft ledgers.
9. A composition: the queue's workers as the fills of the speculative pool.

## 6. Not modelled

`PROJECT.json` lists each component that is left out with its reason. In short:

- Numeric kernels, model outputs, scores and file formats are data the properties
  do not tell apart, and are left as nondeterministic choices: any expert may be
  predicted or the oldest, any chunk of output may be produced. So the predictors,
  samplers, grammars, speculative decoding and the image and audio encoders have no
  module of their own.
- Device drivers, their streams and events are modelled from how the tier uses
  them; their kernels and drivers, and ggml's scheduler, allocator and thread pool,
  are inherited from upstream and reached only through a few calls.
- The recurrent memory and the splitting of batches are upstream's sequential code:
  `KVCache` takes the batches as they arrive. It has the standard sliding window,
  not the chunked and the symmetric one of `is_masked_swa`, and no update whose graph
  for the K-shift fails: the code logs that and decodes with the shifts still owed.
- The router, which starts and stops child servers, the HTTP plumbing and the
  loading of models are input and output around the parts that are modelled.
- Chat templates, parsers, command-line programs, conversion scripts and the user
  interface keep no state that two calls share.
- Weak memory is not modelled: the models interleave sequentially consistent
  accesses. Liveness under fairness is only model-checked.
