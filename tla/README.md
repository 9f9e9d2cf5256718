# InfiniKV: TLA+ models and proofs

InfiniKV keeps the KV cache of vLLM requests in files on NVMe drives that GPUs
read and write directly (GeminiFS).  This directory holds TLA+ modules for the
parts of it whose behaviour is hard to test, the TLC instances that check them
and proofs checked by TLAPS.  Paths below are relative to `src/`.

## 1. The system

| Part | State | Operations | Talks to |
|---|---|---|---|
| Connector, scheduler half (`infinikv/infinikv/integration/vllm/vllm_v1_adapter.py`, 1154-1400) | `load_specs`, `_request_trackers`, `_requests_in_step` | `get_num_new_matched_tokens`, `update_state_after_alloc`, `build_connector_meta`, `request_finished` | called by the vLLM scheduler; asks the lookup client; sends metadata to the worker |
| Connector, worker half (same file, 780-1150) | `current_layer`, save task queue, `pending_store_layer_tasks`, `connector_metadata` | `start_load_kv` (`_prepare_for_load`, `_prepare_for_save`), `wait_for_layer_load`, `save_kv_layer`, `save_kv_layer_async`, `launch_io` | called by the attention hook and the model runner; calls the engine |
| Engine (`infinikv/infinikv/v1/infinikv_engine.py`) | none of its own | `lookup`, `prepare_for_load`, `prepare_for_store`, `store_layer`, `retrieve_layer` | token database, backend; `lookup` runs in the lookup server's thread |
| GeminiFS backend (`v1/storage_backend/geminifs_backend.py`) | `dict`: key to GPU file | `contains`, `get`, `allocate`, layerwise put and get, `persist`, `remove` | GeminiFS (C++/CUDA) |
| Token database (`v1/token_database.py`) | none | `process_tokens` (chunks, mask, prefix hash) | engine |
| vLLM scheduler loop (`vllm-infinikv/vllm/v1/core/sched/scheduler.py`, `.../kv_cache_manager.py`, `.../engine/core.py`) | requests, blocks, prefix cache | `schedule`, preemption, `finish_requests`, `update_from_output` | the connector |
| Attention hook (`vllm-infinikv/vllm/model_executor/layers/attention/kv_transfer_utils.py`) | none | load, attention, save for each layer | worker half |
| Lookup client and server (`v1/lookup_client`, `v1/lookup_server`) | a socket, Redis keys | request and reply | scheduler half and index |
| Cache controller (`v1/cache_controller`) | `worker_mapping`, `socket_mapping`, `instance_mapping`, `kv_pool`; a message queue per worker agent | register, deregister; admit, evict and lookup of chunks, which nothing in the repository reaches (section 5); agents push batches | ZeroMQ between agent and controller |
| GPU file manager, NVMe file manager (`csrc/GeminiFS/libgeminifs`) | slots, bitmap and record log per GPU and per drive, free list, open descriptors | init, reset, create, open, close, delete, restore, cleanup | backend; file system |
| NVMe queue (`csrc/GeminiFS/libnvm/include/nvm_parallel_queue.h`) | tickets, head and tail marks, command ids | enqueue, poll, dequeue by many GPU threads | drive |
| Batch I/O pool (`libgeminifs/include/gpu_file_manager.cuh`) | lock-free stack of I/O contexts | acquire, release | batched transfer |
| Simulator and stream controller (`v1/simulator.py`) | streams in use | choose a stream | worker half |
| LRU evictor (`evictor/lru_evictor.py`) | recency order | touch, choose victims | constructed by the backend, never called |

What makes it hard.  The scheduler half decides on what the *worker will have
done*: it counts tokens as saved when it builds metadata, and looks the index
up while an earlier step is still storing.  Requests are preempted, come back
with other blocks, are aborted, or fail to get blocks after they were matched.
Chunks are skipped by a mask, by the index or because files ran out, while
files and blocks are paired by position.  Layers are loaded one ahead of the
attention by counters in two places.  Save tasks wait in queues beyond the step,
and beyond the request, they belong to.

What makes each part correct.

* Scheduler half: a cached request has a tracker and a request object; the
  tracker follows what vLLM scheduled; a matched request keeps a token to
  compute; the tokens vLLM reports after allocation are those the load spec
  promises, and they are really loaded.
* Worker half: a handler raises only for a configuration the code does not rule
  out; a layer's load precedes its attention; save
  tasks are at the layer of the forward pass; pending block ids agree with the
  queue; store tasks are uniform and are written in layer order; every step ends.
* Index: it is closed under prefixes (lookup stops at the first gap); what the scheduler counts as saved is indexed or on
  its way.
* NVMe queue: threads that move head and tail for each other behave like a
  service that fetches commands in ticket order, each once, and returns to the
  thread whose command was completed; every command returns.
* Files: what a restart finds in the logs was really written; with nothing pending
  a crash loses nothing; every GPU file has NVMe files of its own; the free list
  holds what was initialised and is not open.
* I/O pool: an entry has one owner, is not refilled under a kernel that reads it,
  and comes back on every path.
* Controller: no handler raises, the registry's maps agree with each other and with
  the workers once their messages are handled, and a registration arrives.

`PROJECT.json` lists the hazards one by one, each at its line, with the
properties that cover it.

## 2. The modules and the code

| Module | Models |
|---|---|
| `TokenDatabase` | `ChunkedTokenDatabase`: number and ends of chunks, mask, keys |
| `ConnectorScheduler` | scheduler half, and the part of vLLM's loop that calls it |
| `ConnectorWorker` | worker half, engine, index of the backend, attention hook |
| `KVConnector` | both halves, the metadata channel, lookup; the properties |
| `MCKVConnector` | two requests and their tokens, symmetry, for TLC |
| `SchedulerProofs`, `WorkerProofs`, `ConnectorProofs` | inductive invariants and theorems of the connector |
| `QueuePairService` | what an NVMe queue pair promises, without its data structures |
| `NvmQueue` (`MCNvmQueue`) | `nvm_parallel_queue.h` step by step, with the device; implements `QueuePairService` |
| `RecordLog` | the log file of both file managers, as a value: bitmap, records, stdio buffer, pending changes |
| `GpuFiles` (`MCGpuFiles`) | both file managers over one `RecordLog` each, `GeminiFS::init`, reset and cleanup, crashes |
| `IoPool` (`MCIoPool`) | `geminifs_batched_xfer`, the lock-free pool, streams and callbacks |
| `CacheController` (`MCCacheController`) | worker agents, their connections, the controller's registry |
| `NvmQueueProofs`, `IoPoolProofs`, `GpuFilesProofs`, `CacheControllerProofs` | the same for these components |
| `SequenceFacts` | lemmas about numbers, sequences and folds that the proofs share |

**Data.**  A token sequence the adapter handles is always a prefix of one
request's tokens, so counts stand for sequences.  A cache key is a chained hash;
the model takes the token prefix itself, so equal keys are equal prefixes.  KV
data is not represented: `written[f]` says which layers were written to a file,
`block_hash` which prefix's last chunk a block holds, and a transfer records key,
file and block.  The code aligns masks with vLLM's block size (`BlockSize`) and
cuts chunks with its own chunk size (`ChunkSize`); both are parameters.

**Scheduler half.**  `round` is what the current call of `schedule` has scheduled
so far.  `ScheduleRunning` and `Preempt` are its loop over running requests;
`get_num_new_matched_tokens` and then `update_state_after_alloc` or `AllocFails`
its loop over waiting ones, with the blocks vLLM takes in between;
`build_connector_meta` closes the round and empties what the code empties.
A preemption ends with the request waiting and its blocks freed, its tracker
kept, as in the code.  `Abort` happens between rounds (the engine core handles
client messages between steps), `update_from_output` when the worker's output
returns.  vLLM's own choices (who gets how many tokens, which blocks, who is
preempted when blocks run short) are free choices under the conditions the
code tests.

**Worker half.**  `start_load_kv` takes the metadata; `prepare_for_load` is one
request's loads; `FirstLayerLoad` is the first `retrieve_layer`;
`prepare_for_store`, `SkipChunk`, `StoreChunk` and `EndStore` are the loop over
chunks, one iteration per action because lookups may come between iterations;
`SubmitTask` and `TakeTasks` are the task queue; `wait_for_layer_load`,
`Attention` and `save_kv_layer` (or `save_kv_layer_async`) are a layer.
A handler that raises leaves the worker `"dead"` with what it had changed.
`save_stream` is never assigned a stream in the code, so `save_kv_layer` takes
its early return: the model keeps both branches, with `SaveStream` as in the
code.  `save_kv_layer_async` and `launch_io` are public but no Python code in the
repository calls them; `AsyncSave` chooses between the two hooks.

**Lookup** is one action.  The code walks chunk by chunk in another thread; the
index only grows and the walk stops at the first missing chunk, so its answer is
one the index gives at some moment between its first and its last read, and the
model allows the lookup at each such moment.

**Over-approximations.**  The requests of a step are prepared in any order; the
simulator's answer (a stream, or none yet) is a free choice; opening a file may
fail with `OpenMayFail`, as a failed `cudaMalloc` makes it.  The test for the role
`kv_producer` in `get_num_new_matched_tokens` asks whether the lookup client has an
attribute that every client has, so it never ends the call, and the model has none.

**NVMe queue.**  Every access to shared memory that another thread can see is a
step of its own, except where a lock or the order of accesses makes the merge
invisible: the doorbell write and `tail.store` under the tail lock, and the slots'
turns, which only the thread holding the head lock raises.  In `get_cid` the counter
(`TakeCid`) and the lock of the identifier (`LockCid`) are two steps; a thread that
finds the identifier locked takes the next one (`RetryCid`), as fairly as it takes any
other step.  Positions (`sq_tail`,
`cq_head`, tickets) are not reduced, as in the code, and masked where the code masks
them.  `tickets[s]` is a slot's turn counter; a lap takes two increments, one by
the thread that filled the slot and one for the completion that reports it
fetched.  The device fetches in order, completes in any order, posts an entry
with its phase bit and fetch position, and stops when the completion queue is full.
It posts no error status: on one, `cq_poll` (424-427) ends the kernel with an
assertion, and nothing of the queue goes on.
The refinement maps a command's announcement to the doorbell write, and its return
to the step that puts its id back.  Two default arguments of `cq_dequeue` are 0, so
its last wait only waits for the first head movement; the model keeps that.

**Files.**  A log's value has the bitmap in memory, the bitmap and records in the
file, and the one record that may still be in the stdio buffer: every `fseek`
writes the buffer out and every record begins with one.  `Crash` can come between
any two steps; it takes memory and, by choice, the buffer.  A step that writes a record
and then persists the bitmap makes several writes; `GpuLogsLeft` and `NvmeLogsLeft` add
the states in between: the record written and the bitmap not, and, of a device's log,
the header written and the bitmap not (`stale`, when the two then count different
numbers of files, which the next start finds and counts as a change).  A record of the
GPU log has room for four devices, so `Devices` has at most four.  A process calls
`init` once: a further call returns at once unless the first failed or it asks for a
reset, and those two, in which the old manager's destructor persists its log after the
new one has read it, are not modelled.  Files are created and
removed on several devices in parallel (`std::async`), and the GPU log is written
only after all are through.  An id unknown to a device's log is opened through an
uninitialised record, so any file may be the result (`Openable`).  Slots of the
logs are sized so that none runs out.

**I/O pool.**  One thread issues transfers (the worker process's Python thread);
callbacks of the streams run concurrently with it and with each other.  The load of
the head, of its `next` and the compare-and-swap are three steps; a release is two.
A kernel or callback is taken from its stream in order.

**Cache controller.**  A worker process queues its registration when it starts and
its deregistration when it closes; the agent's loop sends batches of what is in the
queue.  Each life of a process has a connection of its own, FIFO, and not ordered with
any other.  `End` is both the end after `close` and a kill: the queue and an unsent tail
of the connection are lost (`LINGER` is 0).  A multipart message is handled without
suspending the controller's loop.  All workers of an instance are on one host and no
others are, so an ip stands for its instance.  The pool of chunks is not modelled,
because in the code nothing reaches it (section 5).

## 3. Runs

The connector's runs: all with two requests, two layers and prompts of four tokens; in
all but `misconfigured` a chunk and a block have two tokens.  The two
prompts are equal, so that a full-prompt hit happens, or, in `async`, share their first
chunk only.  Three GPU blocks (two in `async`) cannot hold both requests, so allocation
failure and preemption happen.  With vLLM's prefix caching disabled every hit is external; with it
enabled, in `pipelined`, external hits begin behind local ones.

| Run | Instance | Shows |
|---|---|---|
| `pipelined` | equal prompts, prefix caching, up to two steps in flight, one preemption, partial chunks saved, three files | types; `MatchLeavesToken`, `CachedRequestsTracked`, `LayerLoadedBeforeAttention`, `IndexPrefixClosed`, `SavedIsIndexed`, `TrackerFollowsScheduler`, `FirstLoadSent`, `RaisesOnlyMisconfigured` |
| `async` | prompts with the first chunk in common, no prefix caching, asynchronous hooks, two files, budgets 1 and 2, opens may fail, fairness | `QueueConsistent`, `TasksFollowLayers`, `StoreTasksUniform`, `LayersWrittenInOrder`, `StepTerminates` |
| `misconfigured` | equal prompts, no prefix caching, chunks of three tokens, blocks of two, partial chunks, one preemption, asynchronous hooks, budgets 1 and none, opens may fail | `RaisesOnlyMisconfigured`, where masks and launches do raise; `AllocMatchesSpec` |
| `pairing` | violation of `TransfersMatchBlocks` | files are paired with the request's first blocks, not with those of the chunks |
| `persisted` | violation of `LoadsReadPersisted` | a file that was indexed and never written is loaded |
| `freed_block` | violation of `NoTaskForFreedBlock` | a save task outlives its request's blocks |
| `resume_load` | violation of `ExternalTokensLoaded` | a resumed request's promised external tokens are not loaded |

The other components:

| Run | Instance | Shows |
|---|---|---|
| `nvm_queue` | two threads, five commands, queues of four entries: both wrap | `ImplementsService` (refinement), `CompletionStays`, `QueueOrder`, `EveryCommandReturns` |
| `nvm_full` | two threads, six commands, a submission queue of two entries, three identifiers | `QueueOrder`, `EveryCommandReturns` where one slot and locked identifiers decide who goes on |
| `gpu_files` | one device, three files, two shapes, three starts, threshold two, kills anywhere, failing creates and opens | `RecordBeforeBit`, `SavedIsDurable`, `OwnNvmeFiles`, `FreeListSound`, `InitSucceeds`, `ResetGivesShape`, `StartEnds` |
| `io_pool` | pool of three, two contexts per entry, transfers of up to five contexts on two streams | `OneOwner`, `KernelsReadOwnEntries`, `BatchesCover`, `EntriesComeBack` |
| `controller` | two workers in one instance or two, four starts, batches of up to two | `NoHandlerRaises`, `RegistryAgrees`, `RegistrationArrives` |

*Bounds.*  `MaxPreemptions` (how often one request is preempted) is the only bound
in a guard; one preemption is enough for every path of resuming, and a second
starts from the same states.  `MaxInFlight` is vLLM's batch queue size: 1 for
`step`, 2 for `step_with_batch_queue`.  Two layers have a first, a last and a
prefetch between; the proofs cover any number.  Two or three files make the
store end in the middle of a request or not at all; two let a store task hold two.
`IndexPrefixClosed` and `SavedIsIndexed` are checked in `pipelined`, with files that run
out but without opens that fail, which break both (see below).  `AllocMatchesSpec` is checked with leftover load specs; that the *local* hit of a
request changes while its leftover spec promises external tokens takes a third request
and is covered by the theorem alone.

In the other runs: `MaxCmds` and `NumCids` are equal in `nvm_queue`, so that no
command id is used twice and none is found locked; with three ids for five commands
TLC finds a thread that takes an old completion for its own, because an id is put back
before the head passes its entry.  The code has 65536 ids, and the counter must come
round between two steps of one thread.  Two threads never fill a submission queue of
four; in `nvm_full` it has two entries and is full whenever a command is out, and three
ids serve six commands, so that locked ids are met.  With one command out at a time
no old completion is found.
`gpu_files` crosses the threshold in the middle of
creating three files and has starts behind a kill inside a reset.  It has one device;
the invariants hold with two devices, two files and three starts as well (4.8 million
states, more than a run should take), and the proofs are for any number of devices.
`OwnNvmeFiles` and `InitSucceeds` speak of
behaviours in which no kill met pending changes: each log counts its changes
alone, and TLC shows that a kill after creating three files with threshold two
leaves a GPU file whose NVMe file the drive's log forgot.  A kill in the middle of
a reset leaves a bit with an empty record, a slot no later reset gives back.  In
`io_pool` the largest transfer needs the whole pool.  In `controller` a connection
holds two multipart messages (`MaxOnWire`) and a behaviour has four starts in all
(`MaxStarts`), so that two lives of both workers, or three of one, overlap.

*Symmetry* permutes blocks and files, which the specification treats alike; the
run with a liveness property, `async`, uses none.

*Deadlock* is not checked: when all requests have finished, or when the
preemption bound is spent and blocks are short, nothing is left to do.  It is checked
in `nvm_queue`, `nvm_full`, `gpu_files` and `io_pool`, where `Done` marks the end of a bounded
behaviour; in `controller` all processes may be down.

*Fairness* is weak fairness of `WorkerStep` alone, in `async`: a step the worker
process has begun runs on by itself, and nothing in it waits for the scheduler,
for a client or for a file.  Nothing is assumed of the scheduler.  In `nvm_queue`
and `nvm_full` each thread, from the moment it has issued a command, and the device are weakly fair: a GPU schedules resident threads
independently (the loops sleep with `__nanosleep`, which needs that guarantee
anyway), and a drive answers.  In `gpu_files` the process goes on by itself
(`Work`), in `io_pool` the issuing thread and each stream do, in `controller` the
agents' push loops and the controller's receive loop (`Work`, as one: they have finitely
many messages).  No fairness is put on starts, crashes, failures or closes.

*Mutants.*  Each property of a passing run has a mutated definition (marked
"Mutant" next to the original) under which TLC finds it violated.

### Disagreements between code and comments

The four violation runs are described under `findings` in `PROJECT.json`: each
states what a comment or a docstring says, and TLC shows a behaviour of the code that
does not keep it.  Beside `ExternalTokensLoaded`, which fails for resumed requests,
`FirstLoadSent` is what the code does keep.  Three more places are in what the passing
runs check, with the part the code keeps:

* `RequestTracker` documents "the block ids that has been allocated so far"
  (`vllm_v1_adapter.py:266`, with a FIXME about preemption).  A resumed request's
  new blocks are put behind the freed ones, and the tracker counts other tokens than
  vLLM; equality with the scheduler fails in a few steps.  `TrackerFollowsScheduler`
  claims it until the first preemption and after that only that vLLM's blocks are the
  last ones of the tracker.
* The adapter's comment at line 137 says that the chunk size is made vLLM's block size,
  but line 140 changes a local variable, and the token database keeps
  `config.chunk_size` (128 by default): a mask aligned to blocks is then no multiple of
  the chunk size and `process_tokens` raises `ValueError`.  `launch_io()` without its
  optional budget raises `TypeError` as soon as a store task is pending.  Both happen in
  `misconfigured`; `RaisesOnlyMisconfigured` says that nothing else raises.
* `kv_controller.py:154` expects no chunk to be in the system without its prefix (it
  speaks of evicted prefixes).  `prepare_for_store` stops at a failed open while the
  scheduler has counted all chunks as saved; if later opens succeed, the request's next
  chunk is stored behind the gap (`infinikv_engine.py:298`).  With `OpenMayFail` TLC
  finds `IndexPrefixClosed` violated; the passing run and the theorem are without.

## 4. Proofs

All theorems hold for every value of the constants that satisfies the named
assumptions of the modules, which TLC evaluates in every run: any number of
requests, tokens, blocks, files, layers, steps in flight, devices, starts, entries,
streams, workers, lives, GPU threads and queue entries.  No theorem uses the bounds of the runs.  Each invariant
was first checked by TLC on the instances of section 3 and on smaller or more
unusual ones (chunk and block size different, one token per chunk, other roles).

| Module | Proves | By the inductive invariant |
|---|---|---|
| `SchedulerProofs` | `CachedRequestsTracked`, `MatchLeavesToken`, `AllocMatchesSpec` | `SchedInv` |
| `WorkerProofs` | `QueueConsistent`, `LayerLoadedBeforeAttention`, `StoreTasksUniform`, `TasksFollowLayers`, `TypeOK` | `WorkerInv`, relative to `SchedInv` |
| `ConnectorProofs` | `LayersWrittenInOrder`, `TrackerFollowsScheduler`, `FirstLoadSent`, `IndexPrefixClosed`, `SavedIsIndexed`, `RaisesOnlyMisconfigured` | `OrderInv`, `FollowInv` and `TailInv`, `SpecsPromised` and `SaveInv`, `QuietInv`, relative to both |
| `IoPoolProofs` | `TypeOK`, `OneOwner`, `KernelsReadOwnEntries`, `BatchesCover` | `PoolInv` |
| `GpuFilesProofs` | `TypeOK`, `RecordBeforeBit`, `FreeListSound`, `ResetGivesShape`, `SavedIsDurable`, `OwnNvmeFiles`, `InitSucceeds` | `LogInv`, then `FreeInv`, `ShapeInv`, `GpuSaved` and `NvmeSaved`, `RemoveInv` and `OwnInv` |
| `CacheControllerProofs` | `TypeOK`, `NoHandlerRaises`, `RegistryAgrees` | `ControllerInv` |
| `NvmQueueProofs` | `TypeOK`, `QueueOrder`, `CompletionStays`, `ImplementsService` | `QueueInv`; `FirstLap` for the identifiers |
| `SequenceFacts` | lemmas on least numbers, ranks, insertion into sorted sequences, folds | |

**Scheduler half.**  `SchedInv` is the types of the scheduler's variables with
`TrackInv`: a running request is in the round or has a tracker, a preempted one has a
tracker, both are in `requests_in_step`, finished ids are finished requests, a tracker
never covers more than the request's tokens.  `CachedRequestsTracked` alone is not
inductive: it says nothing of a request until it is scheduled again, so `TrackInv`
carries the fact through preemption and waiting.

**Worker half.**  The parts of `WorkerInv`: `IndexInv` (types of the index), `QueueInv` (the pending set, tasks not yet started),
`LayerInv` (connector's and forward pass's counters agree, the next layer was loaded
one step ahead, the tasks of the step are at the layer) and `StoreInv`.
`LayerLoadedBeforeAttention` needs the counters' equality and "the layer after the
current one is loaded once attention runs"; `StoreTasksUniform` needs
`TasksFollowLayers`.

**Both halves.**

* `LayersWrittenInOrder`: every layer before one that a store task, or a save task of
  the step, is at was written or is handed on by an *earlier* store task (`OrderInv`).
  `launch_io` may stop anywhere in the list, and removes from its front.
* `TrackerFollowsScheduler` and `FirstLoadSent`, for any number of preemptions.
  `FollowInv` speaks of requests that were never preempted: what the round has
  scheduled for one continues its tracker, and if vLLM counts external tokens its spec
  is released.  `TailInv` speaks of all: vLLM's blocks of a request, with those the
  round adds, are the last ones of its tracker with those the round adds; a preemption
  empties the first list, and a resumption appends the same blocks to both.
* `IndexPrefixClosed` and `SavedIsIndexed`, for `~OpenMayFail`; TLC shows
  the first violated otherwise.  `SaveInv` orders who covers a chunk: what metadata
  skips is indexed, or is stored by the worker or by metadata *ahead* of it in the
  queue; what the worker's loop has passed is indexed, or no file is left.  A
  tracker may also begin behind tokens a lookup found, hence `SpecsPromised`: what a
  load spec promises stays in the index, a spec left over from a failed allocation
  included.
* `RaisesOnlyMisconfigured`, for every chunk size, block size and set of budgets.
  `QuietInv` has a part for each exception: masks are multiples of the block size, hence
  of a chunk size that divides it; and there is a block for every chunk that is no smaller
  than a block, after a resumption too, where the tracker's blocks are not vLLM's any
  more: `TrackerOK` says that the tracker has at least as much room left in its blocks
  as vLLM has in its own.  Chunks and blocks of one size, and budgets that are numbers,
  make all three conclusions false, and then nothing is raised.

**I/O pool.**  Some sequence of entries is the linked list; it, the acquired, leaked
and queued entries partition the pool.  `acquire` has the shape of a stack that
suffers from ABA; it is sound because one thread pops, so that an entry it has loaded
stays in the list with its `next` unchanged (`IssuerInv`), however many callbacks push.

**Files.**  `RecordBeforeBit` alone is not inductive: bits are set in memory first and
persisted with any later change.  `LogInv` says that every bit in memory has its record
in the file or the buffer, except the slots of the creation under way whose records
are still to be written (`Reserved`), and counts the slots used, so that none runs out.
`GpuLeft` and `NvmeLeft` show it of the logs a kill leaves between the writes of one
step.  A start counts at most one change (a stale header), which is why the threshold
has to be two at least.
`OwnInv` follows ids from the drives' logs through creation and deletion on all
devices in parallel; it, like `OwnNvmeFiles`, is about behaviours in which no kill met
pending changes.

**Cache controller.**  A batch of messages is one step and may mix every handler, so
the invariants are predicates of a controller state and of what each connection has
still to deliver (`Streams`), and are carried through the batch message by message.
The invariant counts: a worker is listed at least as often as it has lives that
registered and may still deregister, which is why `list.remove` never raises although
lives overlap.

**NVMe queue.**  A thread that holds the tail lock or the head lock is ahead of what is
stored, so `QueueInv` speaks of five positions that such a thread has reached: `et` of
the tail, `ec` of the completion head, `ac` of the entries already counted in
`sq_head`, `cr` of the completion doorbell, `rh` of the slots that have got the
device's half of their turn.  On the submission side it says of *every* ticket which
halves of its slot's turn are out (`Turns`), that a slot keeps its command until the
device fetched it (`Written`), and that the marks are exactly the filled slots from
`et` on (`TailMarks`).  On the completion side each of the last `CQS` entries has the
phase of its lap and a ticket of its own (`Posts`), the fetch positions they report
never fall (`Heads`), and an unconsumed completion is at or above `ec`
(`Unconsumed`).  An entry with a thread's identifier is that thread's, or lies where
the thread will not look (`Stale`).

The last part is not preserved without a condition on identifiers.  `put_cid` gives one
back before the stored head has passed its entry, so once the counter has come round an
identifier can be handed out while an old completion that carries it is still ahead
of `cq_head`; TLC shows the wrong match with fewer identifiers than commands (section
3).  `FreshIds` excludes exactly that state, and the theorems are stated under
`[]FreshIds`.  `FreshUntilWrap` proves `[]FreshIds` from `Spec` when `MaxCmds <=
NumCids`, that is for the first 65536 commands of a queue, and `FirstCommands` and
`FirstCommandsServed` are the results without the hypothesis.

The refinement: with `QueueInv` the mapped ring is the interval of tickets from
`dev_fetched` to `sq_tail` (`RingIs`), so `RingSq` appends the tickets it passed
(`Announce`, or a stutter), `DeviceFetch` takes the first, `DeviceComplete` removes
one ticket because no two executing commands share one, `Finish` is the `Return` of a
completed ticket nobody has returned, and every other step leaves the service's
variables alone.

Assumptions the proofs needed and the code or the model justifies: slots are numbers
with room for every start's files, `MaxStarts` is a number, a record is none of the
marks for no record (`RecordAssumption`), the threshold, 1000 in the code, is two or more
(`ThresholdAssumption`); at least one start in `CacheController`; no store loop is the mark for none (`WorkerAssumption`).

Induction.  The library's induction theorems cannot be instantiated here; where a proof
needs induction over a length it takes the least counterexample (`NatMin` in
`SequenceFacts`), and that folds of the community modules have the values their
definitions describe is proved the same way (`FoldExists`).

Only model-checked: liveness (`StepTerminates`, `StartEnds`, `EntriesComeBack`,
`RegistrationArrives`, `EveryCommandReturns`): liveness under fairness and `ENABLED` are
beyond the prover.  Every other property of a passing run is a theorem.

## 5. Not modelled

KV data and, in the connector, CUDA streams (layer transfers are atomic and complete
when issued or launched); `register_kv_caches` and the discovery of hybrid layers;
the mamba variants, which call the same preparation; `clear` of the engine, which
calls the backend with an argument it does not take; speculative decoding, LoRA,
encoder inputs and priorities of vLLM; failing writes to the file managers' logs;
`createGPUFile`, which nobody calls; a second `init` in a live process (section 2); error
statuses of the device; a restart of the cache controller, after which
workers do not register again; its operations that raise `NotImplementedError`;
the page cache of libnvm, which GeminiFS's transfers bypass; the kernel module and
device setup (third-party or pure I/O); configuration, logging, statistics.

The cache controller's pool of chunks, because no code feeds or reads it.  A chunk enters
the index by `allocate` (`geminifs_backend.py` 237-246), which sends no admit message;
`insert_key`, the only sender of one, has no caller and begins with a method that does
not exist (539); `remove` reads a field that `GPUFileMetadata` does not have (521) and
raises before it removes anything or sends an evict message; and the controller's
`lookup` builds its token database without a configuration, with a chunk size of 256
(`kv_controller.py:64`), so that `save_unfull_chunk` is not set and `_chunk_tokens` raises
(`token_database.py:118`).  In what could be read of it, `admit` tests the wrong key and
so forgets a chunk's earlier holders (`kv_controller.py:80`), and the coroutine by which
`deregister` would drop a worker's chunks is not awaited (`registration_controller.py:136`).

Most of the repository is a fork of vLLM: models, quantisation, kernels, servers
and other connectors that InfiniKV's own code does not touch, and that are no part
of this development.  The modules cover the parts of vLLM's scheduler loop that call
the connector, and InfiniKV's own state machines; the share of all lines of the
repository that they map is therefore small.

## 6. Plan

Done: the connector, because it decides which KV a request computes with; the
NVMe queue and its refinement, proved too; the file managers with crashes; the I/O pool; the
cache controller's registry.  Next:

1. Smaller algorithms against reference definitions: `SegmentTokenDatabase`,
   `LRUEvictor`, the stream controller, block alignment of the vLLM connector
   (`infinikv_connector.py` 61-107).
2. A proof about `NvmQueue` past the wrap of the identifiers: a bound on how far the
   threads can run ahead of the stored head that implies `FreshIds`.
