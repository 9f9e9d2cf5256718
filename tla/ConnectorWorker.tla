-------------------------- MODULE ConnectorWorker --------------------------
(***************************************************************************)
(* The worker half of InfiniKVConnectorV1Impl                              *)
(* (integration/vllm/vllm_v1_adapter.py) with the engine it calls          *)
(* (v1/infinikv_engine.py) and the key index of the GeminiFS backend       *)
(* (v1/storage_backend/geminifs_backend.py).                               *)
(*                                                                         *)
(* One step of the worker: start_load_kv pairs files with blocks for       *)
(* loading, then for saving, one chunk per action because the lookup       *)
(* server's thread reads the index between two chunks; the save tasks go   *)
(* through the task queue; then every attention layer calls                *)
(* wait_for_layer_load before it computes and save_kv_layer after.         *)
(*                                                                         *)
(* KV data is not represented: a file records which layers were written    *)
(* to it, a transfer records the key, the file and the block it pairs.     *)
(***************************************************************************)
EXTENDS ConnectorScheduler

CONSTANTS
    Files,       \* the GPU files GeminiFS can open
    NumLayers,   \* attention layers the connector manages
    AsyncSave,   \* the layer hook is save_kv_layer_async and launch_io is called
    Budgets,     \* the budgets launch_io is called with
    OpenMayFail, \* opening a file may fail although one is available (cudaMalloc)
    NoFile, NoReq, NoBudget

ASSUME WorkerAssumption ==
    /\ NumLayers \in Nat \ {0}
    /\ AsyncSave \in BOOLEAN
    /\ OpenMayFail \in BOOLEAN
    /\ Budgets \subseteq Nat \union {NoBudget}
    /\ NoBudget \notin Nat
    /\ NoFile \notin Files
    /\ NoReq \notin [meta : ReqMeta, chunk : Nat, index : Nat]

VARIABLES
    dict,           \* GeminiFSBackend.dict: key -> file
    free,           \* files GeminiFS has not opened yet
    wpc,            \* where the worker is in its step
    work,           \* the forward pass of the step
    loadq,          \* requests of the step still to be prepared for loading
    saveq,          \* requests of the step still to be prepared for saving
    cur,            \* prepare_for_store's loop: request, next chunk, index
    load_pairs,     \* all_req_file_ids zipped with all_req_block_ids
    new_tasks,      \* _prepare_for_save's io_tasks, still to be submitted
    tasks,          \* TaskQueueforSave._tasks
    pending,        \* TaskQueueforSave._pending_block_ids
    io_tasks,       \* connector_metadata.io_tasks (<<>> also stands for None)
    current_layer,  \* self.current_layer
    layer,          \* the attention layer the forward pass is at
    loaded,         \* layers whose load was issued in this step
    store_tasks,    \* self.pending_store_layer_tasks
    written,        \* written[f]: layers written to file f
    raised          \* the exception that ended the worker, or "none"

indexVars == <<dict, free>>
prepVars == <<work, loadq, saveq, cur, load_pairs, new_tasks>>
queueVars == <<tasks, pending, io_tasks>>
layerVars == <<current_layer, layer, loaded, store_tasks, written>>
workerVars == <<indexVars, wpc, prepVars, queueVars, layerVars, raised>>

Layers == 0 .. NumLayers - 1
Pair == [key : Keys, file : Files, block : Blocks]
IOSpec == [key : Keys, file : Files, block : Blocks, layer : Nat]
StoreLayerTask == [files : SUBSET Files, layers : SUBSET Layers]

WorkerInit ==
    /\ dict = [k \in Keys |-> NoFile]
    /\ free = Files
    /\ wpc = "idle"
    /\ work = {} /\ loadq = {} /\ saveq = {}
    /\ cur = NoReq
    /\ load_pairs = {}
    /\ new_tasks = <<>>
    /\ tasks = <<>> /\ pending = {} /\ io_tasks = <<>>
    /\ current_layer = 0 /\ layer = 0
    /\ loaded = {}
    /\ store_tasks = <<>>
    /\ written = [f \in Files |-> {}]
    /\ raised = "none"

-----------------------------------------------------------------------------
(* The index. *)

\* GeminiFSBackend.allocate: open a file and index it under k, before any data
\* is written to it.
allocate(k, f) ==
    /\ f \in free
    /\ dict' = [dict EXCEPT ![k] = f]
    /\ free' = free \ {f}

contains(k) == dict[k] # NoFile

\* InfiniKVEngine.lookup over the first n tokens of r: hit is the end of the
\* last chunk before the first one that is not indexed.
IsLookup(r, n, hit) ==
    \E i \in 0 .. NumChunks(n) :
        /\ hit = ChunkEnd(i, n)
        /\ \A j \in 1 .. i : contains(Key(r, ChunkEnd(j, n)))
        /\ i < NumChunks(n) => ~contains(Key(r, ChunkEnd(i + 1, n)))

Raise(exception) ==
    /\ raised' = exception
    /\ wpc' = "dead"
    /\ UNCHANGED <<indexVars, prepVars, queueVars, layerVars>>

-----------------------------------------------------------------------------
(* start_load_kv: preparing loads. *)

\* Mutant: current_layer is not reset.
ResetLayerOnly == current_layer' = current_layer /\ layer' = 0 /\ loaded' = {}

\* The layer counters at the beginning of a step.
ResetLayers == current_layer' = 0 /\ layer' = 0 /\ loaded' = {}

\* The metadata m is bound to the worker and the step begins.
start_load_kv(m) ==
    /\ wpc = "idle"
    /\ wpc' = "load"
    /\ work' = m.work
    /\ loadq' = {q \in m.requests : q.load # NoLoad}
    /\ saveq' = {q \in m.requests : q.can_save /\ q.skip # q.len}
    /\ load_pairs' = {}
    /\ ResetLayers
    /\ io_tasks' = <<>>
    /\ UNCHANGED <<indexVars, cur, new_tasks, tasks, pending, store_tasks, written, raised>>

\* Mutant: token counts are not aligned to the chunk size.
Unaligned(n) == n

\* Token counts are aligned to the chunk size before they mask tokens.
Floor(n) == (n \div BlockSize) * BlockSize

\* prepare_for_load pairs the chunks that are not masked with the block ids,
\* both from the front, until a chunk is not in the index.
LoadTokens(q) == Least(q.len, q.load.ext)
LoadMask(q) == Least(Floor(q.load.vllm), LoadTokens(q))

IsLoadRun(q, h) ==
    LET n == LoadTokens(q)
        first == FirstChunk(LoadMask(q))
    IN /\ \A i \in 0 .. h - 1 : contains(Key(q.req, ChunkEnd(first + i, n)))
       /\ first + h <= NumChunks(n) =>
             ~contains(Key(q.req, ChunkEnd(first + h, n)))

PairsToLoad(q, h) ==
    LET k(i) == Key(q.req, ChunkEnd(FirstChunk(LoadMask(q)) + i - 1, LoadTokens(q)))
    IN  {[key |-> k(i), file |-> dict[k(i)], block |-> q.block_ids[i]] : i \in 1 .. h}

prepare_for_load(q) ==
    /\ wpc = "load"
    /\ q \in loadq
    /\ IF MaskRaises(LoadMask(q)) THEN Raise("ValueError")
       ELSE \E h \in 0 .. NumChunks(LoadTokens(q)) :
               /\ FirstChunk(LoadMask(q)) + h - 1 <= NumChunks(LoadTokens(q))
               /\ IsLoadRun(q, h)
               /\ IF h > Len(q.block_ids) THEN Raise("IndexError")
                  ELSE /\ load_pairs' = load_pairs \union PairsToLoad(q, h)
                       /\ loadq' = loadq \ {q}
                       /\ UNCHANGED <<indexVars, wpc, work, saveq, cur, new_tasks,
                                      queueVars, layerVars, raised>>

\* Mutant: the last layer is not prefetched.
PrefetchAllButLast(l) ==
    IF load_pairs = {} \/ l + 2 >= NumLayers THEN loaded ELSE loaded \union {l + 1}

\* The layers retrieve_layer(l) reads: it waits for layer l and prefetches the
\* next one.
Prefetch(l) ==
    IF load_pairs = {} \/ l >= NumLayers \/ l + 1 >= NumLayers
    THEN loaded ELSE loaded \union {l + 1}

\* The end of _prepare_for_load: retrieve_layer(-1) reads layer 0.
FirstLayerLoad ==
    /\ wpc = "load"
    /\ loadq = {}
    /\ loaded' = Prefetch(-1)
    /\ wpc' = "save"
    /\ UNCHANGED <<indexVars, prepVars, queueVars, current_layer, layer,
                   store_tasks, written, raised>>

-----------------------------------------------------------------------------
(* start_load_kv: preparing saves. *)

SaveMask(q) == Least(Floor(q.skip), q.len)

\* prepare_for_store on request q, up to its loop.
prepare_for_store(q) ==
    /\ wpc = "save"
    /\ cur = NoReq
    /\ q \in saveq
    /\ IF MaskRaises(SaveMask(q)) THEN Raise("ValueError")
       ELSE
          /\ cur' = [meta |-> q, chunk |-> FirstChunk(SaveMask(q)), index |-> 1]
          /\ saveq' = saveq \ {q}
          /\ UNCHANGED <<indexVars, wpc, work, loadq, load_pairs, new_tasks,
                         queueVars, layerVars, raised>>

CurKey == Key(cur.meta.req, ChunkEnd(cur.chunk, cur.meta.len))

CurChunk == cur # NoReq /\ cur.chunk <= NumChunks(cur.meta.len)

\* Mutant: break instead of continue at an indexed chunk.
BreakAtIndexed ==
    /\ CurChunk
    /\ contains(CurKey)
    /\ cur' = NoReq
    /\ UNCHANGED <<indexVars, wpc, work, loadq, saveq, load_pairs, new_tasks,
                   queueVars, layerVars, raised>>

\* One iteration of the loop: an indexed chunk is passed over.
SkipChunk ==
    /\ CurChunk
    /\ contains(CurKey)
    /\ cur' = [cur EXCEPT !.chunk = @ + 1]
    /\ UNCHANGED <<indexVars, wpc, work, loadq, saveq, load_pairs, new_tasks,
                   queueVars, layerVars, raised>>

\* One iteration of the loop: GeminiFSBackend.allocate opens a file and indexes
\* it under the chunk's key; the next block id is paired with it.
StoreChunk ==
    /\ CurChunk
    /\ ~contains(CurKey)
    /\ \E f \in Files :
          /\ allocate(CurKey, f)
          /\ IF cur.index > Len(cur.meta.block_ids)
             THEN /\ raised' = "IndexError" /\ wpc' = "dead"
                  /\ UNCHANGED <<cur, new_tasks>>
             ELSE /\ new_tasks' = Append(new_tasks,
                        [key |-> CurKey, file |-> f,
                         block |-> cur.meta.block_ids[cur.index], layer |-> 0])
                  /\ cur' = [meta |-> cur.meta, chunk |-> cur.chunk + 1, index |-> cur.index + 1]
                  /\ UNCHANGED <<raised, wpc>>
    /\ UNCHANGED <<work, loadq, saveq, load_pairs, queueVars, layerVars>>

\* Mutant: the loop waits for a file instead of giving up.
EndStoreAfterLast ==
    /\ cur # NoReq
    /\ ~CurChunk
    /\ cur' = NoReq
    /\ UNCHANGED <<indexVars, wpc, work, loadq, saveq, load_pairs, new_tasks,
                   queueVars, layerVars, raised>>

\* The loop ends after the last chunk, or when no file can be opened: none is
\* left, or openGPUFile puts the file back after a failed cudaMalloc.
EndStore ==
    /\ cur # NoReq
    /\ ~CurChunk \/ (~contains(CurKey) /\ (free = {} \/ OpenMayFail))
    /\ cur' = NoReq
    /\ UNCHANGED <<indexVars, wpc, work, loadq, saveq, load_pairs, new_tasks,
                   queueVars, layerVars, raised>>

-----------------------------------------------------------------------------
(* The task queue. *)

\* submit_tasks, one task: a task for a block that already has one is dropped.
SubmitTask ==
    /\ wpc = "save" /\ saveq = {} /\ cur = NoReq
    /\ new_tasks # <<>>
    /\ new_tasks' = Tail(new_tasks)
    /\ LET t == Head(new_tasks)
       IN IF t.block \in pending THEN UNCHANGED <<tasks, pending>>
          ELSE /\ tasks' = Append(tasks, t)
               /\ pending' = pending \union {t.block}
    /\ UNCHANGED <<indexVars, wpc, work, loadq, saveq, cur, load_pairs, io_tasks,
                   layerVars, raised>>

\* Mutant: the block ids of the tasks taken stay pending.
TakeWithoutRelease ==
    /\ io_tasks' = tasks
    /\ tasks' = <<>>
    /\ pending' = pending

\* get_next_ntasks for the whole queue.
get_next_ntasks ==
    /\ io_tasks' = tasks
    /\ tasks' = <<>>
    /\ pending' = pending \ {tasks[i].block : i \in DOMAIN tasks}

\* The end of _prepare_for_save: when the simulator finds a stream for the
\* queued I/O the whole queue is taken (get_next_ntasks), otherwise it waits.
\* A step without scheduled tokens runs no forward pass.
TakeTasks ==
    /\ wpc = "save" /\ saveq = {} /\ cur = NoReq
    /\ new_tasks = <<>>
    /\ \/ tasks # <<>> /\ get_next_ntasks
       \/ UNCHANGED queueVars
    /\ wpc' = IF work = {} THEN "done" ELSE "wait"
    /\ UNCHANGED <<indexVars, prepVars, layerVars, raised>>

-----------------------------------------------------------------------------
(* The layers of the forward pass. *)

\* connector_metadata.save_stream: the class default, never assigned a stream.
SaveStream == "None"

wait_for_layer_load ==
    /\ wpc = "wait"
    /\ loaded' = Prefetch(current_layer)
    /\ wpc' = "attn"
    /\ UNCHANGED <<indexVars, prepVars, queueVars, current_layer, layer,
                   store_tasks, written, raised>>

\* The attention of the layer computes (external).
Attention ==
    /\ wpc = "attn"
    /\ wpc' = "hook"
    /\ UNCHANGED <<indexVars, prepVars, queueVars, layerVars, raised>>

\* The tasks that still have a layer to write.
DueTasks == {i \in DOMAIN io_tasks : io_tasks[i].layer < NumLayers}

DueFiles == {io_tasks[i].file : i \in DueTasks}

DueLayers == {io_tasks[i].layer : i \in DueTasks}

\* Mutant: io_task.layer is not advanced.
SameTasks == io_tasks

\* Mutant: only the first task is advanced.
FirstAdvanced ==
    [i \in DOMAIN io_tasks |->
        IF i = 1 THEN [io_tasks[i] EXCEPT !.layer = @ + 1] ELSE io_tasks[i]]

\* The tasks once the layer is handed on.
AdvancedTasks ==
    [i \in DOMAIN io_tasks |->
        IF i \in DueTasks THEN [io_tasks[i] EXCEPT !.layer = @ + 1] ELSE io_tasks[i]]

\* GeminiFS writes the layers to the files.
Write(files, layers) ==
    [f \in Files |-> IF f \in files THEN written[f] \union layers ELSE written[f]]

\* Mutant: appendleft instead of append.
PushStoreTask(t) == <<t>> \o store_tasks

QueueStoreTask(t) == Append(store_tasks, t)

LayerDone ==
    /\ wpc = "hook"
    /\ current_layer' = current_layer + 1
    /\ layer' = layer + 1
    /\ wpc' = IF layer + 1 = NumLayers THEN "done" ELSE "wait"
    /\ UNCHANGED <<indexVars, prepVars, tasks, pending, loaded, raised>>

save_kv_layer ==
    /\ ~AsyncSave
    /\ LayerDone
    /\ IF io_tasks = <<>> \/ SaveStream = "None"
       THEN UNCHANGED <<io_tasks, written>>
       ELSE /\ written' = Write(DueFiles, DueLayers)
            /\ io_tasks' = AdvancedTasks
    /\ UNCHANGED store_tasks

save_kv_layer_async ==
    /\ AsyncSave
    /\ LayerDone
    /\ IF io_tasks = <<>> THEN UNCHANGED <<io_tasks, store_tasks>>
       ELSE /\ store_tasks' = QueueStoreTask([files |-> DueFiles, layers |-> DueLayers])
            /\ io_tasks' = AdvancedTasks
    /\ UNCHANGED written

\* _launch_pending_store_layer_tasks: each round of the loop spends one of the
\* budget; without a budget the first decrement raises.
launch_io(budget) ==
    /\ AsyncSave
    /\ wpc \in {"idle", "wait", "done"}
    /\ store_tasks # <<>>
    /\ IF budget = NoBudget THEN Raise("TypeError")
       ELSE LET n == Least(budget, Len(store_tasks))
            IN /\ store_tasks' = SubSeq(store_tasks, n + 1, Len(store_tasks))
               /\ written' = [f \in Files |-> written[f] \union
                      UNION {store_tasks[i].layers :
                               i \in {j \in 1 .. n : f \in store_tasks[j].files}}]
               /\ UNCHANGED <<indexVars, wpc, prepVars, queueVars, current_layer,
                              layer, loaded, raised>>

\* The step's output returns to the scheduler.
StepDone ==
    /\ wpc = "done"
    /\ wpc' = "idle"
    /\ work' = {}
    /\ UNCHANGED <<indexVars, loadq, saveq, cur, load_pairs, new_tasks, queueVars,
                   layerVars, raised>>
=============================================================================
