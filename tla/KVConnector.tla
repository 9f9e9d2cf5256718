---------------------------- MODULE KVConnector ----------------------------
(***************************************************************************)
(* The KV-cache connector: scheduler half and worker half, joined by the   *)
(* metadata channel and by the lookup client, whose answer is read from    *)
(* the worker's index.                                                     *)
(*                                                                         *)
(* MaxInFlight = 1 is vLLM's synchronous engine loop (schedule, execute,   *)
(* update); with 2 the next round is scheduled, and the index looked up,   *)
(* while the worker still executes the previous step.                      *)
(***************************************************************************)
EXTENDS ConnectorWorker

CONSTANT MaxInFlight

ASSUME InFlightAssumption == MaxInFlight \in Nat \ {0}

VARIABLE inflight   \* metadata sent to the worker and not yet taken

vars == <<schedVars, workerVars, inflight>>

Meta == [requests : SUBSET ReqMeta, work : SUBSET [req : Requests, upto : Nat]]

Init == SchedInit /\ WorkerInit /\ inflight = <<>>

CanSchedule ==
    Len(inflight) + (IF wpc = "idle" THEN 0 ELSE 1) < MaxInFlight

\* The vLLM scheduler and the connector's scheduler half.
SchedulerStep(r) ==
    /\ CanSchedule
    /\ \/ \E n \in 1 .. Len(Tokens[r]) : ScheduleRunning(r, n)
       \/ Preempt(r)
       \/ \E hit \in 0 .. PromptLen[r] :
             /\ IsLookup(r, LookupLen(r), hit)
             /\ get_num_new_matched_tokens(r, hit)
       \/ \E n \in 1 .. Len(Tokens[r]) :
             /\ match # NoMatch
             /\ match.req = r
             /\ update_state_after_alloc(n)
    /\ UNCHANGED <<workerVars, inflight>>

\* Aborts are processed between rounds, also while the worker executes.
AbortRequest(r) == Abort(r) /\ UNCHANGED <<workerVars, inflight>>

EndWaiting == CanSchedule /\ AllocFails /\ UNCHANGED <<workerVars, inflight>>

\* The round ends and its metadata is sent to the worker.
SendMeta ==
    /\ CanSchedule
    /\ build_connector_meta
    /\ inflight' = Append(inflight, RoundMeta)
    /\ UNCHANGED workerVars

BeginStep ==
    /\ inflight # <<>>
    /\ start_load_kv(Head(inflight))
    /\ inflight' = Tail(inflight)
    /\ UNCHANGED schedVars

WorkerStep ==
    /\ \/ \E q \in loadq : prepare_for_load(q)
       \/ FirstLayerLoad
       \/ \E q \in saveq : prepare_for_store(q)
       \/ SkipChunk
       \/ StoreChunk
       \/ EndStore
       \/ SubmitTask
       \/ TakeTasks
       \/ wait_for_layer_load
       \/ Attention
       \/ save_kv_layer
       \/ save_kv_layer_async
       \/ \E b \in Budgets : launch_io(b)
    /\ UNCHANGED <<schedVars, inflight>>

\* The worker's output updates the scheduler.
EndStep ==
    /\ StepDone
    /\ \E fin \in SUBSET Requests : update_from_output(work, fin)
    /\ UNCHANGED inflight

Next ==
    \/ \E r \in Requests : SchedulerStep(r) \/ AbortRequest(r)
    \/ EndWaiting
    \/ SendMeta
    \/ BeginStep
    \/ WorkerStep
    \/ EndStep

Spec == Init /\ [][Next]_vars

\* A step once begun by the worker process runs on its own: nothing in it waits
\* for the scheduler, a client or a file to become available.
LiveSpec == Spec /\ WF_vars(WorkerStep)

-----------------------------------------------------------------------------
(* Properties. *)

\* Every variable keeps the type the code gives it: specs, trackers and
\* metadata of the adapter, index, queue and layer counters of the worker.
TypeOK ==
    /\ status \in [Requests -> {"waiting", "running", "preempted", "finished"}]
    /\ \A r \in Requests : num_tokens[r] \in PromptLen[r] .. Len(Tokens[r])
    /\ num_computed \in [Requests -> Nat]
    /\ blocks \in [Requests -> Seq(Blocks)]
    /\ block_hash \in [Blocks -> Keys \union {NoKey}]
    /\ round \subseteq Scheduled
    /\ match \in Match \union {NoMatch}
    /\ load_specs \in [Requests -> LoadSpec \union {NoSpec}]
    /\ trackers \in [Requests -> Tracker \union {NoTracker}]
    /\ inflight \in Seq(Meta)
    /\ dict \in [Keys -> Files \union {NoFile}]
    /\ free \subseteq Files
    /\ loadq \subseteq ReqMeta /\ saveq \subseteq ReqMeta
    /\ load_pairs \subseteq Pair
    /\ new_tasks \in Seq(IOSpec) /\ tasks \in Seq(IOSpec) /\ io_tasks \in Seq(IOSpec)
    /\ pending \subseteq Blocks
    /\ current_layer \in 0 .. NumLayers /\ layer \in 0 .. NumLayers
    /\ written \in [Files -> SUBSET Layers]

\* Where the full chunks of an n-token prefix end.
FullEnds(n) == {i * ChunkSize : i \in 1 .. n \div ChunkSize}

\* The index holds every chunk before a chunk it holds, whatever the order in
\* which requests store and however a lookup interleaves: otherwise lookup,
\* which stops at the first missing chunk, would never reach the later ones.
IndexPrefixClosed ==
    \A r \in Requests : \A n \in 1 .. Len(Tokens[r]) :
        contains(Key(r, n)) => \A e \in FullEnds(n) : contains(Key(r, e))

\* Request metadata q will have the chunk of r that ends at e stored.
WillStore(q, r, e) ==
    q.req = r /\ q.can_save /\ SaveMask(q) < e /\ e <= q.len

WorkerWillStore(r, e) ==
    \/ \E q \in saveq : WillStore(q, r, e)
    \/ cur # NoReq /\ WillStore(cur.meta, r, e) /\ (cur.chunk - 1) * ChunkSize < e

\* The scheduler advances num_saved_tokens before the worker has stored
\* anything.  Still no chunk it counts as saved is forgotten: it is indexed, or
\* metadata on its way to the worker stores it, or the files have run out.
SavedIsIndexed ==
    \A r \in Requests : trackers[r] # NoTracker =>
        \A e \in FullEnds(trackers[r].saved) :
            \/ contains(Key(r, e))
            \/ free = {}
            \/ WorkerWillStore(r, e)
            \/ \E p \in DOMAIN inflight : \E q \in inflight[p].requests : WillStore(q, r, e)

\* _pending_block_ids is exactly the blocks of the queued save tasks, and no
\* block is queued twice (submit_tasks, get_next_ntasks).
QueueConsistent ==
    /\ pending = {tasks[i].block : i \in DOMAIN tasks}
    /\ \A i, j \in DOMAIN tasks : tasks[i].block = tasks[j].block => i = j

\* However much the caches hold, a matched request keeps a token to compute:
\* the scheduler's "assert num_new_tokens > 0" never fails.
MatchLeavesToken ==
    match # NoMatch => match.local + match.ext < num_tokens[match.req]

\* The assertion of update_state_after_alloc: the tokens vLLM reports are the
\* ones the load spec promises, also when an earlier attempt to schedule the
\* request left its load spec behind.
AllocMatchesSpec ==
    match # NoMatch =>
        LET spec == load_specs[match.req]
        IN  spec # NoSpec /\ match.ext # 0 /\ spec.ext # num_tokens[match.req]
              => match.ext = spec.ext - spec.vllm

\* build_connector_meta finds a tracker and the request object of every cached
\* request it is given, resumed ones included: no KeyError, no ValueError.
CachedRequestsTracked ==
    \A x \in round : x.kind # "new" =>
        trackers[x.req] # NoTracker /\ x.req \in requests_in_step

\* When the attention of a layer runs, the load of that layer was issued:
\* current_layer follows the forward pass through wait_for_layer_load and
\* save_kv_layer and starts over with every step.
LayerLoadedBeforeAttention ==
    wpc = "attn" /\ load_pairs # {} => layer \in loaded

\* What the worker raises says what is wrong with its configuration: without a
\* chunk size that leaves a rest in vLLM's block size every mask is aligned,
\* with chunks no smaller than blocks there is a block for every chunk (also
\* after a resumption, when the tracker's blocks are not vLLM's any more), and
\* only a launch without a budget fails.
RaisesOnlyMisconfigured ==
    /\ raised = "ValueError" => BlockSize % ChunkSize # 0
    /\ raised = "IndexError" => ChunkSize < BlockSize
    /\ raised = "TypeError" => NoBudget \in Budgets

\* s is the end of t.
IsTail(s, t) ==
    /\ Len(s) <= Len(t)
    /\ \A i \in 1 .. Len(s) : s[i] = t[Len(t) - Len(s) + i]

\* The blocks vLLM has given a running request are the last ones of its tracker,
\* through preemption and resumption with other blocks; until the first
\* preemption tracker and scheduler agree on tokens and blocks.
TrackerFollowsScheduler ==
    \A r \in Requests \ InRound :
        status[r] = "running" /\ trackers[r] # NoTracker =>
            /\ IsTail(blocks[r], trackers[r].blocks)
            /\ num_preemptions[r] = 0 =>
                  trackers[r].len = num_computed[r] /\ trackers[r].blocks = blocks[r]

\* The tokens get_num_new_matched_tokens reported as loadable, which vLLM
\* counts as computed, are in a load spec the worker will receive, when the
\* request is scheduled for the first time.
FirstLoadSent ==
    \A x \in round : x.ext > 0 /\ num_preemptions[x.req] = 0 =>
        SpecOf(x) # NoSpec /\ SpecOf(x).can_load

\* Save tasks taken for a step advance with its layers: what
\* save_kv_layer_async hands on is the layer attention has just written.
TasksFollowLayers ==
    wpc \in {"wait", "attn", "hook"} =>
        \A i \in DOMAIN io_tasks : io_tasks[i].layer = layer

\* The assertion of layerwise_batch_put_for_async: one store task has files of
\* one layer only, and at least one file (layer_ids[0] exists).
StoreTasksUniform ==
    \A i \in DOMAIN store_tasks :
        store_tasks[i].files # {} /\ Cardinality(store_tasks[i].layers) = 1

\* The layers of a file are written in order, however launch_io is budgeted
\* and however the pending store tasks of several steps pile up.
LayersWrittenInOrder ==
    \A f \in Files : \A l \in written[f] : \A m \in 0 .. l : m \in written[f]

\* Every step the worker begins ends, also when GeminiFS has no file left in
\* the middle of prepare_for_store and whatever the index already holds.
StepTerminates == wpc = "load" ~> wpc = "done"

-----------------------------------------------------------------------------
(* What comments and docstrings of the code say, and the code does not keep. *)

\* "block_ids: vLLM block IDs corresponding to each gpu_file": a file is stored
\* from, and loaded into, the block that holds the file's chunk, whatever
\* chunks prepare_for_store and prepare_for_load skip.
TransfersMatchBlocks ==
    /\ \A i \in DOMAIN new_tasks : block_hash[new_tasks[i].block] = new_tasks[i].key
    /\ \A p \in load_pairs : block_hash[p.block] = p.key

\* A chunk that is indexed but was not persisted is recomputed, so whatever is
\* loaded was persisted.
LoadsReadPersisted ==
    \A p \in load_pairs : written[p.file] = Layers

\* When a request's memory is released its save tasks are withdrawn, so every
\* queued task is for a block some request holds.
NoTaskForFreedBlock ==
    \A i \in DOMAIN tasks :
        \E r \in Requests : tasks[i].block \in BlocksOf(blocks[r])

\* "The number of tokens that can be loaded from the external KV cache": what
\* vLLM counts as computed is in a load spec the worker will receive, for every
\* request, resumed ones included.
ExternalTokensLoaded ==
    \A x \in round : x.ext > 0 => SpecOf(x) # NoSpec /\ SpecOf(x).can_load
=============================================================================
