--------------------------- MODULE ConnectorProofs ---------------------------
(***************************************************************************)
(* Proofs about scheduler half and worker half together: what the layers   *)
(* written say of a file, what the index holds of a prompt, what a tracker *)
(* says of its request and why no handler of the worker raises.            *)
(*                                                                         *)
(* Each of the invariants below is inductive relative to SchedInv and      *)
(* WorkerInv.                                                              *)
(***************************************************************************)
EXTENDS WorkerProofs, SequenceTheorems

-----------------------------------------------------------------------------
(* The layers of a file *)

\* Layer m of file f is handed on by one of the first n store tasks.
Handed(f, m, n) ==
    \E j \in 1 .. n : f \in store_tasks[j].files /\ m \in store_tasks[j].layers

\* Every layer before one that a store task or a save task is at was written
\* or is handed on by an earlier store task.
OrderInv ==
    /\ LayersWrittenInOrder
    /\ \A i \in DOMAIN store_tasks :
          \A f \in store_tasks[i].files, l \in store_tasks[i].layers :
             \A m \in 0 .. l - 1 : m \in written[f] \/ Handed(f, m, i - 1)
    /\ \A i \in DOMAIN io_tasks : \A m \in 0 .. io_tasks[i].layer - 1 :
          m \in written[io_tasks[i].file] \/ Handed(io_tasks[i].file, m, Len(store_tasks))

-----------------------------------------------------------------------------
(* The index and what counts as saved *)

\* The chunk of r that ends at e needs nobody any more.
Resolved(r, e) == contains(Key(r, e)) \/ free = {}

\* It will be resolved by the worker and the first n steps sent to it.
Covered(r, e, n) ==
    \/ Resolved(r, e)
    \/ WorkerWillStore(r, e)
    \/ \E p \in 1 .. n : \E q \in inflight[p].requests : WillStore(q, r, e)

\* A lookup has found, or would find, the first h tokens of r.
Promised(r, h) ==
    \E i \in 0 .. NumChunks(LookupLen(r)) :
        /\ h = ChunkEnd(i, LookupLen(r))
        /\ \A j \in 1 .. i : contains(Key(r, ChunkEnd(j, LookupLen(r))))

SpecsPromised ==
    \A r \in Requests : load_specs[r] # NoSpec => Promised(r, load_specs[r].ext)

TrackersCovered ==
    \A r \in Requests : trackers[r] # NoTracker =>
        /\ trackers[r].saved <= Len(Tokens[r])
        /\ \A e \in FullEnds(trackers[r].saved) : Covered(r, e, Len(inflight))

\* What the metadata of a step skips is covered by the steps before it.
StepsCovered ==
    \A p \in DOMAIN inflight : \A q \in inflight[p].requests :
        /\ q.skip <= Len(Tokens[q.req])
        /\ \A e \in FullEnds(q.skip) : Covered(q.req, e, p - 1)

SavesResolved ==
    /\ \A q \in saveq :
          /\ q.skip <= Len(Tokens[q.req])
          /\ \A e \in FullEnds(q.skip) : Resolved(q.req, e)
    /\ cur # NoReq =>
          \A e \in FullEnds((cur.chunk - 1) * ChunkSize) :
             e <= cur.meta.len => Resolved(cur.meta.req, e)
    /\ wpc \notin {"load", "save", "dead"} => saveq = {} /\ cur = NoReq

\* The part that speaks of saves, not of load specs.
SaveInv == IndexPrefixClosed /\ TrackersCovered /\ StepsCovered /\ SavesResolved

-----------------------------------------------------------------------------
(* Trackers of requests that were never preempted *)

\* What the round has scheduled for such a request.
RoundOK(x) ==
    /\ x.kind # "resumed"
    /\ x.start + x.n <= num_tokens[x.req]
    /\ x.kind = "new" =>
          num_tokens[x.req] = PromptLen[x.req] /\ blocks[x.req] = x.new_blocks
    /\ x.kind = "running" =>
          /\ x.ext = 0
          /\ trackers[x.req].len = x.start
          /\ blocks[x.req] = trackers[x.req].blocks \o x.new_blocks
    /\ x.ext > 0 => load_specs[x.req] # NoSpec /\ load_specs[x.req].can_load

\* A request that waits was never run and has its prompt only.
WaitingFresh ==
    \A r \in Requests :
        /\ num_preemptions[r] <= MaxPreemptions
        /\ status[r] = "waiting" => num_tokens[r] = PromptLen[r]
        /\ status[r] = "preempted" => num_preemptions[r] > 0

\* What the worker computes, or will compute, is for requests that were run.
StepOfRun(s) ==
    s \subseteq [req : Requests, upto : Nat] /\ \A w \in s : status[w.req] # "waiting"

WorkOfRun ==
    /\ StepOfRun(work)
    /\ \A p \in DOMAIN inflight : StepOfRun(inflight[p].work)

MatchHasSpec ==
    match # NoMatch /\ match.ext > 0 => load_specs[match.req] # NoSpec

RoundFollows == \A x \in round : num_preemptions[x.req] = 0 => RoundOK(x)

\* The trackers of the requests that were never preempted.
TrackerFollows ==
    \A r \in Requests \ InRound :
        num_preemptions[r] = 0 /\ status[r] = "running" /\ trackers[r] # NoTracker =>
            trackers[r].len = num_computed[r] /\ trackers[r].blocks = blocks[r]

FollowInv == WaitingFresh /\ WorkOfRun /\ MatchHasSpec /\ RoundFollows /\ TrackerFollows

-----------------------------------------------------------------------------
(* What the worker raises *)

\* Unless chunks are smaller than blocks there is a block for every chunk of the
\* metadata; its masks are aligned when chunks fit into a block without a rest.
MetaOK(q) ==
    /\ BlockSize <= ChunkSize => NumChunks(q.len) <= Len(q.block_ids)
    /\ BlockSize % ChunkSize = 0 =>
          /\ q.can_save => ~MaskRaises(SaveMask(q))
          /\ q.load # NoLoad => ~MaskRaises(LoadMask(q))

\* have blocks hold at least the given number of tokens.
Holds(have, tokens) == tokens <= have * BlockSize

SpecOK(r) ==
    load_specs[r] # NoSpec =>
        /\ load_specs[r].vllm % BlockSize = 0
        /\ load_specs[r].vllm < load_specs[r].ext

\* What vLLM gives a matched request reaches as far as its load spec.
MatchCovers ==
    match # NoMatch =>
        /\ Len(match.blocks) * BlockSize = match.local
        /\ load_specs[match.req] # NoSpec =>
              load_specs[match.req].ext <= match.local + match.ext + 1

\* A tracker has blocks for its tokens, with at least the room that the
\* scheduler's own blocks have; it is never behind what it counts as saved.
TrackerOK(r) ==
    trackers[r] # NoTracker =>
        /\ trackers[r].saved <= trackers[r].len
        /\ Holds(Len(trackers[r].blocks), trackers[r].len)
        /\ status[r] = "running" /\ r \notin InRound =>
              /\ Holds(Len(blocks[r]), num_computed[r])
              /\ Len(blocks[r]) * BlockSize - num_computed[r]
                   <= Len(trackers[r].blocks) * BlockSize - trackers[r].len

ScheduledOK(x) ==
    /\ Holds(Len(blocks[x.req]), x.start + x.n)
    /\ x.kind # "running" => blocks[x.req] = x.new_blocks
    /\ x.kind = "running" =>
          Len(blocks[x.req]) * BlockSize - x.start
            <= (Len(trackers[x.req].blocks) + Len(x.new_blocks)) * BlockSize - trackers[x.req].len
    /\ x.kind = "new" /\ load_specs[x.req] # NoSpec => load_specs[x.req].ext <= x.start + x.n

QuietSched ==
    /\ \A r \in Requests : SpecOK(r)
    /\ \A r \in Requests : TrackerOK(r)
    /\ MatchCovers
    /\ \A x \in round : ScheduledOK(x)

QuietWorker ==
    /\ RaisesOnlyMisconfigured
    /\ \A p \in DOMAIN inflight : \A q \in inflight[p].requests : MetaOK(q)
    /\ \A q \in loadq : MetaOK(q)
    /\ \A q \in saveq : MetaOK(q) /\ q.can_save
    /\ cur # NoReq => MetaOK(cur.meta) /\ cur.index <= cur.chunk

QuietInv == QuietSched /\ QuietWorker

-----------------------------------------------------------------------------
(* Layers are written in order *)

\* What a step does to the tasks of a forward pass, the store tasks and the
\* files.
LEMMA LayerCases ==
    ASSUME [Next]_vars
    PROVE  \/ UNCHANGED <<io_tasks, store_tasks, written>>
           \/ io_tasks' \in {<< >>, tasks} /\ UNCHANGED <<store_tasks, written>>
           \/ save_kv_layer_async /\ io_tasks # << >>
           \/ \E b \in Budgets : launch_io(b) /\ b # NoBudget
<1>1. CASE UNCHANGED <<workerVars, inflight>>
    BY <1>1 DEF workerVars, queueVars, layerVars
<1>2. CASE SendMeta
    BY <1>2 DEF SendMeta, workerVars, queueVars, layerVars
<1>3. CASE BeginStep
    BY <1>3 DEF BeginStep, start_load_kv
<1>4. CASE WorkerStep
  <2>1. ASSUME NEW e, Raise(e) PROVE UNCHANGED <<io_tasks, store_tasks, written>>
      BY <2>1 DEF Raise, queueVars, layerVars
  <2>2. ASSUME NEW q \in loadq, prepare_for_load(q) PROVE UNCHANGED <<io_tasks, store_tasks, written>>
      BY <2>1, <2>2 DEF prepare_for_load, queueVars, layerVars
  <2>3. ASSUME NEW q \in saveq, prepare_for_store(q) PROVE UNCHANGED <<io_tasks, store_tasks, written>>
      BY <2>1, <2>3 DEF prepare_for_store, queueVars, layerVars
  <2>4. ASSUME FirstLayerLoad \/ SkipChunk \/ StoreChunk \/ EndStore
        PROVE  UNCHANGED <<io_tasks, store_tasks, written>>
      BY <2>4 DEF FirstLayerLoad, SkipChunk, StoreChunk, EndStore, queueVars, layerVars
  <2>5. ASSUME SubmitTask \/ wait_for_layer_load \/ Attention
        PROVE  UNCHANGED <<io_tasks, store_tasks, written>>
      BY <2>5 DEF SubmitTask, wait_for_layer_load, Attention, queueVars, layerVars
  <2>6. ASSUME TakeTasks
        PROVE  \/ UNCHANGED <<io_tasks, store_tasks, written>>
               \/ io_tasks' = tasks /\ UNCHANGED <<store_tasks, written>>
      BY <2>6 DEF TakeTasks, get_next_ntasks, queueVars, layerVars
  <2>7. ASSUME save_kv_layer PROVE UNCHANGED <<io_tasks, store_tasks, written>>
      BY <2>7 DEF save_kv_layer, SaveStream
  <2>8. ASSUME save_kv_layer_async
        PROVE  UNCHANGED <<io_tasks, store_tasks, written>> \/ io_tasks # << >>
      BY <2>8 DEF save_kv_layer_async
  <2>9. ASSUME NEW b \in Budgets, launch_io(b)
        PROVE  UNCHANGED <<io_tasks, store_tasks, written>> \/ b # NoBudget
      BY <2>1, <2>9 DEF launch_io
  <2> QED BY <1>4, <2>2, <2>3, <2>4, <2>5, <2>6, <2>7, <2>8, <2>9 DEF WorkerStep
<1>5. CASE EndStep
    BY <1>5 DEF EndStep, StepDone, queueVars, layerVars
<1> QED BY <1>1, <1>2, <1>3, <1>4, <1>5
        DEF Next, SchedulerStep, AbortRequest, EndWaiting, vars

\* The hook hands the layer of the forward pass on to GeminiFS.
LEMMA OrderHook ==
    ASSUME WorkerInv, OrderInv, save_kv_layer_async, io_tasks # << >>
    PROVE  OrderInv'
<1>1. /\ io_tasks \in Seq(IOSpec) /\ store_tasks \in Seq(StoreLayerTask)
      /\ layer \in Nat /\ layer < NumLayers /\ NumLayers \in Nat
      /\ \A i \in DOMAIN io_tasks : io_tasks[i].layer = layer
    BY WorkerAssumption
    DEF WorkerInv, LayerInv, StoreInv, TasksFollowLayers, InForward, LayerDone, save_kv_layer_async
<1>2. DueTasks = DOMAIN io_tasks
    BY <1>1 DEF DueTasks
<1>3. PICK t : t = [files |-> DueFiles, layers |-> DueLayers]
    OBVIOUS
<1>4. /\ io_tasks' = AdvancedTasks /\ store_tasks' = Append(store_tasks, t) /\ written' = written
    BY <1>3 DEF QueueStoreTask, save_kv_layer_async
<1>5. PICK n \in Nat : n = Len(store_tasks)
    BY <1>1
<1>6. DOMAIN io_tasks = 1 .. Len(io_tasks) /\ Len(io_tasks) \in Nat /\ DOMAIN io_tasks # {}
    BY <1>1
<1>7. t.layers = {layer} /\ t.files = {io_tasks[i].file : i \in DOMAIN io_tasks}
    BY <1>1, <1>2, <1>3, <1>6 DEF DueFiles, DueLayers
<1>8. /\ DOMAIN store_tasks = 1 .. n /\ DOMAIN store_tasks' = 1 .. n + 1 /\ Len(store_tasks') = n + 1
      /\ store_tasks'[n + 1] = t /\ \A j \in 1 .. n : store_tasks'[j] = store_tasks[j]
  <2>1. t \in StoreLayerTask
    <3>1. \A i \in DOMAIN io_tasks : io_tasks[i] \in IOSpec
        BY <1>1
    <3>2. \A i \in DOMAIN io_tasks : io_tasks[i].file \in Files
        BY <3>1 DEF IOSpec
    <3>3. layer \in Layers
        BY <1>1 DEF Layers
    <3>4. DueFiles \subseteq Files /\ DueLayers \subseteq Layers
        BY <1>3, <1>7, <3>2, <3>3
    <3> QED BY <1>3, <3>4 DEF StoreLayerTask
  <2> QED BY <1>1, <1>4, <1>5, <2>1
<1>9. \A f, m : \A k \in 0 .. n : Handed(f, m, k) => Handed(f, m, k)' /\ Handed(f, m, n + 1)'
  <2> SUFFICES ASSUME NEW f, NEW m, NEW k \in 0 .. n, Handed(f, m, k)
               PROVE  Handed(f, m, k)' /\ Handed(f, m, n + 1)'
      OBVIOUS
  <2>1. PICK j \in 1 .. k : f \in store_tasks[j].files /\ m \in store_tasks[j].layers
      BY DEF Handed
  <2>2. j \in 1 .. n /\ j \in 1 .. n + 1
      BY <1>5
  <2>3. f \in store_tasks'[j].files /\ m \in store_tasks'[j].layers
      BY <1>8, <2>1, <2>2
  <2> QED BY <2>2, <2>3 DEF Handed
<1>10. ASSUME NEW i \in DOMAIN io_tasks, NEW m \in 0 .. layer - 1
       PROVE  m \in written[io_tasks[i].file] \/ Handed(io_tasks[i].file, m, n)
    BY <1>1, <1>5 DEF OrderInv
<1>11. n \in 0 .. n /\ (n + 1) - 1 = n
    BY <1>5
<1>12. LayersWrittenInOrder'
    BY <1>4 DEF OrderInv, LayersWrittenInOrder
<1>13. ASSUME NEW i \in 1 .. n + 1, NEW f \in store_tasks'[i].files, NEW l \in store_tasks'[i].layers,
              NEW m \in 0 .. l - 1
       PROVE  m \in written[f] \/ Handed(f, m, i - 1)'
  <2>1. CASE i \in 1 .. n
    <3>1. f \in store_tasks[i].files /\ l \in store_tasks[i].layers
        BY <1>8, <2>1
    <3>2. m \in written[f] \/ Handed(f, m, i - 1)
        BY <1>8, <2>1, <3>1 DEF OrderInv
    <3>3. i - 1 \in 0 .. n
        BY <1>5, <2>1
    <3> QED BY <1>9, <3>2, <3>3
  <2>2. CASE i = n + 1
    <3>1. f \in t.files /\ l = layer
        BY <1>7, <1>8, <2>2
    <3>2. PICK x \in DOMAIN io_tasks : f = io_tasks[x].file
        BY <1>7, <3>1
    <3>3. m \in written[f] \/ Handed(f, m, n)
        BY <1>10, <3>1, <3>2
    <3> QED BY <1>9, <1>11, <2>2, <3>3
  <2> QED BY <1>5, <2>1, <2>2
<1>14. ASSUME NEW i \in DOMAIN io_tasks, NEW m \in 0 .. layer, NEW f, f = io_tasks[i].file
       PROVE  m \in written[f] \/ Handed(f, m, n + 1)'
  <2>1. CASE m \in 0 .. layer - 1
    <3>1. m \in written[f] \/ Handed(f, m, n)
        BY <1>10, <1>14, <2>1
    <3> QED BY <1>9, <1>11, <3>1
  <2>2. CASE m = layer
    <3>1. f \in t.files /\ m \in t.layers /\ n + 1 \in 1 .. n + 1
        BY <1>5, <1>7, <1>14, <2>2
    <3>2. f \in store_tasks'[n + 1].files /\ m \in store_tasks'[n + 1].layers
        BY <1>8, <3>1
    <3> QED BY <3>1, <3>2 DEF Handed
  <2> QED BY <1>1, <2>1, <2>2
<1>15. ASSUME NEW i \in DOMAIN io_tasks' PROVE i \in DOMAIN io_tasks
                                              /\ io_tasks'[i].layer = layer + 1
                                              /\ io_tasks'[i].file = io_tasks[i].file
  <2>1. i \in DOMAIN io_tasks /\ io_tasks'[i] = [io_tasks[i] EXCEPT !.layer = @ + 1]
      BY <1>2, <1>4 DEF AdvancedTasks
  <2>2. io_tasks[i] \in IOSpec /\ io_tasks[i].layer = layer
      BY <1>1, <2>1
  <2> QED BY <1>1, <2>1, <2>2 DEF IOSpec
<1>16. ASSUME NEW i \in DOMAIN io_tasks', NEW m \in 0 .. io_tasks'[i].layer - 1
       PROVE  (m \in written[io_tasks[i].file] \/ Handed(io_tasks[i].file, m, Len(store_tasks)))'
  <2>1. m \in 0 .. layer
      BY <1>1, <1>15
  <2>2. PICK f : f = io_tasks[i].file
      OBVIOUS
  <2>3. io_tasks'[i].file = f
      BY <1>15, <2>2
  <2>4. m \in written[f] \/ Handed(f, m, n + 1)'
      BY <1>14, <1>15, <2>1, <2>2
  <2> QED BY <1>4, <1>8, <2>3, <2>4
<1>17. ASSUME NEW i \in DOMAIN store_tasks', NEW f \in store_tasks'[i].files, NEW l \in store_tasks'[i].layers,
              NEW m \in 0 .. l - 1
       PROVE  m \in written'[f] \/ Handed(f, m, i - 1)'
    BY <1>4, <1>8, <1>13
<1> QED BY <1>12, <1>16, <1>17 DEF OrderInv

\* GeminiFS writes the first store tasks.
LEMMA OrderLaunch ==
    ASSUME WorkerInv, OrderInv, NEW b \in Budgets, launch_io(b), b # NoBudget
    PROVE  OrderInv'
<1>1. b \in Nat /\ store_tasks \in Seq(StoreLayerTask) /\ Len(store_tasks) \in Nat
      /\ written \in [Files -> SUBSET Layers]
    BY WorkerAssumption DEF WorkerInv, StoreInv
<1>2. PICK n : n = Least(b, Len(store_tasks))
    OBVIOUS
<1>3. n \in Nat /\ n <= Len(store_tasks)
    BY <1>1, <1>2 DEF Least
<1>4. /\ store_tasks' = SubSeq(store_tasks, n + 1, Len(store_tasks))
      /\ written' = [f \in Files |-> written[f] \union
             UNION {store_tasks[i].layers : i \in {j \in 1 .. n : f \in store_tasks[j].files}}]
      /\ io_tasks' = io_tasks
    BY <1>2 DEF launch_io, queueVars
<1>5. PICK k \in Nat : k = Len(store_tasks) - n
    BY <1>1, <1>3
<1>6. /\ store_tasks' \in Seq(StoreLayerTask) /\ Len(store_tasks') = k /\ DOMAIN store_tasks' = 1 .. k
      /\ \A i \in 1 .. k : store_tasks'[i] = store_tasks[n + i]
    BY <1>1, <1>3, <1>4, <1>5
<1>7. \A f \in Files : \A l :
         l \in written'[f] <=> l \in written[f] \/ Handed(f, l, n)
    BY <1>4 DEF Handed
<1>8. \A i \in DOMAIN store_tasks : store_tasks[i].files \subseteq Files
                                    /\ store_tasks[i].layers \subseteq Nat
  <2>1. \A i \in DOMAIN store_tasks : store_tasks[i] \in StoreLayerTask
      BY <1>1
  <2> QED BY <2>1, WorkerAssumption DEF StoreLayerTask, Layers
<1>9. ASSUME NEW f \in Files, NEW m, NEW i \in 0 .. Len(store_tasks), Handed(f, m, i)
      PROVE  m \in written'[f] \/ (i - n \in Nat /\ Handed(f, m, i - n)')
  <2>1. PICK j \in 1 .. i : f \in store_tasks[j].files /\ m \in store_tasks[j].layers
      BY <1>9 DEF Handed
  <2>2. CASE j <= n
    <3>1. j \in 1 .. n
        BY <1>3, <2>2
    <3> QED BY <1>7, <2>1, <3>1 DEF Handed
  <2>3. CASE ~(j <= n)
    <3>1. PICK x \in 1 .. i - n : x = j - n
        BY <1>3, <2>3
    <3>2. x \in 1 .. k /\ n + x = j /\ i - n \in Nat
        BY <1>1, <1>3, <1>5, <2>3, <3>1
    <3>3. store_tasks'[x] = store_tasks[j]
        BY <1>6, <3>2
    <3> QED BY <2>1, <3>1, <3>2, <3>3 DEF Handed
  <2> QED BY <2>2, <2>3
<1>10. \A i \in DOMAIN store_tasks :
          \A f \in store_tasks[i].files, l \in store_tasks[i].layers :
             \A m \in 0 .. l - 1 : m \in written[f] \/ Handed(f, m, i - 1)
    BY DEF OrderInv
<1>11. LayersWrittenInOrder'
  <2> SUFFICES ASSUME NEW f \in Files, NEW l \in written'[f], NEW m \in 0 .. l PROVE m \in written'[f]
      BY DEF LayersWrittenInOrder
  <2>1. CASE l \in written[f]
    <3>1. m \in written[f]
        BY <2>1 DEF OrderInv, LayersWrittenInOrder
    <3> QED BY <1>7, <3>1
  <2>2. CASE Handed(f, l, n) /\ m # l
    <3>1. PICK j \in 1 .. n : f \in store_tasks[j].files /\ l \in store_tasks[j].layers
        BY <2>2 DEF Handed
    <3>2. j \in DOMAIN store_tasks /\ l \in Nat
        BY <1>1, <1>3, <1>8, <3>1
    <3>3. m \in 0 .. l - 1
        BY <2>2, <3>2
    <3>4. m \in written[f] \/ Handed(f, m, j - 1)
        BY <1>10, <3>1, <3>2, <3>3
    <3>5. \A x \in 1 .. j - 1 : x \in 1 .. n
        BY <1>3, <3>1
    <3>6. Handed(f, m, j - 1) => Handed(f, m, n)
        BY <3>5 DEF Handed
    <3> QED BY <1>7, <3>4, <3>6
  <2> QED BY <1>7, <2>1, <2>2
<1>12. ASSUME NEW i \in 1 .. k, NEW f \in store_tasks'[i].files, NEW l \in store_tasks'[i].layers,
              NEW m \in 0 .. l - 1
       PROVE  m \in written'[f] \/ Handed(f, m, i - 1)'
  <2>1. store_tasks'[i] = store_tasks[n + i]
      BY <1>6
  <2>2. n + i \in DOMAIN store_tasks /\ n + i - 1 \in 0 .. Len(store_tasks) /\ (n + i - 1) - n = i - 1
      BY <1>1, <1>3, <1>5
  <2>3. m \in written[f] \/ Handed(f, m, n + i - 1)
    <3>1. PICK x \in DOMAIN store_tasks : x = n + i
        BY <2>2
    <3>2. f \in store_tasks[x].files /\ l \in store_tasks[x].layers
        BY <2>1, <3>1
    <3>3. m \in written[f] \/ Handed(f, m, x - 1)
        BY <1>10, <3>2
    <3>4. x - 1 = n + i - 1
        BY <1>3, <3>1
    <3> QED BY <3>3, <3>4
  <2>4. f \in Files
      BY <1>8, <2>1, <2>2
  <2>5. Handed(f, m, n + i - 1) => m \in written'[f] \/ Handed(f, m, (n + i - 1) - n)'
      BY <1>9, <2>2, <2>4
  <2> QED BY <1>7, <2>2, <2>3, <2>4, <2>5
<1>13. ASSUME NEW i \in DOMAIN io_tasks, NEW m \in 0 .. io_tasks[i].layer - 1
       PROVE  (m \in written[io_tasks[i].file] \/ Handed(io_tasks[i].file, m, Len(store_tasks)))'
  <2>1. PICK f : f = io_tasks[i].file
      OBVIOUS
  <2>2. f \in Files
    <3>1. io_tasks \in Seq(IOSpec)
        BY DEF WorkerInv, LayerInv
    <3>2. io_tasks[i] \in IOSpec
        BY <3>1
    <3> QED BY <2>1, <3>2 DEF IOSpec
  <2>3. m \in written[f] \/ Handed(f, m, Len(store_tasks))
      BY <2>1 DEF OrderInv
  <2>4. PICK a \in 0 .. Len(store_tasks) : a = Len(store_tasks) /\ a - n = k
      BY <1>1, <1>5
  <2>5. Handed(f, m, a) => m \in written'[f] \/ Handed(f, m, k)'
      BY <1>9, <2>2, <2>4
  <2>6. m \in written'[f] \/ Handed(f, m, k)'
      BY <1>7, <2>2, <2>3, <2>4, <2>5
  <2>7. io_tasks'[i].file = f /\ Len(store_tasks') = k
      BY <1>4, <1>6, <2>1
  <2> QED BY <2>6, <2>7
<1> QED BY <1>4, <1>6, <1>11, <1>12, <1>13 DEF OrderInv

\* The layers of a file are written in order, for every number of layers,
\* files and steps, however launch_io is budgeted.
THEOREM LayersWrittenInOrderTheorem == Spec => []LayersWrittenInOrder
<1>1. Init => OrderInv
    BY DEF Init, WorkerInit, OrderInv, LayersWrittenInOrder
<1>2. WorkerInv /\ OrderInv /\ [Next]_vars => OrderInv'
  <2> SUFFICES ASSUME WorkerInv, OrderInv, [Next]_vars PROVE OrderInv'
      OBVIOUS
  <2>1. CASE UNCHANGED <<io_tasks, store_tasks, written>>
      BY <2>1 DEF OrderInv, LayersWrittenInOrder, Handed
  <2>2. CASE io_tasks' \in {<< >>, tasks} /\ UNCHANGED <<store_tasks, written>>
    <3>1. \A i \in DOMAIN tasks : tasks[i].layer = 0
      <4>1. tasks \in Seq(FreshTask)
          BY DEF WorkerInv, QueueInv
      <4> QED BY <4>1 DEF FreshTask
    <3>2. \A i \in DOMAIN io_tasks' : io_tasks'[i].layer = 0
        BY <2>2, <3>1
    <3>3. \A i \in DOMAIN io_tasks' : \A m \in 0 .. io_tasks'[i].layer - 1 : FALSE
        BY <3>2
    <3> QED BY <2>2, <3>3 DEF OrderInv, LayersWrittenInOrder, Handed
  <2> QED BY <2>1, <2>2, LayerCases, OrderHook, OrderLaunch
<1>3. OrderInv => LayersWrittenInOrder
    BY DEF OrderInv
<1> QED BY <1>1, <1>2, <1>3, WorkerCorrect, PTL DEF Spec

-----------------------------------------------------------------------------
(* Trackers follow the scheduler until the first preemption *)

\* What a step does to the work the worker has or is sent.
LEMMA WorkCases ==
    ASSUME [Next]_vars
    PROVE  \/ UNCHANGED <<work, inflight>>
           \/ build_connector_meta /\ inflight' = Append(inflight, RoundMeta) /\ work' = work
           \/ /\ inflight # << >> /\ inflight' = Tail(inflight) /\ work' = Head(inflight).work
              /\ UNCHANGED schedVars
           \/ work' = {} /\ inflight' = inflight
<1>1. CASE UNCHANGED <<workerVars, inflight>>
    BY <1>1 DEF workerVars, prepVars
<1>2. CASE SendMeta
    BY <1>2 DEF SendMeta, workerVars, prepVars
<1>3. CASE BeginStep
    BY <1>3 DEF BeginStep, start_load_kv
<1>4. CASE WorkerStep
  <2>1. ASSUME NEW e, Raise(e) PROVE work' = work
      BY <2>1 DEF Raise, prepVars
  <2>2. ASSUME NEW q \in loadq, prepare_for_load(q) PROVE work' = work
      BY <2>1, <2>2 DEF prepare_for_load
  <2>3. ASSUME NEW q \in saveq, prepare_for_store(q) PROVE work' = work
      BY <2>1, <2>3 DEF prepare_for_store
  <2>4. ASSUME FirstLayerLoad \/ SkipChunk \/ StoreChunk \/ EndStore PROVE work' = work
      BY <2>4 DEF FirstLayerLoad, SkipChunk, StoreChunk, EndStore, prepVars
  <2>5. ASSUME SubmitTask \/ TakeTasks \/ wait_for_layer_load \/ Attention PROVE work' = work
      BY <2>5 DEF SubmitTask, TakeTasks, wait_for_layer_load, Attention, prepVars
  <2>6. ASSUME save_kv_layer \/ save_kv_layer_async PROVE work' = work
      BY <2>6 DEF save_kv_layer, save_kv_layer_async, LayerDone, prepVars
  <2>7. ASSUME NEW b \in Budgets, launch_io(b) PROVE work' = work
      BY <2>1, <2>7 DEF launch_io, prepVars
  <2>8. inflight' = inflight
      BY <1>4 DEF WorkerStep
  <2> QED BY <1>4, <2>2, <2>3, <2>4, <2>5, <2>6, <2>7, <2>8 DEF WorkerStep
<1>5. CASE EndStep
    BY <1>5 DEF EndStep, StepDone
<1> QED BY <1>1, <1>2, <1>3, <1>4, <1>5
        DEF Next, SchedulerStep, AbortRequest, EndWaiting, vars

\* No request starts to wait.
LEMMA NeverWaitsAgain ==
    ASSUME SchedInv, [Next]_vars, NEW r \in Requests, status'[r] = "waiting"
    PROVE  status[r] = "waiting"
<1>1. status \in [Requests -> Statuses]
    BY DEF SchedInv, SchedTypes
<1>2. ASSUME NEW s, NEW v, v # "waiting", status' = [status EXCEPT ![s] = v]
      PROVE  status[r] = "waiting"
    BY <1>1, <1>2
<1>3. ASSUME NEW fin, status' = [q \in Requests |-> IF q \in fin THEN "finished" ELSE status[q]]
      PROVE  status[r] = "waiting"
    BY <1>1, <1>3
<1>4. ASSUME status' = status PROVE status[r] = "waiting"
    BY <1>4
<1>5. ASSUME NEW s \in Requests, NEW n, ScheduleRunning(s, n) PROVE status' = status
    BY <1>5 DEF ScheduleRunning
<1>6. ASSUME NEW s \in Requests, Preempt(s) PROVE status[r] = "waiting"
    BY <1>2, <1>6 DEF Preempt
<1>7. ASSUME NEW s \in Requests, Abort(s) PROVE status[r] = "waiting"
    BY <1>2, <1>7 DEF Abort
<1>8. ASSUME NEW s \in Requests, NEW hit, get_num_new_matched_tokens(s, hit) PROVE status' = status
    BY <1>8 DEF get_num_new_matched_tokens, vllmVars
<1>9. ASSUME NEW n, update_state_after_alloc(n) PROVE status[r] = "waiting"
    BY <1>2, <1>9 DEF update_state_after_alloc
<1>10. ASSUME AllocFails PROVE status' = status
    BY <1>10 DEF AllocFails, vllmVars
<1>11. ASSUME build_connector_meta PROVE status' = status
    BY <1>11 DEF build_connector_meta
<1>12. ASSUME NEW passed, NEW fin \in SUBSET Requests, update_from_output(passed, fin)
       PROVE  status[r] = "waiting"
    BY <1>3, <1>12 DEF update_from_output
<1>13. ASSUME UNCHANGED schedVars PROVE status' = status
    BY <1>13 DEF schedVars, vllmVars
<1> QED BY SchedStepCases, <1>4, <1>5, <1>6, <1>7, <1>8, <1>9, <1>10, <1>11, <1>12, <1>13

LEMMA WorkOfRunNext ==
    ASSUME SchedInv, WorkerInv, WorkOfRun, [Next]_vars
    PROVE  WorkOfRun'
<1>1. ASSUME NEW s, StepOfRun(s) PROVE StepOfRun(s)'
  <2>1. ASSUME NEW w \in s PROVE w.req \in Requests
      BY <1>1 DEF StepOfRun
  <2> QED BY <1>1, <2>1, NeverWaitsAgain DEF StepOfRun
<1>2. inflight \in Seq(GoodStep)
    BY DEF WorkerInv, PrepTypes
<1>3. CASE UNCHANGED <<work, inflight>>
  <2>1. StepOfRun(work')
      BY <1>3 DEF WorkOfRun
  <2>2. PICK s : s = work'
      OBVIOUS
  <2>3. StepOfRun(s)'
      BY <1>1, <2>1, <2>2
  <2>4. ASSUME NEW p \in DOMAIN inflight' PROVE StepOfRun(inflight[p].work)'
    <3>1. PICK v : v = inflight[p].work
        OBVIOUS
    <3>2. StepOfRun(v)'
        BY <1>1, <1>3, <3>1 DEF WorkOfRun
    <3> QED BY <1>3, <3>1, <3>2
  <2> QED BY <2>2, <2>3, <2>4 DEF WorkOfRun
<1>4. CASE build_connector_meta /\ inflight' = Append(inflight, RoundMeta) /\ work' = work
  <2>0. PICK s : s = work
      OBVIOUS
  <2>1. StepOfRun(s)'
      BY <1>1, <2>0 DEF WorkOfRun
  <2>2. PICK v : v = RoundMeta.work
      OBVIOUS
  <2>3. RoundMeta \in GoodStep
      BY RoundMetaType
  <2>4. StepOfRun(v)
    <3>1. v = {[req |-> x.req, upto |-> x.start + x.n] : x \in round}
        BY <2>2 DEF RoundMeta
    <3>2. v \subseteq [req : Requests, upto : Nat]
        BY <2>2, <2>3 DEF GoodStep
    <3>3. \A x \in round : status[x.req] # "waiting"
        BY DEF SchedInv, TrackInv
    <3> QED BY <3>1, <3>2, <3>3 DEF StepOfRun
  <2>5. ASSUME NEW p \in DOMAIN inflight' PROVE StepOfRun(inflight[p].work)'
    <3>1. PICK u : u = inflight'[p].work
        OBVIOUS
    <3>2. u = v \/ (p \in DOMAIN inflight /\ u = inflight[p].work)
        BY <1>2, <1>4, <2>2, <2>3, <3>1
    <3>3. StepOfRun(u)
        BY <2>4, <3>2 DEF WorkOfRun
    <3>4. StepOfRun(u)'
        BY <1>1, <3>3
    <3> QED BY <3>1, <3>4
  <2> QED BY <1>4, <2>0, <2>1, <2>5 DEF WorkOfRun
<1>5. CASE inflight # << >> /\ inflight' = Tail(inflight) /\ work' = Head(inflight).work
  <2>1. PICK v : v = inflight[1].work
      OBVIOUS
  <2>2. 1 \in DOMAIN inflight /\ Head(inflight) = inflight[1]
      BY <1>2, <1>5
  <2>3. StepOfRun(v)'
      BY <1>1, <2>1, <2>2 DEF WorkOfRun
  <2>4. ASSUME NEW p \in DOMAIN inflight' PROVE StepOfRun(inflight[p].work)'
    <3>1. PICK u : u = inflight'[p].work
        OBVIOUS
    <3>2. p + 1 \in DOMAIN inflight /\ u = inflight[p + 1].work
        BY <1>2, <1>5, <3>1
    <3>3. StepOfRun(u)'
        BY <1>1, <3>2 DEF WorkOfRun
    <3> QED BY <3>1, <3>3
  <2> QED BY <1>5, <2>1, <2>2, <2>3, <2>4 DEF WorkOfRun
<1>6. CASE work' = {} /\ inflight' = inflight
  <2>1. ASSUME NEW p \in DOMAIN inflight' PROVE StepOfRun(inflight[p].work)'
    <3>1. PICK v : v = inflight[p].work
        OBVIOUS
    <3>2. StepOfRun(v)'
        BY <1>1, <1>6, <3>1 DEF WorkOfRun
    <3> QED BY <1>6, <3>1, <3>2
  <2> QED BY <1>6, <2>1 DEF WorkOfRun, StepOfRun
<1> QED BY <1>3, <1>4, <1>5, <1>6, WorkCases

\* A request scheduled in the round keeps its entry while its own variables do
\* not change.
LEMMA RoundFrame ==
    ASSUME NEW x,
           num_tokens'[x.req] = num_tokens[x.req], blocks'[x.req] = blocks[x.req],
           trackers'[x.req] = trackers[x.req], load_specs'[x.req] = load_specs[x.req],
           RoundOK(x)
    PROVE  RoundOK(x)'
    BY DEF RoundOK

LEMMA FollowRunning ==
    ASSUME SchedInv, FollowInv, NEW r \in Requests, NEW n, ScheduleRunning(r, n)
    PROVE  WaitingFresh' /\ MatchHasSpec' /\ RoundFollows' /\ TrackerFollows'
<1>1. /\ status[r] = "running" /\ r \notin InRound
      /\ n \in 1 .. num_tokens[r] - num_computed[r]
      /\ UNCHANGED <<status, num_tokens, num_computed, num_preemptions, phase, match,
                     load_specs, trackers, requests_in_step, finished_req_ids>>
    BY DEF ScheduleRunning, connVars
<1>2. num_computed[r] \in Nat /\ num_tokens[r] \in Nat /\ blocks \in [Requests -> Seq(Blocks)]
    BY DEF SchedInv, SchedTypes
<1>3. PICK fresh : /\ blocks' = [blocks EXCEPT ![r] = @ \o fresh]
                   /\ round' = round \union
                         {[req |-> r, start |-> num_computed[r], n |-> n, ext |-> 0,
                           new_blocks |-> fresh, kind |-> "running"]}
    BY DEF ScheduleRunning
<1>4. PICK x : x = [req |-> r, start |-> num_computed[r], n |-> n, ext |-> 0,
                    new_blocks |-> fresh, kind |-> "running"]
    OBVIOUS
<1>5. round' = round \union {x} /\ InRound' = InRound \union {r}
    BY <1>3, <1>4 DEF InRound
<1>6. /\ x.req = r /\ x.start = num_computed[r] /\ x.n = n /\ x.ext = 0
      /\ x.new_blocks = fresh /\ x.kind = "running"
    BY <1>4
<1>7. trackers[r] # NoTracker
    BY <1>1 DEF SchedInv, TrackInv
<1>8. WaitingFresh' /\ MatchHasSpec'
    BY <1>1 DEF FollowInv, WaitingFresh, MatchHasSpec
<1>9. ASSUME num_preemptions[r] = 0 PROVE RoundOK(x)'
  <2>1. trackers[r].len = num_computed[r] /\ trackers[r].blocks = blocks[r]
      BY <1>1, <1>7, <1>9 DEF FollowInv, TrackerFollows
  <2>2. blocks'[r] = blocks[r] \o fresh
      BY <1>2, <1>3
  <2>3. num_computed[r] + n <= num_tokens[r]
      BY <1>1, <1>2
  <2> QED BY <1>1, <1>6, <2>1, <2>2, <2>3 DEF RoundOK
<1>10. ASSUME NEW y \in round, num_preemptions[y.req] = 0 PROVE RoundOK(y)'
  <2>1. y.req # r /\ y.req \in Requests
      BY <1>1 DEF InRound, SchedInv, SchedTypes, Scheduled
  <2>2. blocks'[y.req] = blocks[y.req]
      BY <1>2, <1>3, <2>1
  <2>3. RoundOK(y)
      BY <1>10 DEF FollowInv, RoundFollows
  <2> QED BY <1>1, <2>2, <2>3, RoundFrame
<1>11. RoundFollows'
    BY <1>1, <1>5, <1>6, <1>9, <1>10 DEF RoundFollows
<1>12. TrackerFollows'
    BY <1>1, <1>2, <1>3, <1>5 DEF FollowInv, TrackerFollows
<1> QED BY <1>8, <1>11, <1>12

LEMMA FollowPreempt ==
    ASSUME SchedInv, FollowInv, NEW r \in Requests, Preempt(r)
    PROVE  WaitingFresh' /\ MatchHasSpec' /\ RoundFollows' /\ TrackerFollows'
<1>1. /\ status[r] = "running" /\ r \notin InRound
      /\ num_preemptions[r] < MaxPreemptions
      /\ status' = [status EXCEPT ![r] = "preempted"]
      /\ num_computed' = [num_computed EXCEPT ![r] = 0]
      /\ num_preemptions' = [num_preemptions EXCEPT ![r] = @ + 1]
      /\ blocks' = [blocks EXCEPT ![r] = <<>>]
      /\ UNCHANGED <<num_tokens, block_hash, round, match, load_specs, trackers,
                     requests_in_step, finished_req_ids>>
    BY DEF Preempt, connVars
<1>2. /\ num_preemptions \in [Requests -> Nat] /\ MaxPreemptions \in Nat
      /\ status \in [Requests -> Statuses] /\ num_computed \in [Requests -> Nat]
      /\ blocks \in [Requests -> Seq(Blocks)]
    BY SchedulerAssumption DEF SchedInv, SchedTypes
<1>3. \A s \in Requests \ {r} :
         /\ status'[s] = status[s] /\ num_computed'[s] = num_computed[s]
         /\ num_preemptions'[s] = num_preemptions[s] /\ blocks'[s] = blocks[s]
    BY <1>1, <1>2
<1>4. /\ status'[r] = "preempted" /\ num_preemptions'[r] = num_preemptions[r] + 1
      /\ num_preemptions'[r] > 0 /\ num_preemptions'[r] <= MaxPreemptions
    BY <1>1, <1>2
<1>5. WaitingFresh'
    BY <1>1, <1>3, <1>4 DEF FollowInv, WaitingFresh
<1>6. MatchHasSpec'
    BY <1>1 DEF FollowInv, MatchHasSpec
<1>7. ASSUME NEW y \in round, num_preemptions'[y.req] = 0 PROVE RoundOK(y)'
  <2>1. y.req # r /\ y.req \in Requests
      BY <1>1 DEF InRound, SchedInv, SchedTypes, Scheduled
  <2>2. blocks'[y.req] = blocks[y.req] /\ num_preemptions[y.req] = 0
      BY <1>3, <1>7, <2>1
  <2>3. RoundOK(y)
      BY <2>2 DEF FollowInv, RoundFollows
  <2> QED BY <1>1, <2>2, <2>3, RoundFrame
<1>8. RoundFollows'
    BY <1>1, <1>7 DEF RoundFollows
<1>9. TrackerFollows'
    BY <1>1, <1>3, <1>4 DEF FollowInv, TrackerFollows, InRound
<1> QED BY <1>5, <1>6, <1>8, <1>9

LEMMA FollowAbort ==
    ASSUME SchedInv, FollowInv, NEW r \in Requests, Abort(r)
    PROVE  WaitingFresh' /\ MatchHasSpec' /\ RoundFollows' /\ TrackerFollows'
<1>1. /\ round = {} /\ match = NoMatch
      /\ status' = [status EXCEPT ![r] = "finished"]
      /\ blocks' = [blocks EXCEPT ![r] = <<>>]
      /\ UNCHANGED <<num_tokens, num_computed, num_preemptions, round, match,
                     load_specs, trackers>>
    BY DEF Abort, BetweenRounds, roundVars
<1>2. status \in [Requests -> Statuses] /\ blocks \in [Requests -> Seq(Blocks)]
    BY DEF SchedInv, SchedTypes
<1>3. status'[r] = "finished" /\ \A s \in Requests \ {r} : status'[s] = status[s] /\ blocks'[s] = blocks[s]
    BY <1>1, <1>2
<1>4. WaitingFresh'
    BY <1>1, <1>3 DEF FollowInv, WaitingFresh
<1>5. MatchHasSpec' /\ RoundFollows'
    BY <1>1 DEF MatchHasSpec, RoundFollows
<1>6. TrackerFollows'
    BY <1>1, <1>3 DEF FollowInv, TrackerFollows, InRound
<1> QED BY <1>4, <1>5, <1>6

LEMMA FollowMatch ==
    ASSUME SchedInv, FollowInv, NEW r \in Requests, NEW hit \in Nat,
           get_num_new_matched_tokens(r, hit)
    PROVE  WaitingFresh' /\ MatchHasSpec' /\ RoundFollows' /\ TrackerFollows'
<1>1. /\ status[r] \in {"waiting", "preempted"}
      /\ UNCHANGED <<status, num_tokens, num_computed, num_preemptions, blocks, block_hash,
                     round, trackers, requests_in_step, finished_req_ids>>
    BY DEF get_num_new_matched_tokens, vllmVars
<1>2. PICK h \in 0 .. num_tokens[r] : \E bs \in [1 .. h \div BlockSize -> Blocks] :
         LET need == NeedToAllocate(r, hit, h)
             miss == need <= 0
         IN /\ load_specs' = IF miss THEN load_specs ELSE AddLoadSpec(r, h, hit)
            /\ match' = [req |-> r, local |-> h, blocks |-> bs,
                         ext |-> IF miss THEN 0 ELSE need]
    BY DEF get_num_new_matched_tokens
<1> DEFINE need == NeedToAllocate(r, hit, h)
           miss == need <= 0
<1>3. PICK bs \in [1 .. h \div BlockSize -> Blocks] :
         /\ load_specs' = IF miss THEN load_specs ELSE AddLoadSpec(r, h, hit)
         /\ match' = [req |-> r, local |-> h, blocks |-> bs,
                      ext |-> IF miss THEN 0 ELSE need]
    BY <1>2
<1>4. h \in Nat /\ load_specs \in [Requests -> LoadSpec \union {NoSpec}]
    BY DEF SchedInv, SchedTypes
<1> HIDE DEF need, miss
<1>5. match'.req = r /\ match'.ext = IF miss THEN 0 ELSE need
    BY <1>3
<1>6. \A s \in Requests \ {r} : load_specs'[s] = load_specs[s]
    BY <1>3, <1>4 DEF AddLoadSpec
<1>7. WaitingFresh'
    BY <1>1 DEF FollowInv, WaitingFresh
<1>8. MatchHasSpec'
  <2>1. CASE miss
      BY <1>5, <2>1 DEF MatchHasSpec
  <2>2. CASE ~miss
    <3>1. load_specs'[r] = [vllm |-> h, ext |-> hit, can_load |-> FALSE]
        BY <1>3, <1>4, <2>2 DEF AddLoadSpec
    <3>3. load_specs'[r] \in [vllm : Nat, ext : Nat, can_load : BOOLEAN]
        BY <1>4, <3>1
    <3>2. load_specs'[r] # NoSpec
        BY <3>3, SchedulerAssumption
    <3> QED BY <1>5, <3>2 DEF MatchHasSpec
  <2> QED BY <2>1, <2>2
<1>9. ASSUME NEW y \in round, num_preemptions[y.req] = 0 PROVE RoundOK(y)'
  <2>1. y.req # r /\ y.req \in Requests
      BY <1>1 DEF SchedInv, SchedTypes, TrackInv, Scheduled
  <2>2. load_specs'[y.req] = load_specs[y.req]
      BY <1>6, <2>1
  <2>3. RoundOK(y)
      BY <1>9 DEF FollowInv, RoundFollows
  <2> QED BY <1>1, <2>2, <2>3, RoundFrame
<1>10. RoundFollows'
    BY <1>1, <1>9 DEF RoundFollows
<1>11. TrackerFollows'
    BY <1>1 DEF FollowInv, TrackerFollows, InRound
<1> QED BY <1>7, <1>8, <1>10, <1>11

LEMMA FollowAlloc ==
    ASSUME SchedInv, FollowInv, NEW n, match # NoMatch, update_state_after_alloc(n)
    PROVE  WaitingFresh' /\ MatchHasSpec' /\ RoundFollows' /\ TrackerFollows'
<1>0. PICK r : r = match.req
    OBVIOUS
<1>1. PICK computed : computed = match.local + match.ext
    OBVIOUS
<1>2. r \in Requests /\ computed \in Nat /\ match.ext \in Nat
    BY <1>0, <1>1 DEF SchedInv, SchedTypes, Match
<1>3. /\ n \in 1 .. num_tokens[r] - computed
      /\ load_specs' = [load_specs EXCEPT ![r] = SpecAfterAlloc(@, match.ext)]
      /\ status' = [status EXCEPT ![r] = "running"]
      /\ num_computed' = [num_computed EXCEPT ![r] = computed]
      /\ match' = NoMatch
      /\ UNCHANGED <<num_tokens, num_preemptions, phase, trackers, finished_req_ids>>
    BY <1>0, <1>1 DEF update_state_after_alloc
<1>4. PICK bs : /\ blocks' = [blocks EXCEPT ![r] = bs]
                /\ round' = round \union
                     {[req |-> r, start |-> computed, n |-> n, ext |-> match.ext,
                       new_blocks |-> bs,
                       kind |-> IF status[r] = "waiting" THEN "new" ELSE "resumed"]}
    BY <1>0, <1>1 DEF update_state_after_alloc
<1>5. PICK x : x = [req |-> r, start |-> computed, n |-> n, ext |-> match.ext,
                    new_blocks |-> bs,
                    kind |-> IF status[r] = "waiting" THEN "new" ELSE "resumed"]
    OBVIOUS
<1>6. /\ x.req = r /\ x.start = computed /\ x.n = n /\ x.ext = match.ext /\ x.new_blocks = bs
      /\ x.kind = IF status[r] = "waiting" THEN "new" ELSE "resumed"
    BY <1>5
<1>7. round' = round \union {x} /\ InRound' = InRound \union {r}
    BY <1>4, <1>5 DEF InRound
<1>8. /\ num_tokens[r] \in Nat /\ blocks \in [Requests -> Seq(Blocks)]
      /\ load_specs \in [Requests -> LoadSpec \union {NoSpec}]
      /\ status \in [Requests -> Statuses] /\ num_computed \in [Requests -> Nat]
      /\ status[r] \in {"waiting", "preempted"}
    BY <1>0, <1>2 DEF SchedInv, SchedTypes, TrackInv
<1>9. \A s \in Requests \ {r} :
         /\ status'[s] = status[s] /\ num_computed'[s] = num_computed[s]
         /\ blocks'[s] = blocks[s] /\ load_specs'[s] = load_specs[s]
    BY <1>3, <1>4, <1>8
<1>10. status'[r] = "running" /\ blocks'[r] = bs /\ load_specs'[r] = SpecAfterAlloc(load_specs[r], match.ext)
    BY <1>2, <1>3, <1>4, <1>8
<1>11. WaitingFresh'
    BY <1>3, <1>9, <1>10 DEF FollowInv, WaitingFresh
<1>12. MatchHasSpec'
    BY <1>3 DEF MatchHasSpec
<1>13. ASSUME num_preemptions[r] = 0 PROVE RoundOK(x)'
  <2>1. status[r] = "waiting" /\ num_tokens[r] = PromptLen[r]
      BY <1>2, <1>8, <1>13 DEF FollowInv, WaitingFresh
  <2>2. x.kind = "new"
      BY <1>6, <2>1
  <2>3. computed + n <= num_tokens[r]
      BY <1>2, <1>3, <1>8
  <2>4. ASSUME match.ext > 0 PROVE load_specs'[r] # NoSpec /\ load_specs'[r].can_load
    <3>1. load_specs[r] # NoSpec
        BY <1>0, <2>4 DEF FollowInv, MatchHasSpec
    <3>2. PICK sp \in LoadSpec : sp = load_specs[r]
        BY <1>2, <1>8, <3>1
    <3>3. load_specs'[r] = [sp EXCEPT !.can_load = match.ext # 0]
        BY <1>10, <3>1, <3>2 DEF SpecAfterAlloc
    <3>4. match.ext # 0
        BY <1>2, <2>4
    <3>5. load_specs'[r] = [sp EXCEPT !.can_load = TRUE]
        BY <3>3, <3>4
    <3>6. load_specs'[r] \in [vllm : Nat, ext : Nat, can_load : BOOLEAN] /\ load_specs'[r].can_load
        BY <3>2, <3>5 DEF LoadSpec
    <3> QED BY <3>6, SchedulerAssumption
  <2> QED BY <1>3, <1>6, <1>10, <2>1, <2>2, <2>3, <2>4 DEF RoundOK
<1>14. ASSUME NEW y \in round, num_preemptions[y.req] = 0 PROVE RoundOK(y)'
  <2>1. y.req # r /\ y.req \in Requests
      BY <1>8 DEF SchedInv, SchedTypes, TrackInv, Scheduled
  <2>2. load_specs'[y.req] = load_specs[y.req] /\ blocks'[y.req] = blocks[y.req]
      BY <1>9, <2>1
  <2>3. RoundOK(y)
      BY <1>14 DEF FollowInv, RoundFollows
  <2> QED BY <1>3, <2>2, <2>3, RoundFrame
<1>15. RoundFollows'
    BY <1>3, <1>6, <1>7, <1>13, <1>14 DEF RoundFollows
<1>16. TrackerFollows'
    BY <1>3, <1>7, <1>9 DEF FollowInv, TrackerFollows
<1> QED BY <1>11, <1>12, <1>15, <1>16

LEMMA FollowBuild ==
    ASSUME SchedInv, FollowInv, build_connector_meta
    PROVE  WaitingFresh' /\ MatchHasSpec' /\ RoundFollows' /\ TrackerFollows'
<1> DEFINE X(r) == CHOOSE y \in round : y.req = r
<1>1. ASSUME NEW r \in Requests, r \in InRound
      PROVE  X(r) \in round /\ X(r).req = r
    BY <1>1 DEF InRound
<1>2. /\ trackers' = [r \in Requests |->
            IF r \in InRound THEN SavedTracker(TrackerOf(X(r)))
            ELSE IF r \in finished_req_ids THEN NoTracker ELSE trackers[r]]
      /\ num_computed' = [r \in Requests |->
            IF r \in InRound THEN X(r).start + X(r).n ELSE num_computed[r]]
      /\ round' = {} /\ match = NoMatch
      /\ UNCHANGED <<status, num_tokens, num_preemptions, blocks, match>>
    BY DEF build_connector_meta
<1> HIDE DEF X
<1>3. WaitingFresh' /\ MatchHasSpec' /\ RoundFollows'
    BY <1>2 DEF FollowInv, WaitingFresh, MatchHasSpec, RoundFollows
<1>4. ASSUME NEW r \in Requests, r \in InRound, num_preemptions[r] = 0
      PROVE  trackers'[r].len = num_computed'[r] /\ trackers'[r].blocks = blocks[r]
  <2>1. PICK x \in round : x = X(r) /\ x.req = r
      BY <1>1, <1>4
  <2>2. /\ trackers'[r] = SavedTracker(TrackerOf(x)) /\ num_computed'[r] = x.start + x.n
      BY <1>2, <1>4, <2>1
  <2>3. TrackerOf(x) \in Tracker
      BY TrackerOfType
  <2>4. SavedTracker(TrackerOf(x)).len = TrackerOf(x).len
      BY <2>3, SavedTrackerType
  <2>5. SavedTracker(TrackerOf(x)).blocks = TrackerOf(x).blocks
      BY <2>3 DEF SavedTracker, Tracker
  <2>6. RoundOK(x) /\ x \in Scheduled /\ x.kind \in {"new", "running", "resumed"}
      BY <1>4, <2>1 DEF FollowInv, RoundFollows, SchedInv, SchedTypes, Scheduled
  <2>7. x.start \in Nat /\ x.n \in Nat /\ num_tokens[r] \in Nat /\ x.start + x.n <= num_tokens[r]
      BY <2>1, <2>6 DEF RoundOK, SchedInv, SchedTypes, Scheduled
  <2>8. CASE x.kind = "new"
    <3>1. /\ TrackerOf(x).len = Least(PromptLen[r], x.start + x.n)
          /\ TrackerOf(x).blocks = x.new_blocks
        BY <2>1, <2>8 DEF TrackerOf, NewTracker
    <3>2. num_tokens[r] = PromptLen[r] /\ blocks[r] = x.new_blocks
        BY <2>1, <2>6, <2>8 DEF RoundOK
    <3>3. Least(PromptLen[r], x.start + x.n) = x.start + x.n
        BY <2>7, <3>2 DEF Least
    <3> QED BY <2>2, <2>4, <2>5, <3>1, <3>2, <3>3
  <2>9. CASE x.kind = "running"
    <3>1. /\ TrackerOf(x).len = Least(num_tokens[r], trackers[r].len + x.n)
          /\ TrackerOf(x).blocks = trackers[r].blocks \o x.new_blocks
        BY <2>1, <2>9 DEF TrackerOf, UpdateTracker
    <3>2. trackers[r].len = x.start /\ blocks[r] = trackers[r].blocks \o x.new_blocks
        BY <2>1, <2>6, <2>9 DEF RoundOK
    <3>3. Least(num_tokens[r], x.start + x.n) = x.start + x.n
        BY <2>7 DEF Least
    <3> QED BY <2>2, <2>4, <2>5, <3>1, <3>2, <3>3
  <2> QED BY <2>6, <2>8, <2>9 DEF RoundOK
<1>5. ASSUME NEW r \in Requests, r \notin InRound, num_preemptions[r] = 0,
             status[r] = "running", trackers'[r] # NoTracker
      PROVE  trackers'[r].len = num_computed'[r] /\ trackers'[r].blocks = blocks[r]
  <2>1. r \notin finished_req_ids
      BY <1>5 DEF SchedInv, TrackInv
  <2>2. trackers'[r] = trackers[r] /\ num_computed'[r] = num_computed[r]
      BY <1>2, <1>5, <2>1
  <2> QED BY <1>5, <2>2 DEF FollowInv, TrackerFollows
<1>6. TrackerFollows'
    BY <1>2, <1>4, <1>5 DEF TrackerFollows
<1> QED BY <1>3, <1>6

LEMMA FollowOutput ==
    ASSUME SchedInv, FollowInv, NEW fin \in SUBSET Requests, update_from_output(work, fin)
    PROVE  WaitingFresh' /\ MatchHasSpec' /\ RoundFollows' /\ TrackerFollows'
<1> DEFINE sampled == {w.req : w \in {v \in work : /\ v.upto = num_tokens[v.req]
                                                   /\ status[v.req] # "finished"}}
<1>1. /\ round = {} /\ match = NoMatch
      /\ num_tokens' = [r \in Requests |->
             IF r \in sampled \ fin THEN num_tokens[r] + 1 ELSE num_tokens[r]]
      /\ status' = [r \in Requests |-> IF r \in fin THEN "finished" ELSE status[r]]
      /\ blocks' = [r \in Requests |-> IF r \in fin THEN <<>> ELSE blocks[r]]
      /\ UNCHANGED <<num_computed, num_preemptions, round, match, load_specs, trackers>>
    BY DEF update_from_output, BetweenRounds, roundVars
<1>2. \A r \in sampled : status[r] # "waiting"
    BY DEF FollowInv, WorkOfRun, StepOfRun
<1> HIDE DEF sampled
<1>3. WaitingFresh'
    BY <1>1, <1>2 DEF FollowInv, WaitingFresh
<1>4. MatchHasSpec' /\ RoundFollows'
    BY <1>1 DEF MatchHasSpec, RoundFollows
<1>5. TrackerFollows'
    BY <1>1 DEF FollowInv, TrackerFollows, InRound
<1> QED BY <1>3, <1>4, <1>5

LEMMA FollowNext == SchedInv /\ WorkerInv /\ FollowInv /\ [Next]_vars => FollowInv'
<1> SUFFICES ASSUME SchedInv, WorkerInv, FollowInv, [Next]_vars PROVE FollowInv'
    OBVIOUS
<1> DEFINE Rest == WaitingFresh' /\ MatchHasSpec' /\ RoundFollows' /\ TrackerFollows'
<1>1. WorkOfRun'
    BY WorkOfRunNext DEF FollowInv
<1>2. ASSUME UNCHANGED schedVars PROVE Rest
  <2>1. UNCHANGED <<status, num_tokens, num_computed, num_preemptions, blocks, round, match,
                    load_specs, trackers>>
      BY <1>2 DEF schedVars, vllmVars, roundVars, connVars
  <2> QED BY <2>1 DEF FollowInv, WaitingFresh, MatchHasSpec, RoundFollows, RoundOK,
                      TrackerFollows, InRound
<1>3. ASSUME AllocFails PROVE Rest
  <2>1. /\ match' = NoMatch
        /\ UNCHANGED <<status, num_tokens, num_computed, num_preemptions, blocks, round,
                       load_specs, trackers>>
      BY <1>3 DEF AllocFails, vllmVars, connVars
  <2> QED BY <2>1 DEF FollowInv, WaitingFresh, MatchHasSpec, RoundFollows, RoundOK,
                      TrackerFollows, InRound
<1>4. ASSUME NEW r \in Requests, SchedulerStep(r) PROVE Rest
  <2>1. ASSUME NEW hit \in 0 .. PromptLen[r], get_num_new_matched_tokens(r, hit) PROVE Rest
    <3>1. hit \in Nat
        BY SchedulerAssumption
    <3> QED BY <2>1, <3>1, FollowMatch
  <2> HIDE DEF Rest
  <2> QED BY <1>4, <2>1, FollowRunning, FollowPreempt, FollowAlloc DEF SchedulerStep, Rest
<1>5. ASSUME NEW r \in Requests, AbortRequest(r) PROVE Rest
    BY <1>5, FollowAbort DEF AbortRequest
<1>6. ASSUME SendMeta PROVE Rest
    BY <1>6, FollowBuild DEF SendMeta
<1>7. ASSUME EndStep PROVE Rest
    BY <1>7, FollowOutput DEF EndStep
<1>8. ASSUME EndWaiting PROVE Rest
    BY <1>3, <1>8 DEF EndWaiting
<1>9. ASSUME BeginStep \/ WorkerStep \/ UNCHANGED vars PROVE Rest
    BY <1>2, <1>9 DEF BeginStep, WorkerStep, vars
<1> HIDE DEF Rest
<1>10. Rest
    BY <1>4, <1>5, <1>6, <1>7, <1>8, <1>9 DEF Next
<1> QED BY <1>1, <1>10 DEF FollowInv, Rest

\* Until its first preemption a request's tracker holds what the scheduler has
\* given it, and what vLLM counts as loaded for it is released for loading.
THEOREM FollowCorrect == Spec => []FollowInv
<1>1. Init => FollowInv
  <2> SUFFICES ASSUME Init PROVE FollowInv
      OBVIOUS
  <2>0. MaxPreemptions \in Nat
      BY SchedulerAssumption
  <2>1. WaitingFresh
    <3>1. ASSUME NEW r \in Requests
          PROVE  /\ num_preemptions[r] = 0 /\ status[r] = "waiting"
                 /\ num_tokens[r] = PromptLen[r]
        BY DEF Init, SchedInit
    <3>2. 0 <= MaxPreemptions
        BY <2>0
    <3>3. ASSUME NEW r \in Requests
          PROVE  num_preemptions[r] <= MaxPreemptions /\ status[r] # "preempted"
        BY <3>1, <3>2
    <3> QED BY <3>1, <3>3 DEF WaitingFresh
  <2>2. WorkOfRun
      BY DEF Init, WorkerInit, WorkOfRun, StepOfRun
  <2>3. MatchHasSpec /\ RoundFollows /\ TrackerFollows
      BY DEF Init, SchedInit, MatchHasSpec, RoundFollows, TrackerFollows
  <2> QED BY <2>1, <2>2, <2>3 DEF FollowInv
<1> QED BY <1>1, FollowNext, SchedCorrect, WorkerCorrect, PTL DEF Spec

-----------------------------------------------------------------------------
(* Where chunks end *)

\* e ends a full chunk.
IsEnd(e) == \E i \in Nat \ {0} : e = i * ChunkSize

LEMMA MulMono ==
    ASSUME NEW a \in Nat, NEW b \in Nat, NEW c \in Nat, a <= b
    PROVE  a * c <= b * c
<1>1. PICK d \in Nat : b = a + d
    OBVIOUS
<1>2. b * c = a * c + d * c /\ d * c \in Nat /\ a * c \in Nat
    BY <1>1
<1> QED BY <1>2

\* Division finds the last multiple.
LEMMA DivLast ==
    ASSUME NEW a \in Nat, NEW b \in Nat \ {0}, NEW i \in Nat
    PROVE  i <= a \div b <=> i * b <= a
<1>1. PICK d \in Nat : d = a \div b
    BY DivNat
<1>2. d * b <= a /\ a < d * b + b
    BY <1>1
<1>3. ASSUME i <= d PROVE i * b <= a
  <2>1. i * b <= d * b /\ i * b \in Nat /\ d * b \in Nat
      BY <1>3, MulMono
  <2> QED BY <1>2, <2>1
<1>4. ASSUME d < i PROVE a < i * b
  <2>1. (d + 1) * b <= i * b /\ i * b \in Nat /\ d * b \in Nat
      BY <1>4, MulMono
  <2>2. (d + 1) * b = d * b + b
      OBVIOUS
  <2> QED BY <1>2, <2>1, <2>2
<1>5. i * b \in Nat
    OBVIOUS
<1> QED BY <1>1, <1>3, <1>4, <1>5

\* FullEnds(n) is the set of chunk ends up to n.
LEMMA FullEndsAre ==
    ASSUME NEW n \in Nat
    PROVE  \A e : e \in FullEnds(n) <=> IsEnd(e) /\ e <= n
<1>1. ASSUME NEW i \in Nat PROVE i <= n \div ChunkSize <=> i * ChunkSize <= n
    BY ChunkAssumption, DivLast
<1>2. n \div ChunkSize \in Nat
    BY ChunkAssumption, DivNat
<1>3. ASSUME NEW e, e \in FullEnds(n) PROVE IsEnd(e) /\ e <= n
  <2>1. PICK i \in 1 .. n \div ChunkSize : e = i * ChunkSize
      BY <1>3 DEF FullEnds
  <2>2. i \in Nat \ {0} /\ i <= n \div ChunkSize
      BY <1>2, <2>1
  <2> QED BY <1>1, <2>1, <2>2 DEF IsEnd
<1>4. ASSUME NEW e, IsEnd(e), e <= n PROVE e \in FullEnds(n)
  <2>1. PICK i \in Nat \ {0} : e = i * ChunkSize
      BY <1>4 DEF IsEnd
  <2>2. i <= n \div ChunkSize
      BY <1>1, <1>4, <2>1
  <2>3. i \in 1 .. n \div ChunkSize
      BY <1>2, <2>2
  <2> QED BY <2>1, <2>3 DEF FullEnds
<1> QED BY <1>3, <1>4

LEMMA EndNat ==
    ASSUME NEW e, IsEnd(e)
    PROVE  e \in Nat /\ e >= 1
<1>1. PICK i \in Nat \ {0} : e = i * ChunkSize
    BY DEF IsEnd
<1>2. 1 * ChunkSize <= i * ChunkSize
    BY ChunkAssumption, MulMono
<1> QED BY <1>1, <1>2, ChunkAssumption

\* No chunk ends between two neighbours.
LEMMA NextEnd ==
    ASSUME NEW e, IsEnd(e), NEW c \in Nat \ {0}
    PROVE  /\ c * ChunkSize \in Nat /\ (c - 1) * ChunkSize \in Nat
           /\ (c - 1) * ChunkSize < e => c * ChunkSize <= e
<1>1. PICK i \in Nat \ {0} : e = i * ChunkSize
    BY DEF IsEnd
<1>2. c - 1 \in Nat
    OBVIOUS
<1>3. c * ChunkSize \in Nat /\ (c - 1) * ChunkSize \in Nat /\ i * ChunkSize \in Nat
    BY <1>2, ChunkAssumption
<1>4. CASE i <= c - 1
    BY <1>1, <1>2, <1>3, <1>4, ChunkAssumption, MulMono
<1>5. CASE c <= i
    BY <1>1, <1>3, <1>5, ChunkAssumption, MulMono
<1> QED BY <1>3, <1>4, <1>5

\* After the chunks of n tokens no end up to n is left.
LEMMA PastLast ==
    ASSUME NEW n \in Nat, NEW c \in Nat, NumChunks(n) < c, NEW e, IsEnd(e), e <= n
    PROVE  e <= (c - 1) * ChunkSize
<1>1. PICK i \in Nat \ {0} : e = i * ChunkSize
    BY DEF IsEnd
<1>2. ChunkSize \in Nat \ {0} /\ n + ChunkSize - 1 \in Nat
    BY ChunkAssumption
<1>3. i <= n \div ChunkSize
    BY <1>1, <1>2, DivLast
<1>4. i * ChunkSize <= n + ChunkSize - 1
    BY <1>1, <1>2
<1>5. i <= (n + ChunkSize - 1) \div ChunkSize
    BY <1>2, <1>4, DivLast
<1>6. i <= NumChunks(n)
    BY <1>3, <1>5 DEF NumChunks
<1>7. i <= c - 1 /\ c - 1 \in Nat
    BY <1>6, NumChunksNat
<1> QED BY <1>1, <1>2, <1>7, MulMono

\* The elements of a prefix.
LEMMA PrefixIs ==
    ASSUME NEW t \in Seq(Nat), NEW e \in 1 .. Len(t)
    PROVE  /\ SubSeq(t, 1, e) \in Seq(Nat)
           /\ Len(SubSeq(t, 1, e)) = e
           /\ \A i \in 1 .. e : SubSeq(t, 1, e)[i] = t[i]
<1>1. Len(t) \in Nat /\ 1 \in Int /\ e \in Int /\ 1 <= e
    OBVIOUS
<1>2. \A i \in 1 .. e : t[i] \in Nat
    BY <1>1
<1>3. /\ SubSeq(t, 1, e) \in Seq(Nat)
      /\ Len(SubSeq(t, 1, e)) = IF 1 <= e THEN e - 1 + 1 ELSE 0
      /\ \A i \in 1 .. e - 1 + 1 : SubSeq(t, 1, e)[i] = t[1 + i - 1]
    BY <1>1, <1>2, SubSeqProperties
<1> QED BY <1>1, <1>3

\* A key determines the length of its prefix and the keys before it.
LEMMA KeyPrefix ==
    ASSUME NEW r \in Requests, NEW s \in Requests,
           NEW n \in 1 .. Len(Tokens[r]), NEW m \in 1 .. Len(Tokens[s]), Key(r, n) = Key(s, m)
    PROVE  n = m /\ \A e \in 1 .. n : Key(r, e) = Key(s, e)
<1>1. /\ Tokens[r] \in Seq(Nat) /\ Tokens[s] \in Seq(Nat)
      /\ Len(Tokens[r]) \in Nat /\ Len(Tokens[s]) \in Nat
    BY TokensAssumption
<1>2. /\ Len(SubSeq(Tokens[r], 1, n)) = n
      /\ \A i \in 1 .. n : SubSeq(Tokens[r], 1, n)[i] = Tokens[r][i]
    BY <1>1
<1>3. /\ Len(SubSeq(Tokens[s], 1, m)) = m
      /\ \A i \in 1 .. m : SubSeq(Tokens[s], 1, m)[i] = Tokens[s][i]
    BY <1>1
<1>4. SubSeq(Tokens[r], 1, n) = SubSeq(Tokens[s], 1, m)
    BY DEF Key
<1>5. n = m
    BY <1>2, <1>3, <1>4
<1>6. \A i \in 1 .. n : Tokens[r][i] = Tokens[s][i]
    BY <1>2, <1>3, <1>4, <1>5
<1>7. ASSUME NEW e \in 1 .. n PROVE Key(r, e) = Key(s, e)
  <2>1. /\ SubSeq(Tokens[r], 1, e) \in Seq(Nat) /\ SubSeq(Tokens[s], 1, e) \in Seq(Nat)
        /\ Len(SubSeq(Tokens[r], 1, e)) = e /\ Len(SubSeq(Tokens[s], 1, e)) = e
        /\ \A i \in 1 .. e : SubSeq(Tokens[r], 1, e)[i] = Tokens[r][i]
        /\ \A i \in 1 .. e : SubSeq(Tokens[s], 1, e)[i] = Tokens[s][i]
    <3>1. e \in 1 .. Len(Tokens[r]) /\ e \in 1 .. Len(Tokens[s])
        BY <1>1, <1>5
    <3> QED BY <1>1, <3>1, PrefixIs
  <2>2. \A i \in 1 .. e : SubSeq(Tokens[r], 1, e)[i] = SubSeq(Tokens[s], 1, e)[i]
      BY <1>6, <2>1
  <2>3. SubSeq(Tokens[r], 1, e) = SubSeq(Tokens[s], 1, e)
      BY <2>1, <2>2, SeqEqual
  <2> QED BY <2>3 DEF Key
<1> QED BY <1>5, <1>7

-----------------------------------------------------------------------------
(* The index only grows *)

\* What a step does to the index and to the saves under way.
LEMMA IndexCases ==
    ASSUME [Next]_vars
    PROVE  \/ UNCHANGED indexVars
           \/ StoreChunk /\ UNCHANGED <<schedVars, inflight>>
<1>1. CASE UNCHANGED <<workerVars, inflight>>
    BY <1>1 DEF workerVars
<1>2. CASE SendMeta
    BY <1>2 DEF SendMeta, workerVars
<1>3. CASE BeginStep
    BY <1>3 DEF BeginStep, start_load_kv
<1>4. CASE WorkerStep
  <2>1. ASSUME NEW e, Raise(e) PROVE UNCHANGED indexVars
      BY <2>1 DEF Raise
  <2>2. ASSUME NEW q \in loadq, prepare_for_load(q) PROVE UNCHANGED indexVars
      BY <2>1, <2>2 DEF prepare_for_load
  <2>3. ASSUME NEW q \in saveq, prepare_for_store(q) PROVE UNCHANGED indexVars
      BY <2>1, <2>3 DEF prepare_for_store
  <2>4. ASSUME FirstLayerLoad \/ SkipChunk \/ EndStore PROVE UNCHANGED indexVars
      BY <2>4 DEF FirstLayerLoad, SkipChunk, EndStore
  <2>5. ASSUME SubmitTask \/ TakeTasks \/ wait_for_layer_load \/ Attention
        PROVE  UNCHANGED indexVars
      BY <2>5 DEF SubmitTask, TakeTasks, wait_for_layer_load, Attention
  <2>6. ASSUME save_kv_layer \/ save_kv_layer_async PROVE UNCHANGED indexVars
      BY <2>6 DEF save_kv_layer, save_kv_layer_async, LayerDone
  <2>7. ASSUME NEW b \in Budgets, launch_io(b) PROVE UNCHANGED indexVars
      BY <2>1, <2>7 DEF launch_io
  <2> QED BY <1>4, <2>2, <2>3, <2>4, <2>5, <2>6, <2>7 DEF WorkerStep
<1>5. CASE EndStep
    BY <1>5 DEF EndStep, StepDone
<1> QED BY <1>1, <1>2, <1>3, <1>4, <1>5
        DEF Next, SchedulerStep, AbortRequest, EndWaiting, vars

\* The loop of prepare_for_store is at a chunk of its request.
LEMMA CurType ==
    ASSUME WorkerInv, cur # NoReq
    PROVE  /\ cur \in StoreLoop /\ cur.meta \in GoodMeta
           /\ cur.chunk \in Nat \ {0} /\ cur.index \in Nat \ {0}
           /\ cur.meta.req \in Requests /\ cur.meta.len \in Nat
           /\ cur.meta.len <= Len(Tokens[cur.meta.req])
           /\ CurKey \in Keys
<1>1. /\ cur \in StoreLoop /\ cur.meta \in GoodMeta
      /\ cur.chunk \in Nat \ {0} /\ cur.index \in Nat \ {0}
    BY DEF WorkerInv, PrepTypes, StoreLoop
<1>2. /\ cur.meta.req \in Requests /\ cur.meta.len \in Nat
      /\ cur.meta.len <= Len(Tokens[cur.meta.req])
    BY <1>1 DEF GoodMeta, ReqMeta
<1>3. CurKey \in Keys
    BY <1>1, <1>2, ChunkKey DEF CurKey
<1> QED BY <1>1, <1>2, <1>3

\* What allocate does to the index.
LEMMA StoreGrows ==
    ASSUME WorkerInv, StoreChunk
    PROVE  /\ CurKey \in Keys /\ dict'[CurKey] # NoFile /\ free # {} /\ free' \subseteq free
           /\ \A k \in Keys : k # CurKey => dict'[k] = dict[k]
           /\ \A k \in Keys : dict[k] # NoFile => dict'[k] # NoFile
<1>1. cur # NoReq
    BY DEF StoreChunk, CurChunk
<1>2. CurKey \in Keys
    BY <1>1, CurType
<1>3. PICK f \in Files : f \in free /\ dict' = [dict EXCEPT ![CurKey] = f] /\ free' = free \ {f}
    BY DEF StoreChunk, allocate
<1>4. dict \in [Keys -> Files \union {NoFile}] /\ f # NoFile
    BY WorkerAssumption DEF WorkerInv, IndexInv
<1>5. dict'[CurKey] = f /\ \A k \in Keys : k # CurKey => dict'[k] = dict[k]
    BY <1>2, <1>3, <1>4
<1> QED BY <1>2, <1>3, <1>4, <1>5

LEMMA IndexGrows ==
    ASSUME WorkerInv, [Next]_vars
    PROVE  /\ \A k \in Keys : contains(k) => contains(k)'
           /\ free = {} => free' = {}
<1>1. CASE UNCHANGED indexVars
    BY <1>1 DEF indexVars, contains
<1>2. CASE StoreChunk
    BY <1>2, StoreGrows DEF contains
<1> QED BY <1>1, <1>2, IndexCases

\* What is resolved stays resolved.
LEMMA ResolvedStays ==
    ASSUME WorkerInv, [Next]_vars, NEW r \in Requests, NEW e \in 0 .. Len(Tokens[r]), Resolved(r, e)
    PROVE  Resolved(r, e)'
<1>1. PICK k \in Keys : k = Key(r, e)
    BY KeyType
<1>2. contains(k) => contains(k)'
    BY <1>1, IndexGrows
<1>3. free = {} => free' = {}
    BY IndexGrows
<1> QED BY <1>1, <1>2, <1>3 DEF Resolved

LEMMA LookupLenType ==
    ASSUME NEW r \in Requests
    PROVE  LookupLen(r) \in Nat /\ LookupLen(r) <= Len(Tokens[r])
<1>1. PromptLen[r] \in Nat /\ PromptLen[r] <= Len(Tokens[r]) /\ Len(Tokens[r]) \in Nat
    BY SchedulerAssumption, TokensAssumption
<1> QED BY <1>1, SchedulerAssumption DEF LookupLen

\* What a lookup found stays found.
LEMMA PromisedStays ==
    ASSUME WorkerInv, [Next]_vars, NEW r \in Requests, NEW h, Promised(r, h)
    PROVE  Promised(r, h)'
<1>1. PICK i \in 0 .. NumChunks(LookupLen(r)) :
         /\ h = ChunkEnd(i, LookupLen(r))
         /\ \A j \in 1 .. i : contains(Key(r, ChunkEnd(j, LookupLen(r))))
    BY DEF Promised
<1>2. ASSUME NEW j \in 1 .. i PROVE contains(Key(r, ChunkEnd(j, LookupLen(r))))'
  <2>1. j \in Nat
      BY LookupLenType, NumChunksNat
  <2>2. PICK k \in Keys : k = Key(r, ChunkEnd(j, LookupLen(r)))
      BY <2>1, LookupLenType, ChunkKey
  <2>3. contains(k)'
      BY <1>1, <2>2, IndexGrows
  <2> QED BY <2>2, <2>3
<1> QED BY <1>1, <1>2 DEF Promised

\* What a step does to the load specs.
LEMMA SpecCases ==
    ASSUME SchedInv, [Next]_vars, NEW r \in Requests, load_specs'[r] # NoSpec
    PROVE  \/ load_specs[r] # NoSpec /\ load_specs'[r].ext = load_specs[r].ext
                 /\ load_specs'[r].vllm = load_specs[r].vllm
           \/ \E hit \in 0 .. PromptLen[r] :
                 /\ load_specs'[r].ext = hit
                 /\ UNCHANGED indexVars
                 /\ IsLookup(r, LookupLen(r), hit)
                 /\ get_num_new_matched_tokens(r, hit)
<1> DEFINE Same == /\ load_specs[r] # NoSpec /\ load_specs'[r].ext = load_specs[r].ext
                   /\ load_specs'[r].vllm = load_specs[r].vllm
<1>1. load_specs \in [Requests -> LoadSpec \union {NoSpec}]
    BY DEF SchedInv, SchedTypes
<1>2. ASSUME load_specs'[r] = load_specs[r] PROVE Same
    BY <1>2
<1>3. ASSUME NEW s \in Requests, NEW hit, get_num_new_matched_tokens(s, hit)
      PROVE  Same \/ (s = r /\ load_specs'[r].ext = hit)
  <2>1. PICK h : \/ load_specs' = load_specs \/ load_specs' = AddLoadSpec(s, h, hit)
      BY <1>3 DEF get_num_new_matched_tokens
  <2>2. CASE load_specs' = load_specs
      BY <1>2, <2>2
  <2>3. CASE load_specs' = AddLoadSpec(s, h, hit)
    <3>1. CASE s = r
        BY <1>1, <2>3, <3>1 DEF AddLoadSpec
    <3>2. CASE s # r
      <4>1. load_specs'[r] = load_specs[r]
          BY <1>1, <2>3, <3>2 DEF AddLoadSpec
      <4> QED BY <1>2, <4>1
    <3> QED BY <3>1, <3>2
  <2> QED BY <2>1, <2>2, <2>3
<1>4. ASSUME NEW n, match # NoMatch, update_state_after_alloc(n) PROVE Same
  <2>1. PICK e : load_specs' = [load_specs EXCEPT ![match.req] = SpecAfterAlloc(@, e)]
      BY <1>4 DEF update_state_after_alloc
  <2>2. CASE match.req = r
    <3>1. load_specs'[r] = SpecAfterAlloc(load_specs[r], e)
        BY <1>1, <2>1, <2>2
    <3>2. load_specs[r] # NoSpec
        BY <3>1 DEF SpecAfterAlloc
    <3>3. PICK sp \in LoadSpec : sp = load_specs[r]
        BY <1>1, <3>2
    <3>4. load_specs'[r] = [sp EXCEPT !.can_load = (e # 0)]
        BY <3>1, <3>2, <3>3 DEF SpecAfterAlloc
    <3>5. load_specs'[r].ext = sp.ext /\ load_specs'[r].vllm = sp.vllm
        BY <3>3, <3>4 DEF LoadSpec
    <3> QED BY <3>2, <3>3, <3>5
  <2>3. CASE match.req # r
    <3>1. load_specs'[r] = load_specs[r]
        BY <1>1, <2>1, <2>3
    <3> QED BY <1>2, <3>1
  <2> QED BY <2>2, <2>3
<1>5. ASSUME build_connector_meta PROVE Same
  <2>1. load_specs'[r] = load_specs[r]
      BY <1>5 DEF build_connector_meta
  <2> QED BY <1>2, <2>1
<1>6. ASSUME UNCHANGED schedVars PROVE Same
    BY <1>2, <1>6 DEF schedVars, connVars
<1>7. ASSUME NEW s \in Requests, SchedulerStep(s)
      PROVE  \/ Same
             \/ \E hit \in 0 .. PromptLen[r] :
                   /\ load_specs'[r].ext = hit
                   /\ UNCHANGED indexVars
                   /\ IsLookup(r, LookupLen(r), hit)
                   /\ get_num_new_matched_tokens(r, hit)
  <2>1. UNCHANGED indexVars
      BY <1>7 DEF SchedulerStep, workerVars
  <2>2. ASSUME NEW n, ScheduleRunning(s, n) PROVE Same
      BY <1>2, <2>2 DEF ScheduleRunning, connVars
  <2>3. ASSUME Preempt(s) PROVE Same
      BY <1>2, <2>3 DEF Preempt, connVars
  <2>4. ASSUME NEW hit \in 0 .. PromptLen[s], IsLookup(s, LookupLen(s), hit),
               get_num_new_matched_tokens(s, hit), ~Same
        PROVE  /\ hit \in 0 .. PromptLen[r] /\ IsLookup(r, LookupLen(r), hit)
               /\ load_specs'[r].ext = hit /\ get_num_new_matched_tokens(r, hit)
      BY <1>3, <2>4
  <2> HIDE DEF Same
  <2> QED BY <1>4, <1>7, <2>1, <2>2, <2>3, <2>4 DEF SchedulerStep
<1>8. ASSUME NEW s \in Requests, AbortRequest(s) PROVE Same
    BY <1>2, <1>8 DEF AbortRequest, Abort
<1>9. ASSUME EndWaiting PROVE Same
    BY <1>2, <1>9 DEF EndWaiting, AllocFails, connVars
<1>10. ASSUME SendMeta PROVE Same
    BY <1>5, <1>10 DEF SendMeta
<1>11. ASSUME EndStep PROVE Same
    BY <1>2, <1>11 DEF EndStep, update_from_output
<1>12. ASSUME BeginStep \/ WorkerStep \/ UNCHANGED vars PROVE Same
    BY <1>6, <1>12 DEF BeginStep, WorkerStep, vars
<1> HIDE DEF Same
<1>13. \/ Same
       \/ \E hit \in 0 .. PromptLen[r] :
             /\ load_specs'[r].ext = hit
             /\ UNCHANGED indexVars
             /\ IsLookup(r, LookupLen(r), hit)
             /\ get_num_new_matched_tokens(r, hit)
    BY <1>7, <1>8, <1>9, <1>10, <1>11, <1>12 DEF Next
<1> QED BY <1>13 DEF Same

LEMMA SpecsNext == SchedInv /\ WorkerInv /\ SpecsPromised /\ [Next]_vars => SpecsPromised'
<1> SUFFICES ASSUME SchedInv, WorkerInv, SpecsPromised, [Next]_vars,
                    NEW r \in Requests, load_specs'[r] # NoSpec
             PROVE  Promised(r, load_specs[r].ext)'
    BY DEF SpecsPromised
<1>0. PICK h : h = load_specs'[r].ext
    OBVIOUS
<1>1. CASE load_specs[r] # NoSpec /\ load_specs'[r].ext = load_specs[r].ext
  <2>1. Promised(r, h)
      BY <1>0, <1>1 DEF SpecsPromised
  <2>2. Promised(r, h)'
      BY <2>1, PromisedStays
  <2> QED BY <1>0, <2>2
<1>2. CASE \E hit \in 0 .. PromptLen[r] :
              load_specs'[r].ext = hit /\ UNCHANGED indexVars /\ IsLookup(r, LookupLen(r), hit)
  <2>1. IsLookup(r, LookupLen(r), h)
      BY <1>0, <1>2
  <2>2. Promised(r, h)
      BY <2>1 DEF IsLookup, Promised
  <2>3. Promised(r, h)'
      BY <2>2, PromisedStays
  <2> QED BY <1>0, <2>3
<1> QED BY <1>1, <1>2, SpecCases

\* What a load spec promises is in the index, also when the spec was left behind
\* by an attempt to schedule that failed.
THEOREM SpecsPromisedTheorem == Spec => []SpecsPromised
<1>1. Init => SpecsPromised
    BY DEF Init, SchedInit, SpecsPromised
<1> QED BY <1>1, SpecsNext, SchedCorrect, WorkerCorrect, PTL DEF Spec

-----------------------------------------------------------------------------
(* What counts as saved *)

Preparing == {"load", "save", "dead"}

\* Steps that no save notices.
SavesUntouched ==
    /\ UNCHANGED <<dict, free, saveq, cur, inflight, trackers>>
    /\ wpc' \in Preparing \/ wpc \notin Preparing \/ (saveq = {} /\ cur = NoReq)

\* What a step does to the saves under way.
LEMMA SaveCases ==
    ASSUME [Next]_vars
    PROVE  \/ SavesUntouched
           \/ SendMeta
           \/ BeginStep
           \/ /\ \/ \E q \in saveq : prepare_for_store(q) /\ ~MaskRaises(SaveMask(q))
                 \/ SkipChunk
                 \/ StoreChunk
                 \/ EndStore
              /\ UNCHANGED <<schedVars, inflight>>
<1>1. ASSUME UNCHANGED <<workerVars, inflight>>, trackers' = trackers PROVE SavesUntouched
    BY <1>1 DEF SavesUntouched, workerVars, indexVars, prepVars
<1>2. ASSUME NEW r \in Requests, SchedulerStep(r) PROVE SavesUntouched
  <2>1. trackers' = trackers
    <3>1. ASSUME NEW n, ScheduleRunning(r, n) PROVE trackers' = trackers
        BY <3>1 DEF ScheduleRunning, connVars
    <3>2. ASSUME Preempt(r) PROVE trackers' = trackers
        BY <3>2 DEF Preempt, connVars
    <3>3. ASSUME NEW hit, get_num_new_matched_tokens(r, hit) PROVE trackers' = trackers
        BY <3>3 DEF get_num_new_matched_tokens
    <3>4. ASSUME NEW n, update_state_after_alloc(n) PROVE trackers' = trackers
        BY <3>4 DEF update_state_after_alloc
    <3> QED BY <1>2, <3>1, <3>2, <3>3, <3>4 DEF SchedulerStep
  <2> QED BY <1>1, <1>2, <2>1 DEF SchedulerStep
<1>3. ASSUME NEW r \in Requests, AbortRequest(r) PROVE SavesUntouched
    BY <1>1, <1>3 DEF AbortRequest, Abort
<1>4. ASSUME EndWaiting PROVE SavesUntouched
    BY <1>1, <1>4 DEF EndWaiting, AllocFails, connVars
<1>5. ASSUME EndStep PROVE SavesUntouched
    BY <1>5 DEF EndStep, StepDone, update_from_output, SavesUntouched, Preparing, indexVars
<1>6. ASSUME UNCHANGED vars PROVE SavesUntouched
    BY <1>1, <1>6 DEF vars, schedVars, connVars
<1>7. ASSUME WorkerStep
      PROVE  \/ SavesUntouched
             \/ /\ \/ \E q \in saveq : prepare_for_store(q) /\ ~MaskRaises(SaveMask(q))
                   \/ SkipChunk
                   \/ StoreChunk
                   \/ EndStore
                /\ UNCHANGED <<schedVars, inflight>>
  <2>1. UNCHANGED <<schedVars, inflight>> /\ trackers' = trackers
      BY <1>7 DEF WorkerStep, schedVars, connVars
  <2> USE DEF SavesUntouched, Preparing, indexVars, prepVars
  <2>2. ASSUME NEW e, Raise(e) PROVE SavesUntouched
      BY <2>1, <2>2 DEF Raise
  <2>3. ASSUME NEW q \in loadq, prepare_for_load(q) PROVE SavesUntouched
      BY <2>1, <2>2, <2>3 DEF prepare_for_load
  <2>4. ASSUME FirstLayerLoad PROVE SavesUntouched
      BY <2>1, <2>4 DEF FirstLayerLoad
  <2>5. ASSUME NEW q \in saveq, prepare_for_store(q)
        PROVE  SavesUntouched \/ ~MaskRaises(SaveMask(q))
      BY <2>2, <2>5 DEF prepare_for_store
  <2>6. ASSUME SubmitTask \/ TakeTasks PROVE SavesUntouched
      BY <2>1, <2>6 DEF SubmitTask, TakeTasks
  <2>7. ASSUME wait_for_layer_load \/ Attention PROVE SavesUntouched
      BY <2>1, <2>7 DEF wait_for_layer_load, Attention
  <2>8. ASSUME save_kv_layer \/ save_kv_layer_async PROVE SavesUntouched
      BY <2>1, <2>8 DEF save_kv_layer, save_kv_layer_async, LayerDone
  <2>9. ASSUME NEW b \in Budgets, launch_io(b) PROVE SavesUntouched
      BY <2>1, <2>2, <2>9 DEF launch_io
  <2> HIDE DEF SavesUntouched
  <2> QED BY <1>7, <2>1, <2>3, <2>4, <2>5, <2>6, <2>7, <2>8, <2>9 DEF WorkerStep
<1> QED BY <1>2, <1>3, <1>4, <1>5, <1>6, <1>7 DEF Next

LEMMA SaveFrame ==
    ASSUME SaveInv, SavesUntouched
    PROVE  SaveInv'
<1> USE DEF SaveInv
<1>1. UNCHANGED <<dict, free, saveq, cur, inflight, trackers>>
    BY DEF SavesUntouched
<1>2. \A r, e : Resolved(r, e)' <=> Resolved(r, e)
    BY <1>1 DEF Resolved, contains
<1>3. \A r, e : WorkerWillStore(r, e)' <=> WorkerWillStore(r, e)
    BY <1>1 DEF WorkerWillStore
<1>4. \A r, e, n : Covered(r, e, n)' <=> Covered(r, e, n)
    BY <1>1, <1>2, <1>3 DEF Covered
<1>5. IndexPrefixClosed'
    BY <1>1 DEF IndexPrefixClosed, contains
<1>6. TrackersCovered' /\ StepsCovered'
    BY <1>1, <1>4 DEF TrackersCovered, StepsCovered
<1>7. SavesResolved'
    BY <1>1, <1>2 DEF SavesResolved, SavesUntouched, Preparing
<1> QED BY <1>5, <1>6, <1>7

\* The types of the metadata of a step.
LEMMA StepMetaType ==
    ASSUME WorkerInv, NEW p \in DOMAIN inflight, NEW q \in inflight[p].requests
    PROVE  /\ q \in GoodMeta /\ q.req \in Requests /\ q.len \in Nat /\ q.skip \in Nat
           /\ q.len <= Len(Tokens[q.req])
<1>1. inflight \in Seq(GoodStep)
    BY DEF WorkerInv, PrepTypes
<1>2. inflight[p] \in GoodStep
    BY <1>1
<1>3. q \in GoodMeta
    BY <1>2 DEF GoodStep
<1> QED BY <1>3 DEF GoodMeta, ReqMeta

\* What a step skips begins no later than the mask of its chunks.
LEMMA SaveMaskType ==
    ASSUME NEW q, q.skip \in Nat, q.len \in Nat
    PROVE  /\ SaveMask(q) \in Nat /\ SaveMask(q) <= q.skip /\ SaveMask(q) <= q.len
           /\ FirstChunk(SaveMask(q)) \in Nat \ {0}
           /\ (FirstChunk(SaveMask(q)) - 1) * ChunkSize \in Nat
           /\ (FirstChunk(SaveMask(q)) - 1) * ChunkSize <= SaveMask(q)
<1>1. Floor(q.skip) \in Nat /\ Floor(q.skip) <= q.skip
    BY SchedulerAssumption, DivNat DEF Floor
<1>2. SaveMask(q) \in Nat /\ SaveMask(q) <= q.skip /\ SaveMask(q) <= q.len
    BY <1>1 DEF SaveMask, Least
<1>3. PICK m \in Nat : m = SaveMask(q)
    BY <1>2
<1>4. m \div ChunkSize \in Nat /\ (m \div ChunkSize) * ChunkSize <= m
      /\ (m \div ChunkSize) * ChunkSize \in Nat
    BY ChunkAssumption, DivNat
<1>5. FirstChunk(m) \in Nat \ {0} /\ FirstChunk(m) - 1 = m \div ChunkSize
    BY <1>4 DEF FirstChunk
<1> QED BY <1>2, <1>3, <1>4, <1>5

\* The worker takes the first step that was sent.
LEMMA SaveBegin ==
    ASSUME WorkerInv, SaveInv, BeginStep
    PROVE  SaveInv'
<1> USE DEF SaveInv
<1>1. PICK m : m = inflight[1]
    OBVIOUS
<1>2. inflight \in Seq(GoodStep) /\ inflight # << >>
    BY DEF WorkerInv, PrepTypes, BeginStep
<1>3. PICK n \in Nat : n = Len(inflight) /\ n >= 1
    BY <1>2
<1>4. /\ Head(inflight) = m /\ inflight' = Tail(inflight) /\ Len(inflight') = n - 1
      /\ DOMAIN inflight = 1 .. n /\ DOMAIN inflight' = 1 .. n - 1
      /\ \A p \in 1 .. n - 1 : inflight'[p] = inflight[p + 1]
    BY <1>1, <1>2, <1>3 DEF BeginStep
<1>5. /\ wpc = "idle" /\ wpc' = "load"
      /\ saveq' = {q \in m.requests : q.can_save /\ q.skip # q.len}
      /\ UNCHANGED <<dict, free, cur, trackers>>
    BY <1>4 DEF BeginStep, start_load_kv, indexVars, schedVars, connVars
<1>6. saveq = {} /\ cur = NoReq
    BY <1>5 DEF SavesResolved
<1>7. \A r, e : Resolved(r, e)' <=> Resolved(r, e)
    BY <1>5 DEF Resolved, contains
<1>8. \A r, e : ~WorkerWillStore(r, e)
    BY <1>6 DEF WorkerWillStore
<1>9. \A r, e : Covered(r, e, 0) => Resolved(r, e)
    BY <1>8 DEF Covered
<1>10. 1 \in 1 .. n /\ 1 \in DOMAIN inflight /\ 1 - 1 = 0
    BY <1>3, <1>4
<1>11. ASSUME NEW q \in m.requests
       PROVE  /\ q.req \in Requests /\ q.len \in Nat /\ q.skip \in Nat
              /\ q.skip <= Len(Tokens[q.req])
              /\ \A e \in FullEnds(q.skip) : Resolved(q.req, e)
  <2>1. q.req \in Requests /\ q.len \in Nat /\ q.skip \in Nat
      BY <1>1, <1>10, StepMetaType
  <2>2. /\ q.skip <= Len(Tokens[q.req])
        /\ \A e \in FullEnds(q.skip) : Covered(q.req, e, 0)
      BY <1>1, <1>10 DEF StepsCovered
  <2> QED BY <1>9, <2>1, <2>2
<1>12. ASSUME NEW r, NEW e, IsEnd(e), NEW k \in 1 .. n, Covered(r, e, k)
       PROVE  Covered(r, e, k - 1)'
  <2>1. CASE Resolved(r, e)
      BY <1>7, <2>1 DEF Covered
  <2>2. ASSUME NEW p \in 1 .. k, NEW q \in inflight[p].requests, WillStore(q, r, e)
        PROVE  Covered(r, e, k - 1)'
    <3>1. CASE p = 1
      <4>1. q \in m.requests /\ q.req = r /\ q.can_save /\ e <= q.len
          BY <1>1, <2>2, <3>1 DEF WillStore
      <4>2. CASE q.skip # q.len
        <5>1. q \in saveq'
            BY <1>5, <4>1, <4>2
        <5>2. WorkerWillStore(r, e)'
            BY <2>2, <5>1 DEF WorkerWillStore
        <5> QED BY <5>2 DEF Covered
      <4>3. CASE q.skip = q.len
        <5>1. e \in FullEnds(q.skip)
            BY <1>11, <1>12, <4>1, <4>3, FullEndsAre
        <5>2. Resolved(r, e)
            BY <1>11, <4>1, <5>1
        <5> QED BY <1>7, <5>2 DEF Covered
      <4> QED BY <4>2, <4>3
    <3>2. CASE p # 1
      <4>1. p - 1 \in 1 .. k - 1 /\ p - 1 \in 1 .. n - 1 /\ (p - 1) + 1 = p
          BY <1>3, <3>2
      <4>2. inflight'[p - 1] = inflight[p]
          BY <1>4, <4>1
      <4>3. \E o \in 1 .. k - 1 : \E c \in inflight'[o].requests : WillStore(c, r, e)
          BY <2>2, <4>1, <4>2
      <4> QED BY <4>3 DEF Covered
    <3> QED BY <3>1, <3>2
  <2> QED BY <1>8, <1>12, <2>1, <2>2 DEF Covered
<1>13. ASSUME NEW a \in Nat, NEW e \in FullEnds(a) PROVE IsEnd(e)
    BY FullEndsAre
<1>14. TrackersCovered'
  <2> SUFFICES ASSUME NEW r \in Requests, trackers[r] # NoTracker
               PROVE  /\ trackers[r].saved <= Len(Tokens[r])
                      /\ \A e \in FullEnds(trackers[r].saved) : Covered(r, e, n - 1)'
    <3>1. TrackersCovered' <=> \A r \in Requests : trackers[r] # NoTracker =>
             /\ trackers[r].saved <= Len(Tokens[r])
             /\ \A e \in FullEnds(trackers[r].saved) : Covered(r, e, n - 1)'
        BY <1>4, <1>5 DEF TrackersCovered
    <3> QED BY <3>1
  <2>1. trackers[r].saved <= Len(Tokens[r])
      BY DEF TrackersCovered
  <2>2. ASSUME NEW e \in FullEnds(trackers[r].saved) PROVE Covered(r, e, n - 1)'
    <3>1. Covered(r, e, n)
        BY <1>3 DEF TrackersCovered
    <3>2. IsEnd(e)
      <4>1. PICK i \in 1 .. trackers[r].saved \div ChunkSize : e = i * ChunkSize
          BY DEF FullEnds
      <4> QED BY <4>1 DEF IsEnd
    <3> QED BY <1>3, <1>12, <3>1, <3>2
  <2> QED BY <2>1, <2>2
<1>15. StepsCovered'
  <2> SUFFICES ASSUME NEW p \in 1 .. n - 1, NEW q \in inflight[p + 1].requests
               PROVE  /\ q.skip <= Len(Tokens[q.req])
                      /\ \A e \in FullEnds(q.skip) : Covered(q.req, e, p - 1)'
    <3>1. StepsCovered' <=> \A p \in 1 .. n - 1 : \A q \in inflight'[p].requests :
             /\ q.skip <= Len(Tokens[q.req])
             /\ \A e \in FullEnds(q.skip) : Covered(q.req, e, p - 1)'
        BY <1>4 DEF StepsCovered
    <3> QED BY <1>4, <3>1
  <2>1. p + 1 \in 1 .. n /\ p \in 1 .. n /\ (p + 1) - 1 = p
      BY <1>3
  <2>2. /\ q.skip <= Len(Tokens[q.req]) /\ q.skip \in Nat
        /\ \A e \in FullEnds(q.skip) : Covered(q.req, e, p)
      BY <1>4, <2>1, StepMetaType DEF StepsCovered
  <2>3. ASSUME NEW e \in FullEnds(q.skip) PROVE Covered(q.req, e, p - 1)'
      BY <1>12, <1>13, <2>1, <2>2
  <2> QED BY <2>2, <2>3
<1>16. SavesResolved'
  <2>1. \A q \in saveq' : q \in m.requests
      BY <1>5
  <2>2. cur' = NoReq
      BY <1>5, <1>6
  <2>3. ASSUME NEW q \in saveq'
        PROVE  /\ q.skip <= Len(Tokens[q.req])
               /\ \A e \in FullEnds(q.skip) : Resolved(q.req, e)'
      BY <1>7, <1>11, <2>1
  <2> QED BY <1>5, <2>2, <2>3 DEF SavesResolved
<1>17. IndexPrefixClosed'
    BY <1>5 DEF IndexPrefixClosed, contains
<1> QED BY <1>14, <1>15, <1>16, <1>17

\* What a new or continued tracker counts as saved when the round is closed.
LEMMA RoundCovered ==
    ASSUME SchedInv, SpecsPromised, TrackersCovered, NEW x \in round
    PROVE  /\ TrackerOf(x) \in Tracker /\ TrackerOf(x).saved <= Len(Tokens[x.req])
           /\ \A e \in FullEnds(TrackerOf(x).saved) : Covered(x.req, e, Len(inflight))
<1>1. PICK r \in Requests : r = x.req
    BY DEF SchedInv, SchedTypes, Scheduled
<1>2. TrackerOf(x) \in Tracker /\ SpecOf(x) \in LoadSpec \union {NoSpec}
    BY TrackerOfType
<1>3. CASE x.kind # "new"
  <2>1. trackers[r] # NoTracker
      BY <1>1, <1>3 DEF SchedInv, TrackInv
  <2>2. TrackerOf(x).saved = trackers[r].saved
      BY <1>1, <1>3 DEF TrackerOf, UpdateTracker
  <2> QED BY <1>1, <1>2, <2>1, <2>2 DEF TrackersCovered
<1>4. CASE x.kind = "new" /\ load_specs[r] = NoSpec
  <2>1. TrackerOf(x).saved = 0
      BY <1>1, <1>4 DEF TrackerOf, NewTracker, SpecOf
  <2>2. FullEnds(0) = {}
    <3>1. ASSUME NEW e \in FullEnds(0) PROVE FALSE
      <4>1. IsEnd(e) /\ e <= 0
          BY FullEndsAre
      <4> QED BY <4>1, EndNat
    <3> QED BY <3>1
  <2>3. 0 <= Len(Tokens[r])
      BY TokensAssumption
  <2> QED BY <1>1, <1>2, <2>1, <2>2, <2>3
<1>5. CASE x.kind = "new" /\ load_specs[r] # NoSpec
  <2>1. PICK h : h = load_specs[r].ext
      OBVIOUS
  <2>2. TrackerOf(x).saved = h
      BY <1>1, <1>5, <2>1 DEF TrackerOf, NewTracker, SpecOf
  <2>3. Promised(r, h)
      BY <1>5, <2>1 DEF SpecsPromised
  <2>4. PICK len \in Nat : len = LookupLen(r) /\ len <= Len(Tokens[r])
      BY LookupLenType
  <2>5. PICK i \in 0 .. NumChunks(len) :
           h = ChunkEnd(i, len) /\ \A j \in 1 .. i : contains(Key(r, ChunkEnd(j, len)))
      BY <2>3, <2>4 DEF Promised
  <2>6. i \in Nat /\ i * ChunkSize \in Nat
      BY <2>4, NumChunksNat, ChunkAssumption
  <2>7. h \in Nat /\ h <= len /\ h <= i * ChunkSize
      BY <2>4, <2>5, <2>6 DEF ChunkEnd, Least
  <2>8. ASSUME NEW e \in FullEnds(h) PROVE contains(Key(r, e))
    <3>1. IsEnd(e) /\ e <= h
        BY <2>7, FullEndsAre
    <3>2. PICK k \in Nat \ {0} : e = k * ChunkSize
        BY <3>1 DEF IsEnd
    <3>3. k <= i
      <4>1. CASE i < k
        <5>1. i + 1 <= k /\ i + 1 \in Nat
            BY <2>6, <4>1
        <5>2. (i + 1) * ChunkSize <= k * ChunkSize /\ (i + 1) * ChunkSize = i * ChunkSize + ChunkSize
            BY <2>6, <5>1, MulMono, ChunkAssumption
        <5>3. e \in Nat
            BY <3>1, EndNat
        <5> QED BY <2>6, <2>7, <3>1, <3>2, <5>2, <5>3, ChunkAssumption
      <4> QED BY <2>6, <4>1
    <3>4. k \in 1 .. i
        BY <2>6, <3>3
    <3>5. e \in Nat /\ e <= len
        BY <2>4, <2>7, <3>1, EndNat
    <3>6. ChunkEnd(k, len) = e
        BY <3>2, <3>5 DEF ChunkEnd, Least
    <3> QED BY <2>5, <3>4, <3>6
  <2>9. h <= Len(Tokens[r])
      BY <2>4, <2>7, TokensAssumption
  <2> QED BY <1>1, <1>2, <2>2, <2>8, <2>9 DEF Covered, Resolved
<1> QED BY <1>1, <1>3, <1>4, <1>5

\* The round is closed and its metadata sent.
LEMMA SaveSend ==
    ASSUME SchedInv, WorkerInv, SpecsPromised, SaveInv, SendMeta
    PROVE  SaveInv'
<1> USE DEF SaveInv
<1>1. /\ UNCHANGED <<dict, free, saveq, cur, wpc>> /\ build_connector_meta
      /\ inflight' = Append(inflight, RoundMeta)
    BY DEF SendMeta, workerVars, indexVars, prepVars
<1>2. inflight \in Seq(GoodStep) /\ RoundMeta \in GoodStep
    BY RoundMetaType DEF WorkerInv, PrepTypes
<1>3. PICK n \in Nat : n = Len(inflight)
    BY <1>2
<1>4. PICK m : m = RoundMeta
    OBVIOUS
<1>5. /\ DOMAIN inflight = 1 .. n /\ DOMAIN inflight' = 1 .. n + 1 /\ Len(inflight') = n + 1
      /\ inflight'[n + 1] = m /\ \A p \in 1 .. n : inflight'[p] = inflight[p]
    BY <1>1, <1>2, <1>3, <1>4
<1>6. \A r, e : Resolved(r, e)' <=> Resolved(r, e)
    BY <1>1 DEF Resolved, contains
<1>7. \A r, e : WorkerWillStore(r, e)' <=> WorkerWillStore(r, e)
    BY <1>1 DEF WorkerWillStore
<1>8. ASSUME NEW r, NEW e, NEW k \in 0 .. n, Covered(r, e, k)
      PROVE  Covered(r, e, k)' /\ Covered(r, e, n + 1)'
  <2>1. ASSUME NEW p \in 1 .. k, NEW q \in inflight[p].requests, WillStore(q, r, e)
        PROVE  p \in 1 .. n + 1 /\ q \in inflight'[p].requests
    <3>1. p \in 1 .. n /\ p \in 1 .. n + 1
        BY <1>3
    <3> QED BY <1>5, <2>1, <3>1
  <2> QED BY <1>6, <1>7, <1>8, <2>1 DEF Covered
<1>9. ASSUME NEW r, NEW e, NEW q \in m.requests, WillStore(q, r, e)
      PROVE  Covered(r, e, n + 1)'
  <2>1. n + 1 \in 1 .. n + 1
      BY <1>3
  <2>2. \E p \in 1 .. n + 1 : \E c \in inflight'[p].requests : WillStore(c, r, e)
      BY <1>5, <1>9, <2>1
  <2> QED BY <2>2 DEF Covered
<1>10. n \in 0 .. n
    BY <1>3
<1>11. ASSUME NEW x \in round
       PROVE  /\ SavedTracker(TrackerOf(x)).saved <= Len(Tokens[x.req])
              /\ \A e \in FullEnds(SavedTracker(TrackerOf(x)).saved) : Covered(x.req, e, n + 1)'
  <2>1. PICK t \in Tracker : t = TrackerOf(x)
      BY TrackerOfType
  <2>2. /\ t.saved <= Len(Tokens[x.req]) /\ t.saved \in Nat
        /\ \A e \in FullEnds(t.saved) : Covered(x.req, e, n)
      BY <1>3, <2>1, RoundCovered DEF Tracker
  <2>3. CASE SkipSave(t)
    <3>1. SavedTracker(t) = t
        BY <2>3 DEF SavedTracker
    <3> QED BY <1>8, <1>10, <2>1, <2>2, <3>1
  <2>4. CASE ~SkipSave(t)
    <3>1. PICK s \in Nat : s = NumTokensToSave(t) /\ s <= t.len
        BY SavedTrackerType
    <3>2. SavedTracker(t).saved = s
        BY <2>4, <3>1 DEF SavedTracker, Tracker
    <3>3. PICK q : q = MetaOf(x.req, t, SpecOf(x))
        OBVIOUS
    <3>4. q.req = x.req /\ q.len = s /\ q.skip = t.saved /\ q.can_save
        BY <2>4, <3>1, <3>3 DEF MetaOf
    <3>5. q \in m.requests
        BY <1>4, <2>1, <2>4, <3>3 DEF RoundMeta
    <3>6. s <= Len(Tokens[x.req])
      <4>1. /\ x.req \in Requests /\ t.len <= num_tokens[x.req] /\ t.len \in Nat
            /\ num_tokens[x.req] <= Len(Tokens[x.req]) /\ num_tokens[x.req] \in Nat
          BY <2>1, TrackerOfType DEF SchedInv, SchedTypes, Scheduled, Tracker
      <4>2. Len(Tokens[x.req]) \in Nat
          BY <4>1, TokensAssumption
      <4> QED BY <3>1, <4>1, <4>2
    <3>7. ASSUME NEW e \in FullEnds(s) PROVE Covered(x.req, e, n + 1)'
      <4>1. IsEnd(e) /\ e <= s /\ e \in Nat
          BY FullEndsAre, EndNat
      <4>2. SaveMask(q) \in Nat /\ SaveMask(q) <= t.saved
          BY <2>2, <3>4, SaveMaskType
      <4>3. CASE SaveMask(q) < e
        <5>1. WillStore(q, x.req, e)
            BY <3>4, <4>1, <4>3 DEF WillStore
        <5> QED BY <1>9, <3>5, <5>1
      <4>4. CASE e <= SaveMask(q)
        <5>1. e <= t.saved
            BY <2>2, <4>1, <4>2, <4>4
        <5>2. e \in FullEnds(t.saved)
            BY <2>2, <4>1, <5>1, FullEndsAre
        <5> QED BY <1>8, <1>10, <2>2, <5>2
      <4> QED BY <4>1, <4>2, <4>3, <4>4
    <3> QED BY <2>1, <3>2, <3>6, <3>7
  <2> QED BY <2>3, <2>4
<1>12. TrackersCovered'
  <2> SUFFICES ASSUME NEW r \in Requests, trackers'[r] # NoTracker
               PROVE  /\ trackers'[r].saved <= Len(Tokens[r])
                      /\ \A e \in FullEnds(trackers'[r].saved) : Covered(r, e, n + 1)'
    <3>1. TrackersCovered' <=> \A r \in Requests : trackers'[r] # NoTracker =>
             /\ trackers'[r].saved <= Len(Tokens[r])
             /\ \A e \in FullEnds(trackers'[r].saved) : Covered(r, e, n + 1)'
        BY <1>5 DEF TrackersCovered
    <3> QED BY <3>1
  <2>1. CASE r \in InRound
    <3>1. PICK x : x = CHOOSE y \in round : y.req = r
        OBVIOUS
    <3>2. x \in round /\ x.req = r
        BY <2>1, <3>1 DEF InRound
    <3>3. trackers'[r] = SavedTracker(TrackerOf(x))
        BY <1>1, <2>1, <3>1 DEF build_connector_meta
    <3> QED BY <1>11, <3>2, <3>3
  <2>2. CASE r \notin InRound
    <3>1. trackers'[r] = trackers[r]
        BY <1>1, <2>2 DEF build_connector_meta
    <3>2. /\ trackers[r].saved <= Len(Tokens[r])
          /\ \A e \in FullEnds(trackers[r].saved) : Covered(r, e, n)
        BY <1>3, <3>1 DEF TrackersCovered
    <3> QED BY <1>8, <1>10, <3>1, <3>2
  <2> QED BY <2>1, <2>2
<1>13. StepsCovered'
  <2> SUFFICES ASSUME NEW p \in 1 .. n + 1, NEW q \in inflight'[p].requests
               PROVE  /\ q.skip <= Len(Tokens[q.req])
                      /\ \A e \in FullEnds(q.skip) : Covered(q.req, e, p - 1)'
    <3>1. StepsCovered' <=> \A p \in 1 .. n + 1 : \A q \in inflight'[p].requests :
             /\ q.skip <= Len(Tokens[q.req])
             /\ \A e \in FullEnds(q.skip) : Covered(q.req, e, p - 1)'
        BY <1>5 DEF StepsCovered
    <3> QED BY <3>1
  <2>1. CASE p \in 1 .. n
    <3>1. q \in inflight[p].requests /\ p - 1 \in 0 .. n
        BY <1>3, <1>5, <2>1
    <3>2. /\ q.skip <= Len(Tokens[q.req])
          /\ \A e \in FullEnds(q.skip) : Covered(q.req, e, p - 1)
        BY <1>5, <2>1, <3>1 DEF StepsCovered
    <3> QED BY <1>8, <3>1, <3>2
  <2>2. CASE p = n + 1
    <3>1. q \in m.requests /\ p - 1 = n
        BY <1>3, <1>5, <2>2
    <3>2. PICK x \in round : q = MetaOf(x.req, TrackerOf(x), SpecOf(x))
        BY <1>4, <3>1 DEF RoundMeta
    <3>3. q.req = x.req /\ q.skip = TrackerOf(x).saved
        BY <3>2 DEF MetaOf
    <3>4. /\ q.skip <= Len(Tokens[q.req])
          /\ \A e \in FullEnds(q.skip) : Covered(q.req, e, n)
        BY <1>3, <3>3, RoundCovered
    <3> QED BY <1>8, <1>10, <3>1, <3>4
  <2> QED BY <1>3, <2>1, <2>2
<1>14. SavesResolved'
    BY <1>1, <1>6 DEF SavesResolved
<1>15. IndexPrefixClosed'
    BY <1>1 DEF IndexPrefixClosed, contains
<1> QED BY <1>12, <1>13, <1>14, <1>15

\* The worker stores what it is to store, or resolves it.
KeepsStoring ==
    \A r \in Requests : \A e \in 0 .. Len(Tokens[r]) :
        IsEnd(e) /\ WorkerWillStore(r, e) => Resolved(r, e)' \/ WorkerWillStore(r, e)'

LEMMA CoverKept ==
    ASSUME SchedInv, WorkerInv, SaveInv, [Next]_vars, UNCHANGED <<trackers, inflight>>, KeepsStoring
    PROVE  TrackersCovered' /\ StepsCovered'
<1> USE DEF SaveInv
<1>1. ASSUME NEW r \in Requests, NEW e \in 0 .. Len(Tokens[r]), IsEnd(e), NEW n, Covered(r, e, n)
      PROVE  Covered(r, e, n)'
  <2>1. CASE Resolved(r, e)
      BY <2>1, ResolvedStays DEF Covered
  <2>2. CASE WorkerWillStore(r, e)
      BY <1>1, <2>2 DEF KeepsStoring, Covered
  <2>3. CASE \E p \in 1 .. n : \E q \in inflight[p].requests : WillStore(q, r, e)
      BY <2>3 DEF Covered
  <2> QED BY <1>1, <2>1, <2>2, <2>3 DEF Covered
<1>2. ASSUME NEW r \in Requests, NEW a \in Nat, a <= Len(Tokens[r]), NEW e \in FullEnds(a)
      PROVE  IsEnd(e) /\ e \in 0 .. Len(Tokens[r])
  <2>1. IsEnd(e) /\ e <= a /\ e \in Nat
      BY FullEndsAre, EndNat
  <2>2. Len(Tokens[r]) \in Nat
      BY TokensAssumption
  <2> QED BY <1>2, <2>1, <2>2
<1>3. TrackersCovered'
  <2> SUFFICES ASSUME NEW r \in Requests, trackers[r] # NoTracker
               PROVE  /\ trackers[r].saved <= Len(Tokens[r])
                      /\ \A e \in FullEnds(trackers[r].saved) : Covered(r, e, Len(inflight))'
      BY DEF TrackersCovered
  <2>1. PICK a : a = trackers[r].saved
      OBVIOUS
  <2>2. PICK n : n = Len(inflight)
      OBVIOUS
  <2>3. a \in Nat /\ a <= Len(Tokens[r]) /\ \A e \in FullEnds(a) : Covered(r, e, n)
      BY <2>1, <2>2 DEF TrackersCovered, SchedInv, SchedTypes, Tracker
  <2>4. ASSUME NEW e \in FullEnds(a) PROVE Covered(r, e, n)'
      BY <1>1, <1>2, <2>3
  <2> QED BY <2>1, <2>2, <2>3, <2>4
<1>4. StepsCovered'
  <2> SUFFICES ASSUME NEW p \in DOMAIN inflight, NEW q \in inflight[p].requests
               PROVE  /\ q.skip <= Len(Tokens[q.req])
                      /\ \A e \in FullEnds(q.skip) : Covered(q.req, e, p - 1)'
      BY DEF StepsCovered
  <2>1. q.req \in Requests /\ q.skip \in Nat
      BY StepMetaType
  <2>2. q.skip <= Len(Tokens[q.req]) /\ \A e \in FullEnds(q.skip) : Covered(q.req, e, p - 1)
      BY DEF StepsCovered
  <2>3. ASSUME NEW e \in FullEnds(q.skip) PROVE Covered(q.req, e, p - 1)'
      BY <1>1, <1>2, <2>1, <2>2
  <2> QED BY <2>2, <2>3
<1> QED BY <1>3, <1>4

\* The requests to save keep what they skip resolved.
LEMMA QueueKept ==
    ASSUME WorkerInv, SavesResolved, [Next]_vars, NEW q \in saveq
    PROVE  /\ q.skip <= Len(Tokens[q.req])
           /\ \A e \in FullEnds(q.skip) : Resolved(q.req, e)'
<1>1. q.req \in Requests /\ q.skip \in Nat /\ q.len \in Nat
    BY DEF WorkerInv, PrepTypes, GoodMeta, ReqMeta
<1>2. q.skip <= Len(Tokens[q.req]) /\ \A e \in FullEnds(q.skip) : Resolved(q.req, e)
    BY DEF SavesResolved
<1>3. ASSUME NEW e \in FullEnds(q.skip) PROVE Resolved(q.req, e)'
  <2>1. e <= q.skip /\ e \in Nat
      BY <1>1, FullEndsAre, EndNat
  <2>2. Len(Tokens[q.req]) \in Nat
      BY <1>1, TokensAssumption
  <2>3. e \in 0 .. Len(Tokens[q.req])
      BY <1>1, <1>2, <2>1, <2>2
  <2> QED BY <1>1, <1>2, <2>3, ResolvedStays
<1> QED BY <1>2, <1>3

LEMMA SavePrepare ==
    ASSUME SchedInv, WorkerInv, SaveInv, [Next]_vars, UNCHANGED <<schedVars, inflight>>,
           NEW q \in saveq, prepare_for_store(q), ~MaskRaises(SaveMask(q))
    PROVE  SaveInv'
<1> USE DEF SaveInv
<1>1. PICK c : c = FirstChunk(SaveMask(q))
    OBVIOUS
<1>2. /\ wpc = "save" /\ cur = NoReq /\ cur' = [meta |-> q, chunk |-> c, index |-> 1]
      /\ saveq' = saveq \ {q} /\ UNCHANGED <<dict, free, wpc, trackers, inflight>>
    BY <1>1 DEF prepare_for_store, indexVars, schedVars, connVars
<1>3. /\ q.req \in Requests /\ q.skip \in Nat /\ q.len \in Nat /\ q \in ReqMeta
    BY DEF WorkerInv, PrepTypes, GoodMeta, ReqMeta
<1>4. /\ SaveMask(q) \in Nat /\ SaveMask(q) <= q.skip
      /\ c \in Nat \ {0} /\ (c - 1) * ChunkSize \in Nat /\ (c - 1) * ChunkSize <= SaveMask(q)
    BY <1>1, <1>3, SaveMaskType
<1>5. cur'.meta = q /\ cur'.chunk = c /\ cur' # NoReq
  <2>1. cur' \in [meta : ReqMeta, chunk : Nat, index : Nat]
      BY <1>2, <1>3, <1>4
  <2> QED BY <1>2, <2>1, WorkerAssumption
<1>6. \A r, e : Resolved(r, e)' <=> Resolved(r, e)
    BY <1>2 DEF Resolved, contains
<1>7. KeepsStoring
  <2> SUFFICES ASSUME NEW r \in Requests, NEW e \in 0 .. Len(Tokens[r]), IsEnd(e),
                      WorkerWillStore(r, e)
               PROVE  WorkerWillStore(r, e)'
      BY DEF KeepsStoring
  <2>1. PICK d \in saveq : WillStore(d, r, e)
      BY <1>2 DEF WorkerWillStore
  <2>2. CASE d # q
    <3>1. d \in saveq'
        BY <1>2, <2>2
    <3> QED BY <2>1, <3>1 DEF WorkerWillStore
  <2>3. CASE d = q
    <3>1. SaveMask(q) < e
        BY <2>1, <2>3 DEF WillStore
    <3>2. (c - 1) * ChunkSize < e
        BY <1>4, <3>1, EndNat
    <3> QED BY <1>5, <2>1, <2>3, <3>2 DEF WorkerWillStore
  <2> QED BY <2>2, <2>3
<1>8. TrackersCovered' /\ StepsCovered'
    BY <1>2, <1>7, CoverKept
<1>9. ASSUME NEW e \in FullEnds((c - 1) * ChunkSize) PROVE Resolved(q.req, e)'
  <2>1. IsEnd(e) /\ e <= (c - 1) * ChunkSize /\ e \in Nat
      BY <1>4, FullEndsAre, EndNat
  <2>2. e <= q.skip
      BY <1>3, <1>4, <2>1
  <2>3. e \in FullEnds(q.skip)
      BY <1>3, <2>1, <2>2, FullEndsAre
  <2> QED BY <2>3, QueueKept
<1>10. SavesResolved'
  <2>1. \A d \in saveq' : d \in saveq
      BY <1>2
  <2>2. wpc' = "save"
      BY <1>2
  <2>3. ASSUME NEW d \in saveq'
        PROVE  /\ d.skip <= Len(Tokens[d.req])
               /\ \A e \in FullEnds(d.skip) : Resolved(d.req, e)'
      BY <2>1, QueueKept
  <2>4. \A e \in FullEnds((cur'.chunk - 1) * ChunkSize) : Resolved(cur.meta.req, e)'
      BY <1>5, <1>9 DEF Resolved, contains
  <2> QED BY <2>2, <2>3, <2>4 DEF SavesResolved
<1>11. IndexPrefixClosed'
    BY <1>2 DEF IndexPrefixClosed, contains
<1> QED BY <1>8, <1>10, <1>11

\* The loop has passed its chunk: the chunk is indexed.
LEMMA SaveAdvance ==
    ASSUME SchedInv, WorkerInv, SaveInv, [Next]_vars, UNCHANGED <<trackers, inflight, saveq, wpc>>,
           CurChunk, NEW c, c = cur.chunk, NEW q, q = cur.meta, NEW k, k = CurKey,
           dict'[k] # NoFile, cur' # NoReq, cur'.meta = q, cur'.chunk = c + 1
    PROVE  TrackersCovered' /\ StepsCovered' /\ SavesResolved'
<1> USE DEF SaveInv
<1>1. /\ q.req \in Requests /\ q.len \in Nat /\ q.len <= Len(Tokens[q.req])
      /\ c \in Nat \ {0} /\ cur # NoReq
    BY CurType DEF CurChunk
<1>2. c * ChunkSize \in Nat /\ (c - 1) * ChunkSize \in Nat /\ (c + 1) - 1 = c
    BY <1>1, ChunkAssumption
<1>3. ASSUME NEW e, IsEnd(e), (c - 1) * ChunkSize < e, e <= c * ChunkSize, e <= q.len
      PROVE  Resolved(q.req, e)'
  <2>1. e = c * ChunkSize
    <3>1. c * ChunkSize <= e /\ e \in Nat
        BY <1>1, <1>3, NextEnd, EndNat
    <3> QED BY <1>2, <1>3, <3>1
  <2>2. ChunkEnd(c, q.len) = e
      BY <1>3, <2>1 DEF ChunkEnd, Least
  <2>3. k = Key(q.req, e)
      BY <2>2 DEF CurKey
  <2> QED BY <2>3 DEF Resolved, contains
<1>4. ASSUME NEW e \in FullEnds(c * ChunkSize), e <= q.len PROVE Resolved(q.req, e)'
  <2>1. IsEnd(e) /\ e <= c * ChunkSize /\ e \in Nat
      BY <1>2, FullEndsAre, EndNat
  <2>2. CASE (c - 1) * ChunkSize < e
      BY <1>3, <1>4, <2>1, <2>2
  <2>3. CASE e <= (c - 1) * ChunkSize
    <3>1. e \in FullEnds((c - 1) * ChunkSize)
        BY <1>2, <2>1, <2>3, FullEndsAre
    <3>2. Resolved(q.req, e)
        BY <1>1, <1>4, <3>1 DEF SavesResolved
    <3>3. Len(Tokens[q.req]) \in Nat
        BY <1>1, TokensAssumption
    <3>4. e \in 0 .. Len(Tokens[q.req])
        BY <1>1, <1>4, <2>1, <3>3
    <3> QED BY <1>1, <3>2, <3>4, ResolvedStays
  <2> QED BY <1>2, <2>1, <2>2, <2>3
<1>5. KeepsStoring
  <2> SUFFICES ASSUME NEW r \in Requests, NEW e \in 0 .. Len(Tokens[r]), IsEnd(e),
                      WorkerWillStore(r, e)
               PROVE  Resolved(r, e)' \/ WorkerWillStore(r, e)'
      BY DEF KeepsStoring
  <2>1. CASE \E d \in saveq : WillStore(d, r, e)
      BY <2>1 DEF WorkerWillStore
  <2>2. CASE WillStore(q, r, e) /\ (c - 1) * ChunkSize < e
    <3>1. r = q.req /\ e <= q.len /\ e \in Nat
        BY <2>2, EndNat DEF WillStore
    <3>2. CASE e <= c * ChunkSize
        BY <1>3, <2>2, <3>1, <3>2
    <3>3. CASE c * ChunkSize < e
        BY <1>2, <2>2, <3>3 DEF WorkerWillStore
    <3> QED BY <1>2, <3>1, <3>2, <3>3
  <2> QED BY <2>1, <2>2 DEF WorkerWillStore
<1>6. TrackersCovered' /\ StepsCovered'
    BY <1>5, CoverKept
<1>7. SavesResolved'
  <2>1. ASSUME NEW d \in saveq'
        PROVE  /\ d.skip <= Len(Tokens[d.req])
               /\ \A e \in FullEnds(d.skip) : Resolved(d.req, e)'
      BY <2>1, QueueKept
  <2>2. \A e \in FullEnds((cur'.chunk - 1) * ChunkSize) :
           e <= cur'.meta.len => Resolved(cur.meta.req, e)'
      BY <1>2, <1>4 DEF Resolved, contains
  <2>3. wpc' \in {"load", "save", "dead"}
      BY <1>1 DEF SavesResolved
  <2> QED BY <2>1, <2>2, <2>3 DEF SavesResolved
<1> QED BY <1>6, <1>7

LEMMA SaveSkip ==
    ASSUME SchedInv, WorkerInv, SaveInv, [Next]_vars, UNCHANGED <<schedVars, inflight>>, SkipChunk
    PROVE  SaveInv'
<1> USE DEF SaveInv
<1>1. /\ CurChunk /\ contains(CurKey) /\ cur' = [cur EXCEPT !.chunk = @ + 1]
      /\ UNCHANGED <<dict, free, saveq, wpc, trackers, inflight>>
    BY DEF SkipChunk, indexVars, schedVars, connVars
<1>2. cur \in StoreLoop /\ cur.meta \in ReqMeta /\ cur.chunk \in Nat \ {0} /\ cur.index \in Nat \ {0}
    BY <1>1, CurType DEF CurChunk, GoodMeta
<1>3. cur' = [meta |-> cur.meta, chunk |-> cur.chunk + 1, index |-> cur.index]
    BY <1>1, <1>2 DEF StoreLoop
<1>4. cur' \in [meta : ReqMeta, chunk : Nat, index : Nat]
    BY <1>2, <1>3
<1>5. cur' # NoReq /\ cur'.meta = cur.meta /\ cur'.chunk = cur.chunk + 1
    BY <1>3, <1>4, WorkerAssumption
<1>6. dict'[CurKey] # NoFile
    BY <1>1 DEF contains
<1>7. TrackersCovered' /\ StepsCovered' /\ SavesResolved'
    BY <1>1, <1>5, <1>6, SaveAdvance
<1>8. IndexPrefixClosed'
    BY <1>1 DEF IndexPrefixClosed, contains
<1> QED BY <1>7, <1>8

\* A chunk is indexed only after the chunks before it.
LEMMA StoreKeepsPrefixes ==
    ASSUME WorkerInv, SaveInv, [Next]_vars, StoreChunk
    PROVE  IndexPrefixClosed'
<1>1. CurChunk /\ cur # NoReq
    BY DEF StoreChunk, CurChunk
<1>2. PICK q : q = cur.meta
    OBVIOUS
<1>3. PICK c \in Nat \ {0} : c = cur.chunk
    BY <1>1, CurType
<1>4. q.req \in Requests /\ q.len \in Nat /\ q.len <= Len(Tokens[q.req])
    BY <1>1, <1>2, CurType
<1>5. PICK s \in Requests : s = q.req
    BY <1>4
<1>6. Len(Tokens[s]) \in Nat /\ c * ChunkSize \in Nat /\ (c - 1) * ChunkSize \in Nat
      /\ c * ChunkSize >= 1
  <2>1. 1 * ChunkSize <= c * ChunkSize
      BY MulMono, ChunkAssumption
  <2> QED BY <1>3, <2>1, ChunkAssumption, TokensAssumption
<1>7. PICK m : m = ChunkEnd(c, q.len)
    OBVIOUS
<1>8. m \in Nat /\ m <= q.len /\ m <= c * ChunkSize /\ CurKey = Key(s, m)
    BY <1>2, <1>3, <1>4, <1>5, <1>6, <1>7 DEF ChunkEnd, Least, CurKey
<1>9. PICK k \in Keys : k = CurKey
    BY StoreGrows
<1>10. /\ dict'[k] # NoFile /\ free # {}
       /\ \A j \in Keys : j # k => dict'[j] = dict[j]
       /\ \A j \in Keys : dict[j] # NoFile => dict'[j] # NoFile
    BY <1>9, StoreGrows
<1>11. ASSUME NEW r \in Requests, NEW n \in 1 .. Len(Tokens[r]), dict'[Key(r, n)] # NoFile,
              NEW e \in FullEnds(n)
       PROVE  dict'[Key(r, e)] # NoFile
  <2>1. Len(Tokens[r]) \in Nat /\ n \in Nat
      BY TokensAssumption
  <2>2. IsEnd(e) /\ e <= n /\ e \in Nat /\ e >= 1
      BY <2>1, FullEndsAre, EndNat
  <2>3. e \in 0 .. Len(Tokens[r]) /\ n \in 0 .. Len(Tokens[r]) /\ e \in 1 .. n
      BY <2>1, <2>2
  <2>4. Key(r, e) \in Keys /\ Key(r, n) \in Keys
      BY <2>3, KeyType
  <2>5. CASE dict[Key(r, n)] # NoFile
    <3>1. dict[Key(r, e)] # NoFile
        BY <2>5 DEF SaveInv, IndexPrefixClosed, contains
    <3> QED BY <1>10, <2>4, <3>1
  <2>6. CASE dict[Key(r, n)] = NoFile
    <3>1. Key(r, n) = k
        BY <1>10, <1>11, <2>4, <2>6
    <3>2. Key(r, n) = Key(s, m)
        BY <1>8, <1>9, <3>1
    <3>3. m >= 1
      <4>1. CASE m = 0
        <5>1. Len(Key(s, m)) = 0
            BY <4>1, <1>5, TokensAssumption DEF Key
        <5>2. Len(Key(r, n)) = n
            BY <2>1, TokensAssumption DEF Key
        <5> QED BY <2>1, <3>2, <5>1, <5>2
      <4> QED BY <1>8, <4>1
    <3>4. m \in 1 .. Len(Tokens[s])
        BY <1>4, <1>5, <1>6, <1>8, <3>3
    <3>5. n = m /\ Key(r, e) = Key(s, e)
        BY <2>3, <3>2, <3>4, KeyPrefix
    <3>6. CASE e = n
        BY <1>10, <3>1, <3>6
    <3>7. CASE e # n
      <4>1. e < c * ChunkSize /\ e <= q.len
          BY <1>4, <1>6, <1>8, <2>1, <2>2, <3>5, <3>7
      <4>2. e <= (c - 1) * ChunkSize
        <5>1. (c - 1) * ChunkSize < e => c * ChunkSize <= e
            BY <2>2, NextEnd
        <5> QED BY <1>6, <2>2, <4>1, <5>1
      <4>3. e \in FullEnds((c - 1) * ChunkSize)
          BY <1>6, <2>2, <4>2, FullEndsAre
      <4>4. Resolved(s, e)
          BY <1>1, <1>2, <1>3, <1>5, <4>1, <4>3 DEF SaveInv, SavesResolved
      <4>5. dict[Key(s, e)] # NoFile
          BY <1>10, <4>4 DEF Resolved, contains
      <4> QED BY <1>10, <2>4, <3>5, <4>5
    <3> QED BY <3>6, <3>7
  <2> QED BY <2>5, <2>6
<1> QED BY <1>11 DEF IndexPrefixClosed, contains

LEMMA SaveStore ==
    ASSUME SchedInv, WorkerInv, SaveInv, [Next]_vars, UNCHANGED <<schedVars, inflight>>, StoreChunk
    PROVE  SaveInv'
<1> USE DEF SaveInv
<1>1. CurChunk /\ cur # NoReq /\ UNCHANGED <<saveq, trackers, inflight>>
    BY DEF StoreChunk, CurChunk, schedVars, connVars
<1>2. /\ cur.meta \in ReqMeta /\ cur.chunk \in Nat \ {0} /\ cur.index \in Nat \ {0}
      /\ cur.meta.req \in Requests /\ cur.meta.len \in Nat
      /\ cur.meta.len <= Len(Tokens[cur.meta.req])
    BY <1>1, CurType DEF GoodMeta
<1>3. dict'[CurKey] # NoFile
    BY StoreGrows
<1>4. CASE /\ cur' = [meta |-> cur.meta, chunk |-> cur.chunk + 1, index |-> cur.index + 1]
           /\ wpc' = wpc
  <2>1. cur' \in [meta : ReqMeta, chunk : Nat, index : Nat]
      BY <1>2, <1>4
  <2>2. cur' # NoReq /\ cur'.meta = cur.meta /\ cur'.chunk = cur.chunk + 1
      BY <1>4, <2>1, WorkerAssumption
  <2>3. TrackersCovered' /\ StepsCovered' /\ SavesResolved'
      BY <1>1, <1>3, <1>4, <2>2, SaveAdvance
  <2> QED BY <2>3, StoreKeepsPrefixes
<1>5. CASE cur' = cur /\ wpc' = "dead"
  <2>1. KeepsStoring
      BY <1>1, <1>5 DEF KeepsStoring, WorkerWillStore
  <2>2. TrackersCovered' /\ StepsCovered'
      BY <1>1, <2>1, CoverKept
  <2>3. ASSUME NEW d \in saveq'
        PROVE  /\ d.skip <= Len(Tokens[d.req])
               /\ \A e \in FullEnds(d.skip) : Resolved(d.req, e)'
      BY <1>1, <2>3, QueueKept
  <2>4. PICK b : b = (cur.chunk - 1) * ChunkSize
      OBVIOUS
  <2>5. PICK r \in Requests : r = cur.meta.req
      BY <1>2
  <2>6. ASSUME NEW e \in FullEnds(b), e <= cur.meta.len PROVE Resolved(r, e)'
    <3>1. b \in Nat
        BY <1>2, <2>4, ChunkAssumption
    <3>2. e \in Nat
        BY <3>1, FullEndsAre, EndNat
    <3>3. Resolved(r, e)
        BY <1>1, <2>4, <2>5, <2>6 DEF SavesResolved
    <3>4. Len(Tokens[r]) \in Nat
        BY TokensAssumption
    <3>5. e \in 0 .. Len(Tokens[r])
        BY <1>2, <2>5, <2>6, <3>2, <3>4
    <3> QED BY <3>3, <3>5, ResolvedStays
  <2>7. SavesResolved'
    <3>1. \A e \in FullEnds((cur'.chunk - 1) * ChunkSize) :
             e <= cur'.meta.len => Resolved(cur.meta.req, e)'
        BY <1>5, <2>4, <2>5, <2>6 DEF Resolved, contains
    <3> QED BY <1>5, <2>3, <3>1 DEF SavesResolved
  <2> QED BY <2>2, <2>7, StoreKeepsPrefixes
<1> QED BY <1>4, <1>5 DEF StoreChunk

\* The loop ends with every chunk resolved, unless opening a file may fail.
LEMMA SaveEnd ==
    ASSUME ~OpenMayFail, SchedInv, WorkerInv, SaveInv, [Next]_vars,
           UNCHANGED <<schedVars, inflight>>, EndStore
    PROVE  SaveInv'
<1> USE DEF SaveInv
<1>1. /\ cur # NoReq /\ (~CurChunk \/ free = {}) /\ cur' = NoReq
      /\ UNCHANGED <<dict, free, saveq, wpc, trackers, inflight>>
    BY DEF EndStore, indexVars, schedVars, connVars
<1>2. /\ cur.chunk \in Nat \ {0} /\ cur.meta.len \in Nat
    BY <1>1, CurType
<1>3. KeepsStoring
  <2> SUFFICES ASSUME NEW r \in Requests, NEW e \in 0 .. Len(Tokens[r]), IsEnd(e),
                      WorkerWillStore(r, e)
               PROVE  Resolved(r, e)' \/ WorkerWillStore(r, e)'
      BY DEF KeepsStoring
  <2>1. CASE \E d \in saveq : WillStore(d, r, e)
      BY <1>1, <2>1 DEF WorkerWillStore
  <2>2. CASE free = {}
      BY <1>1, <2>2 DEF Resolved
  <2>3. CASE WillStore(cur.meta, r, e) /\ (cur.chunk - 1) * ChunkSize < e /\ ~CurChunk
    <3>1. e <= cur.meta.len /\ e \in Nat
        BY <2>3, EndNat DEF WillStore
    <3>2. NumChunks(cur.meta.len) < cur.chunk
      <4>1. NumChunks(cur.meta.len) \in Nat
          BY <1>2, NumChunksNat
      <4>2. ~(cur.chunk <= NumChunks(cur.meta.len))
          BY <1>1, <2>3 DEF CurChunk
      <4> QED BY <1>2, <4>1, <4>2
    <3>3. e <= (cur.chunk - 1) * ChunkSize
      <4>1. PICK n \in Nat : n = cur.meta.len
          BY <1>2
      <4>2. PICK c \in Nat : c = cur.chunk
          BY <1>2
      <4>3. NumChunks(n) < c /\ e <= n
          BY <3>1, <3>2, <4>1, <4>2
      <4>4. e <= (c - 1) * ChunkSize
          BY <4>3, PastLast
      <4> QED BY <4>2, <4>4
    <3>4. (cur.chunk - 1) * ChunkSize \in Nat
        BY <1>2, ChunkAssumption
    <3> QED BY <2>3, <3>1, <3>3, <3>4
  <2> QED BY <1>1, <2>1, <2>2, <2>3 DEF WorkerWillStore
<1>4. TrackersCovered' /\ StepsCovered'
    BY <1>1, <1>3, CoverKept
<1>5. SavesResolved'
    BY <1>1, QueueKept DEF SavesResolved
<1>6. IndexPrefixClosed'
    BY <1>1 DEF IndexPrefixClosed, contains
<1> QED BY <1>4, <1>5, <1>6

\* What counts as saved is covered, as long as opening a file does not fail
\* while one is available.
THEOREM SaveCorrect ==
    ASSUME ~OpenMayFail
    PROVE  Spec => []SaveInv
<1>1. Init => SaveInv
  <2> SUFFICES ASSUME Init PROVE SaveInv
      OBVIOUS
  <2>1. IndexPrefixClosed
    <3>1. ASSUME NEW r \in Requests, NEW n \in 1 .. Len(Tokens[r]) PROVE ~contains(Key(r, n))
      <4>1. Len(Tokens[r]) \in Nat
          BY TokensAssumption
      <4>2. n \in 0 .. Len(Tokens[r])
          BY <4>1
      <4>3. Key(r, n) \in Keys
          BY <4>2, KeyType
      <4> QED BY <4>3 DEF Init, WorkerInit, contains
    <3> QED BY <3>1 DEF IndexPrefixClosed
  <2>2. TrackersCovered /\ StepsCovered /\ SavesResolved
      BY DEF Init, SchedInit, WorkerInit, TrackersCovered, StepsCovered, SavesResolved
  <2> QED BY <2>1, <2>2 DEF SaveInv
<1>2. SchedInv /\ WorkerInv /\ SpecsPromised /\ SaveInv /\ [Next]_vars => SaveInv'
    BY SaveCases, SaveFrame, SaveSend, SaveBegin, SavePrepare, SaveSkip, SaveStore, SaveEnd
<1> QED BY <1>1, <1>2, SchedCorrect, WorkerCorrect, SpecsPromisedTheorem, PTL DEF Spec

\* The index holds every chunk before a chunk it holds, whatever the order in
\* which requests store, as long as opening a file does not fail while one is
\* available.
THEOREM IndexPrefixClosedTheorem ==
    ASSUME ~OpenMayFail
    PROVE  Spec => []IndexPrefixClosed
<1>1. SaveInv => IndexPrefixClosed
    BY DEF SaveInv
<1> QED BY <1>1, SaveCorrect, PTL

\* No chunk the scheduler counts as saved is forgotten: it is indexed, or
\* metadata under way stores it, or the files have run out.
THEOREM SavedIsIndexedTheorem ==
    ASSUME ~OpenMayFail
    PROVE  Spec => []SavedIsIndexed
<1>1. WorkerInv /\ SaveInv => SavedIsIndexed
  <2> SUFFICES ASSUME WorkerInv, SaveInv, NEW r \in Requests, trackers[r] # NoTracker,
                      NEW e \in FullEnds(trackers[r].saved)
               PROVE  \/ contains(Key(r, e)) \/ free = {} \/ WorkerWillStore(r, e)
                      \/ \E p \in DOMAIN inflight : \E q \in inflight[p].requests : WillStore(q, r, e)
      BY DEF SavedIsIndexed
  <2>1. Covered(r, e, Len(inflight))
      BY DEF SaveInv, TrackersCovered
  <2>2. DOMAIN inflight = 1 .. Len(inflight)
      BY DEF WorkerInv, PrepTypes
  <2> QED BY <2>1, <2>2 DEF Covered, Resolved
<1> QED BY <1>1, SaveCorrect, WorkerCorrect, PTL

-----------------------------------------------------------------------------
(* Blocks and chunks of the same size *)

\* A multiple is divided without a rest.
LEMMA ModMultiple ==
    ASSUME NEW k \in Nat, NEW b \in Nat \ {0}
    PROVE  (k * b) % b = 0
<1>1. PICK n \in Nat : n = k * b
    OBVIOUS
<1>2. n % b = 0
    BY <1>1
<1> QED BY <1>1, <1>2

\* An aligned number is the multiple division finds.
LEMMA AlignedIs ==
    ASSUME NEW n \in Nat, NEW b \in Nat \ {0}, n % b = 0
    PROVE  (n \div b) * b = n
<1>1. n % b = n - (n \div b) * b
    OBVIOUS
<1>2. (n \div b) * b \in Nat
    BY DivNat
<1> QED BY <1>1, <1>2

\* An aligned number up to m is no later than the last multiple up to m.
LEMMA AlignedBelow ==
    ASSUME NEW n \in Nat, NEW m \in Nat, NEW b \in Nat \ {0}, n % b = 0, n <= m
    PROVE  n <= (m \div b) * b
<1>1. PICK d \in Nat : d = n \div b /\ d * b = n
    BY AlignedIs, DivNat
<1>2. d <= m \div b
    BY <1>1, DivLast
<1>3. m \div b \in Nat
    BY DivNat
<1> QED BY <1>1, <1>2, <1>3, MulMono

\* Floor rounds down to a block boundary.
LEMMA FloorAligned ==
    ASSUME NEW n \in Nat
    PROVE  Floor(n) \in Nat /\ Floor(n) <= n /\ Floor(n) % BlockSize = 0
<1>1. n \div BlockSize \in Nat /\ BlockSize \in Nat \ {0}
    BY SchedulerAssumption, DivNat
<1>2. Floor(n) = (n \div BlockSize) * BlockSize
    BY DEF Floor
<1>3. Floor(n) \in Nat /\ Floor(n) <= n
    BY <1>1, <1>2, DivNat
<1>4. Floor(n) % BlockSize = 0
    BY <1>1, <1>2, ModMultiple
<1> QED BY <1>3, <1>4

\* Block boundaries are chunk boundaries when chunks fill a block exactly.
LEMMA BlockMaskAligned ==
    ASSUME BlockSize % ChunkSize = 0, NEW n \in Nat, n % BlockSize = 0
    PROVE  ~MaskRaises(n)
<1>1. PICK b \in Nat \ {0}, c \in Nat \ {0} : b = BlockSize /\ c = ChunkSize
    BY SchedulerAssumption, ChunkAssumption
<1>2. PICK i \in Nat : i = n \div b /\ i * b = n
    BY <1>1, AlignedIs, DivNat
<1>3. PICK j \in Nat : j = b \div c /\ j * c = b
    BY <1>1, AlignedIs, DivNat
<1>4. PICK k \in Nat : k = i * j
    OBVIOUS
<1>5. k * c = n
    BY <1>2, <1>3, <1>4
<1>6. n % c = 0
    BY <1>5, ModMultiple
<1> QED BY <1>1, <1>6 DEF MaskRaises

\* The blocks that hold some tokens are enough for their chunks, if chunks are
\* no smaller than blocks.
LEMMA ChunksFit ==
    ASSUME BlockSize <= ChunkSize, NEW n \in Nat, NEW have \in Nat, Holds(have, n)
    PROVE  NumChunks(n) <= have
<1>1. PICK b \in Nat \ {0}, a \in Nat \ {0} : b = ChunkSize /\ a = BlockSize /\ a <= b
    BY SchedulerAssumption, ChunkAssumption
<1>2. PICK d \in Nat : d = NumChunks(n)
    BY NumChunksNat
<1>3. n + b - 1 \in Nat /\ n <= have * b /\ have * b \in Nat
  <2>1. n <= have * a
      BY <1>1 DEF Holds
  <2>2. a * have <= b * have
      BY <1>1, MulMono
  <2>3. have * a = a * have /\ have * b = b * have /\ have * a \in Nat /\ have * b \in Nat
      OBVIOUS
  <2> QED BY <1>1, <2>1, <2>2, <2>3
<1>4. d * b <= n + b - 1
  <2>1. d = (n + b - 1) \div b \/ d = n \div b
      BY <1>1, <1>2 DEF NumChunks
  <2>2. ((n + b - 1) \div b) * b <= n + b - 1 /\ (n \div b) * b <= n /\ (n \div b) * b \in Nat
      BY <1>1, <1>3, DivNat
  <2>3. n <= n + b - 1
      BY <1>1
  <2> QED BY <1>1, <2>1, <2>2, <2>3
<1>5. CASE d <= have
    BY <1>2, <1>5
<1>6. CASE have < d
  <2>1. have + 1 <= d /\ have + 1 \in Nat
      BY <1>6
  <2>2. (have + 1) * b <= d * b /\ (have + 1) * b = have * b + b /\ d * b \in Nat
      BY <1>1, <2>1, MulMono
  <2> QED BY <1>1, <1>3, <1>4, <2>2
<1> QED BY <1>5, <1>6

\* Fewer tokens have no more chunks.
LEMMA ChunksMono ==
    ASSUME NEW n \in Nat, NEW m \in Nat, n <= m
    PROVE  NumChunks(n) <= NumChunks(m)
<1>1. PICK b \in Nat \ {0} : b = ChunkSize
    BY ChunkAssumption
<1>2. ASSUME NEW x \in Nat, NEW y \in Nat, x <= y PROVE x \div b <= y \div b
  <2>1. PICK d \in Nat : d = x \div b
      BY DivNat
  <2>2. d * b <= x /\ d * b \in Nat
      BY <2>1, DivNat
  <2>3. d * b <= y
      BY <1>2, <2>2
  <2> QED BY <2>1, <2>3, DivLast
<1>3. n + b - 1 \in Nat /\ m + b - 1 \in Nat /\ n + b - 1 <= m + b - 1
    BY <1>1
<1> QED BY <1>1, <1>2, <1>3 DEF NumChunks

\* The fresh blocks are as many as were missing, and enough.
LEMMA FreshHolds ==
    ASSUME NEW have \in Nat, NEW tokens \in Nat, NEW s \in FreshBlocks(Missing(have, tokens))
    PROVE  /\ s \in Seq(Blocks) /\ Len(s) \in Nat
           /\ Holds(have + Len(s), tokens)
<1>1. PICK k \in Nat : k = Missing(have, tokens)
    BY MissingNat
<1>2. s \in Seq(Blocks) /\ Len(s) = k
  <2>1. s \in Seq(Blocks)
      BY <1>1, FreshSeq
  <2>2. s \in [1 .. k -> FreeBlocks]
      BY <1>1 DEF FreshBlocks
  <2>3. DOMAIN s = 1 .. k /\ DOMAIN s = 1 .. Len(s) /\ Len(s) \in Nat
      BY <2>1, <2>2
  <2> QED BY <1>1, <2>1, <2>3
<1>3. PICK b \in Nat \ {0} : b = BlockSize
    BY SchedulerAssumption
<1>4. PICK need \in Nat : need = (tokens + b - 1) \div b
    BY <1>3, DivNat
<1>5. tokens <= need * b
  <2>1. tokens + b - 1 \in Nat
      BY <1>3
  <2>2. CASE tokens > need * b
    <3>1. (need + 1) * b = need * b + b /\ need * b \in Nat
        OBVIOUS
    <3>2. (need + 1) * b <= tokens + b - 1
        BY <2>2, <3>1
    <3>3. need + 1 <= (tokens + b - 1) \div b
        BY <2>1, <3>2, DivLast
    <3> QED BY <1>4, <3>3
  <2>3. need * b \in Nat
      OBVIOUS
  <2> QED BY <2>2, <2>3
<1>6. need <= have + k /\ have + k \in Nat
    BY <1>1, <1>3, <1>4 DEF Missing
<1>7. need * b <= (have + k) * b /\ need * b \in Nat /\ (have + k) * b \in Nat
    BY <1>6, MulMono
<1>8. tokens <= (have + k) * b
    BY <1>5, <1>7
<1> QED BY <1>2, <1>3, <1>8 DEF Holds

-----------------------------------------------------------------------------
(* A request's own blocks are the last ones of its tracker *)

\* What the round has given a request, as its tracker will have it.
RoundTail(x) ==
    /\ x.kind # "running" => blocks[x.req] = x.new_blocks
    /\ x.kind = "running" => IsTail(blocks[x.req], trackers[x.req].blocks \o x.new_blocks)

\* A request that runs, outside the round, has its blocks last in its tracker.
RequestTail(r) ==
    status[r] = "running" /\ r \notin InRound => IsTail(blocks[r], trackers[r].blocks)

TailInv ==
    /\ \A r \in Requests : RequestTail(r)
    /\ \A x \in round : RoundTail(x)

LEMMA TailAppend ==
    ASSUME NEW s \in Seq(Blocks), NEW t \in Seq(Blocks), NEW u \in Seq(Blocks), IsTail(s, t)
    PROVE  IsTail(s \o u, t \o u)
<1>1. /\ Len(s \o u) = Len(s) + Len(u) /\ Len(t \o u) = Len(t) + Len(u)
      /\ Len(s) \in Nat /\ Len(t) \in Nat /\ Len(u) \in Nat /\ Len(s) <= Len(t)
    BY DEF IsTail
<1>2. PICK d \in Nat : d = Len(t) - Len(s)
    BY <1>1
<1>3. ASSUME NEW i \in 1 .. Len(s) + Len(u) PROVE (s \o u)[i] = (t \o u)[d + i]
  <2>1. CASE i <= Len(s)
    <3>1. i \in 1 .. Len(s) /\ d + i \in 1 .. Len(t) /\ Len(t) - Len(s) + i = d + i
        BY <1>1, <1>2, <2>1
    <3>2. s[i] = t[d + i]
        BY <3>1 DEF IsTail
    <3>3. (s \o u)[i] = s[i] /\ (t \o u)[d + i] = t[d + i]
        BY <1>1, <3>1
    <3> QED BY <3>2, <3>3
  <2>2. CASE i > Len(s)
    <3>1. i \in 1 .. Len(s \o u) /\ d + i \in 1 .. Len(t \o u) /\ d + i > Len(t)
          /\ i - Len(s) = d + i - Len(t)
        BY <1>1, <1>2, <2>2
    <3>2. (s \o u)[i] = u[i - Len(s)] /\ (t \o u)[d + i] = u[d + i - Len(t)]
        BY <1>1, <2>2, <3>1
    <3> QED BY <3>1, <3>2
  <2>3. i <= Len(s) \/ i > Len(s)
    <3>1. i \in Int /\ Len(s) \in Int
        BY <1>1
    <3> QED BY <3>1
  <2> QED BY <2>1, <2>2, <2>3
<1>4. Len(t \o u) - Len(s \o u) = d /\ Len(s \o u) <= Len(t \o u)
    BY <1>1, <1>2
<1> QED BY <1>1, <1>3, <1>4 DEF IsTail

LEMMA TailOfAppend ==
    ASSUME NEW s \in Seq(Blocks), NEW t \in Seq(Blocks)
    PROVE  IsTail(s, s) /\ IsTail(s, t \o s)
<1>1. /\ Len(t \o s) = Len(t) + Len(s) /\ Len(s) \in Nat /\ Len(t) \in Nat
    OBVIOUS
<1>2. ASSUME NEW i \in 1 .. Len(s) PROVE (t \o s)[Len(t) + i] = s[i]
    BY <1>1
<1>3. Len(t \o s) - Len(s) = Len(t) /\ Len(s) <= Len(t \o s) /\ Len(s) - Len(s) = 0
    BY <1>1
<1>4. \A i \in 1 .. Len(s) : 0 + i = i
    BY <1>1
<1> QED BY <1>1, <1>2, <1>3, <1>4 DEF IsTail

\* Nothing changes for the requests outside fin, and those do not run.
LEMMA TailEnds ==
    ASSUME TailInv, NEW fin, UNCHANGED <<round, trackers>>,
           \A x \in round : x.req \in Requests \ fin,
           \A r \in Requests \cap fin : status'[r] # "running",
           \A r \in Requests \ fin : status'[r] = status[r] /\ blocks'[r] = blocks[r]
    PROVE  TailInv'
<1>1. InRound' = InRound
    BY DEF InRound
<1>2. ASSUME NEW r \in Requests PROVE RequestTail(r)'
    BY <1>1 DEF TailInv, RequestTail
<1>3. ASSUME NEW x \in round PROVE RoundTail(x)'
    BY DEF TailInv, RoundTail
<1> QED BY <1>2, <1>3 DEF TailInv

\* Request r enters the round with x.
LEMMA TailEnters ==
    ASSUME SchedInv, TailInv, NEW r \in Requests, NEW x, x.req = r, r \notin InRound,
           round' = round \union {x}, trackers' = trackers,
           \A s \in Requests \ {r} : status'[s] = status[s] /\ blocks'[s] = blocks[s],
           RoundTail(x)'
    PROVE  TailInv'
<1>1. InRound' = InRound \union {r}
    BY DEF InRound
<1>2. ASSUME NEW s \in Requests PROVE RequestTail(s)'
    BY <1>1 DEF TailInv, RequestTail
<1>3. ASSUME NEW y \in round PROVE RoundTail(y)'
  <2>1. y.req \in Requests \ {r}
      BY DEF InRound, SchedInv, SchedTypes, Scheduled
  <2> QED BY <2>1 DEF TailInv, RoundTail
<1> QED BY <1>2, <1>3 DEF TailInv

LEMMA TailRunning ==
    ASSUME SchedInv, TailInv, NEW r \in Requests, NEW n, ScheduleRunning(r, n)
    PROVE  TailInv'
<1>1. /\ status[r] = "running" /\ r \notin InRound
      /\ UNCHANGED <<status, trackers>>
    BY DEF ScheduleRunning, connVars
<1>2. PICK fresh \in FreshBlocks(Missing(Len(blocks[r]), num_computed[r] + n)) :
         /\ blocks' = [blocks EXCEPT ![r] = @ \o fresh]
         /\ round' = round \union
               {[req |-> r, start |-> num_computed[r], n |-> n, ext |-> 0,
                 new_blocks |-> fresh, kind |-> "running"]}
    BY DEF ScheduleRunning
<1>3. PICK x : x = [req |-> r, start |-> num_computed[r], n |-> n, ext |-> 0,
                    new_blocks |-> fresh, kind |-> "running"]
    OBVIOUS
<1>4. x.req = r /\ x.new_blocks = fresh /\ x.kind = "running" /\ round' = round \union {x}
    BY <1>2, <1>3
<1>5. blocks \in [Requests -> Seq(Blocks)] /\ trackers[r] \in Tracker /\ trackers[r].blocks \in Seq(Blocks)
  <2>1. trackers[r] # NoTracker
      BY <1>1 DEF SchedInv, TrackInv
  <2>2. trackers[r] \in Tracker
      BY <2>1 DEF SchedInv, SchedTypes
  <2> QED BY <2>2 DEF SchedInv, SchedTypes, Tracker
<1>6. fresh \in Seq(Blocks)
  <2>1. n \in 1 .. num_tokens[r] - num_computed[r]
      BY DEF ScheduleRunning
  <2>2. num_computed[r] + n \in Nat /\ Len(blocks[r]) \in Nat
      BY <1>5, <2>1 DEF SchedInv, SchedTypes
  <2> QED BY <2>2, FreshHolds
<1>7. IsTail(blocks[r] \o fresh, trackers[r].blocks \o fresh)
    BY <1>1, <1>5, <1>6, TailAppend DEF TailInv, RequestTail
<1>8. /\ blocks'[r] = blocks[r] \o fresh
      /\ \A s \in Requests \ {r} : status'[s] = status[s] /\ blocks'[s] = blocks[s]
    BY <1>1, <1>2, <1>5
<1>9. RoundTail(x)'
    BY <1>1, <1>4, <1>7, <1>8 DEF RoundTail
<1> QED BY <1>1, <1>4, <1>8, <1>9, TailEnters

LEMMA TailAlloc ==
    ASSUME SchedInv, TailInv, NEW n, match # NoMatch, update_state_after_alloc(n)
    PROVE  TailInv'
<1>0. PICK r : r = match.req
    OBVIOUS
<1>1. r \in Requests /\ status[r] \in {"waiting", "preempted"}
    BY <1>0 DEF SchedInv, SchedTypes, TrackInv, Match
<1>2. /\ status' = [status EXCEPT ![r] = "running"] /\ trackers' = trackers
    BY <1>0 DEF update_state_after_alloc
<1>3. PICK bs : /\ blocks' = [blocks EXCEPT ![r] = bs]
                /\ round' = round \union
                     {[req |-> r, start |-> match.local + match.ext, n |-> n, ext |-> match.ext,
                       new_blocks |-> bs,
                       kind |-> IF status[r] = "waiting" THEN "new" ELSE "resumed"]}
    BY <1>0 DEF update_state_after_alloc
<1>4. PICK x : x = [req |-> r, start |-> match.local + match.ext, n |-> n, ext |-> match.ext,
                    new_blocks |-> bs,
                    kind |-> IF status[r] = "waiting" THEN "new" ELSE "resumed"]
    OBVIOUS
<1>5. x.req = r /\ x.new_blocks = bs /\ x.kind # "running" /\ round' = round \union {x}
    BY <1>3, <1>4
<1>6. blocks \in [Requests -> Seq(Blocks)] /\ status \in [Requests -> Statuses]
    BY DEF SchedInv, SchedTypes
<1>7. /\ blocks'[r] = bs
      /\ \A s \in Requests \ {r} : status'[s] = status[s] /\ blocks'[s] = blocks[s]
    BY <1>1, <1>2, <1>3, <1>6
<1>8. RoundTail(x)'
    BY <1>5, <1>7 DEF RoundTail
<1>9. r \notin InRound
    BY <1>1 DEF InRound, SchedInv, TrackInv
<1> QED BY <1>1, <1>2, <1>5, <1>7, <1>8, <1>9, TailEnters

LEMMA TailBuild ==
    ASSUME SchedInv, TailInv, build_connector_meta
    PROVE  TailInv'
<1> DEFINE X(r) == CHOOSE y \in round : y.req = r
<1>1. ASSUME NEW r \in Requests, r \in InRound
      PROVE  X(r) \in round /\ X(r).req = r
    BY <1>1 DEF InRound
<1>2. /\ trackers' = [r \in Requests |->
            IF r \in InRound THEN SavedTracker(TrackerOf(X(r)))
            ELSE IF r \in finished_req_ids THEN NoTracker ELSE trackers[r]]
      /\ round' = {} /\ UNCHANGED <<status, blocks>>
    BY DEF build_connector_meta
<1> HIDE DEF X
<1>3. ASSUME NEW r \in Requests, r \in InRound PROVE IsTail(blocks[r], trackers'[r].blocks)
  <2>1. PICK x \in round : x = X(r) /\ x.req = r
      BY <1>1, <1>3
  <2>2. trackers'[r] = SavedTracker(TrackerOf(x))
      BY <1>2, <1>3, <2>1
  <2>3. TrackerOf(x) \in Tracker
      BY TrackerOfType
  <2>4. trackers'[r].blocks = TrackerOf(x).blocks
      BY <2>2, <2>3 DEF SavedTracker, Tracker
  <2>5. RoundTail(x) /\ x.new_blocks \in Seq(Blocks) /\ x.kind \in {"new", "running", "resumed"}
      BY <2>1 DEF TailInv, SchedInv, SchedTypes, Scheduled
  <2>6. CASE x.kind = "new"
    <3>1. TrackerOf(x).blocks = x.new_blocks /\ blocks[r] = x.new_blocks
        BY <2>1, <2>5, <2>6 DEF TrackerOf, NewTracker, RoundTail
    <3> QED BY <2>4, <2>5, <3>1, TailOfAppend
  <2>7. ASSUME x.kind # "new" PROVE TrackerOf(x).blocks = trackers[r].blocks \o x.new_blocks
      BY <2>1, <2>7 DEF TrackerOf, UpdateTracker
  <2>8. ASSUME x.kind # "new" PROVE trackers[r].blocks \in Seq(Blocks)
    <3>1. trackers[r] # NoTracker
        BY <2>1, <2>8 DEF SchedInv, TrackInv
    <3>2. trackers[r] \in Tracker
        BY <3>1 DEF SchedInv, SchedTypes
    <3> QED BY <3>2 DEF Tracker
  <2>9. CASE x.kind = "resumed"
    <3>1. blocks[r] = x.new_blocks
        BY <2>1, <2>5, <2>9 DEF RoundTail
    <3> QED BY <2>4, <2>5, <2>7, <2>8, <2>9, <3>1, TailOfAppend
  <2>10. CASE x.kind = "running"
      BY <2>1, <2>4, <2>5, <2>7, <2>10 DEF RoundTail
  <2> QED BY <2>5, <2>6, <2>9, <2>10
<1>4. ASSUME NEW r \in Requests, r \notin InRound, status[r] = "running"
      PROVE  IsTail(blocks[r], trackers'[r].blocks)
  <2>1. r \notin finished_req_ids
      BY <1>4 DEF SchedInv, TrackInv
  <2>2. trackers'[r] = trackers[r]
      BY <1>2, <1>4, <2>1
  <2> QED BY <1>4, <2>2 DEF TailInv, RequestTail
<1>5. ASSUME NEW r \in Requests PROVE RequestTail(r)'
    BY <1>2, <1>3, <1>4 DEF RequestTail
<1> QED BY <1>2, <1>5 DEF TailInv

LEMMA TailNext == SchedInv /\ TailInv /\ [Next]_vars => TailInv'
<1> SUFFICES ASSUME SchedInv, TailInv, [Next]_vars PROVE TailInv'
    OBVIOUS
<1>0. /\ status \in [Requests -> Statuses] /\ blocks \in [Requests -> Seq(Blocks)]
      /\ \A x \in round : x.req \in Requests
    BY DEF SchedInv, SchedTypes, Scheduled
<1>1. ASSUME UNCHANGED <<status, blocks, round, trackers>> PROVE TailInv'
    BY <1>0, <1>1, TailEnds
<1>2. ASSUME UNCHANGED schedVars PROVE TailInv'
    BY <1>1, <1>2 DEF schedVars, vllmVars, roundVars, connVars
<1>3. ASSUME EndWaiting PROVE TailInv'
    BY <1>1, <1>3 DEF EndWaiting, AllocFails, vllmVars, connVars
<1>4. ASSUME NEW r \in Requests, Preempt(r) PROVE TailInv'
  <2>1. /\ r \notin InRound /\ status' = [status EXCEPT ![r] = "preempted"]
        /\ blocks' = [blocks EXCEPT ![r] = <<>>] /\ UNCHANGED <<round, trackers>>
      BY <1>4 DEF Preempt, connVars
  <2>2. \A x \in round : x.req \in Requests \ {r}
      BY <1>0, <2>1 DEF InRound
  <2>3. /\ \A s \in Requests \cap {r} : status'[s] # "running"
        /\ \A s \in Requests \ {r} : status'[s] = status[s] /\ blocks'[s] = blocks[s]
      BY <1>0, <2>1
  <2> QED BY <2>1, <2>2, <2>3, TailEnds
<1>5. ASSUME NEW r \in Requests, NEW hit, get_num_new_matched_tokens(r, hit) PROVE TailInv'
    BY <1>1, <1>5 DEF get_num_new_matched_tokens, vllmVars
<1>6. ASSUME NEW r \in Requests, SchedulerStep(r) PROVE TailInv'
    BY <1>4, <1>5, <1>6, TailRunning, TailAlloc DEF SchedulerStep
<1>7. ASSUME NEW r \in Requests, AbortRequest(r) PROVE TailInv'
  <2>1. /\ round = {} /\ status' = [status EXCEPT ![r] = "finished"]
        /\ blocks' = [blocks EXCEPT ![r] = <<>>] /\ UNCHANGED <<round, trackers>>
      BY <1>7 DEF AbortRequest, Abort, BetweenRounds, roundVars
  <2>2. /\ \A s \in Requests \cap {r} : status'[s] # "running"
        /\ \A s \in Requests \ {r} : status'[s] = status[s] /\ blocks'[s] = blocks[s]
      BY <1>0, <2>1
  <2> QED BY <2>1, <2>2, TailEnds
<1>8. ASSUME NEW fin \in SUBSET Requests, update_from_output(work, fin) PROVE TailInv'
  <2>1. /\ round = {}
        /\ status' = [r \in Requests |-> IF r \in fin THEN "finished" ELSE status[r]]
        /\ blocks' = [r \in Requests |-> IF r \in fin THEN <<>> ELSE blocks[r]]
        /\ UNCHANGED <<round, trackers>>
      BY <1>8 DEF update_from_output, BetweenRounds, roundVars
  <2>2. /\ \A s \in Requests \cap fin : status'[s] # "running"
        /\ \A s \in Requests \ fin : status'[s] = status[s] /\ blocks'[s] = blocks[s]
      BY <2>1
  <2> QED BY <2>1, <2>2, TailEnds
<1>9. ASSUME SendMeta PROVE TailInv'
    BY <1>9, TailBuild DEF SendMeta
<1>10. ASSUME EndStep PROVE TailInv'
    BY <1>8, <1>10 DEF EndStep
<1>11. ASSUME BeginStep \/ WorkerStep \/ UNCHANGED vars PROVE TailInv'
    BY <1>2, <1>11 DEF BeginStep, WorkerStep, vars
<1> QED BY <1>3, <1>6, <1>7, <1>9, <1>10, <1>11 DEF Next

\* The blocks vLLM has given a running request are the last ones of its tracker,
\* however often memory preempts it and whatever blocks it comes back with;
\* until the first preemption tracker and scheduler agree on tokens and blocks.
THEOREM TrackerFollowsSchedulerTheorem == Spec => []TrackerFollowsScheduler
<1>1. Init => TailInv
    BY DEF Init, SchedInit, TailInv, RequestTail
<1>2. FollowInv /\ TailInv => TrackerFollowsScheduler
    BY DEF FollowInv, TrackerFollows, TailInv, RequestTail, TrackerFollowsScheduler
<1> QED BY <1>1, <1>2, TailNext, SchedCorrect, FollowCorrect, PTL DEF Spec

\* The tokens get_num_new_matched_tokens reported as loadable, which vLLM
\* counts as computed, are in a load spec the worker receives when a request
\* runs for the first time, whatever happens to the other requests.
THEOREM FirstLoadSentTheorem == Spec => []FirstLoadSent
<1>1. SchedInv /\ FollowInv => FirstLoadSent
  <2> SUFFICES ASSUME SchedInv, FollowInv, NEW x \in round, x.ext > 0, num_preemptions[x.req] = 0
               PROVE  SpecOf(x) # NoSpec /\ SpecOf(x).can_load
      BY DEF FirstLoadSent
  <2>1. x \in Scheduled /\ x.req \in Requests
      BY DEF SchedInv, SchedTypes, Scheduled
  <2>2. RoundOK(x)
      BY DEF FollowInv, RoundFollows
  <2>3. x.kind = "new"
      BY <2>1, <2>2 DEF RoundOK, Scheduled
  <2> QED BY <2>2, <2>3 DEF RoundOK, SpecOf
<1> QED BY <1>1, SchedCorrect, FollowCorrect, PTL

-----------------------------------------------------------------------------
(* What the worker raises: the scheduler half *)

LEMMA ScheduledFrame ==
    ASSUME NEW x, blocks'[x.req] = blocks[x.req], trackers'[x.req] = trackers[x.req],
           load_specs'[x.req] = load_specs[x.req], ScheduledOK(x)
    PROVE  ScheduledOK(x)'
    BY DEF ScheduledOK

\* A tracker keeps its part while its request keeps its blocks or does not run
\* outside the round.
LEMMA TrackerFrame ==
    ASSUME NEW r \in Requests, TrackerOK(r), trackers'[r] = trackers[r],
           \/ status'[r] # "running"
           \/ r \in InRound'
           \/ /\ status[r] = "running" /\ r \notin InRound
              /\ blocks'[r] = blocks[r] /\ num_computed'[r] = num_computed[r]
    PROVE  TrackerOK(r)'
    BY DEF TrackerOK

LEMMA QuietRunning ==
    ASSUME SchedInv, QuietSched, NEW r \in Requests, NEW n, ScheduleRunning(r, n)
    PROVE  QuietSched'
<1> USE DEF QuietSched
<1>1. /\ status[r] = "running" /\ r \notin InRound
      /\ n \in 1 .. num_tokens[r] - num_computed[r]
      /\ UNCHANGED <<status, num_tokens, num_computed, num_preemptions, phase, match,
                     load_specs, trackers, requests_in_step, finished_req_ids>>
    BY DEF ScheduleRunning, connVars
<1>2. /\ num_computed[r] \in Nat /\ num_tokens[r] \in Nat /\ blocks \in [Requests -> Seq(Blocks)]
      /\ trackers \in [Requests -> Tracker \union {NoTracker}] /\ trackers[r] # NoTracker
    BY <1>1 DEF SchedInv, SchedTypes, TrackInv
<1>3. n \in Nat /\ num_computed[r] + n \in Nat
    BY <1>1, <1>2
<1>4. PICK fresh \in FreshBlocks(Missing(Len(blocks[r]), num_computed[r] + n)) :
         /\ blocks' = [blocks EXCEPT ![r] = @ \o fresh]
         /\ round' = round \union
               {[req |-> r, start |-> num_computed[r], n |-> n, ext |-> 0,
                 new_blocks |-> fresh, kind |-> "running"]}
    BY DEF ScheduleRunning
<1>5. PICK x : x = [req |-> r, start |-> num_computed[r], n |-> n, ext |-> 0,
                    new_blocks |-> fresh, kind |-> "running"]
    OBVIOUS
<1>6. /\ x.req = r /\ x.start = num_computed[r] /\ x.n = n
      /\ x.new_blocks = fresh /\ x.kind = "running"
    BY <1>5
<1>7. round' = round \union {x} /\ InRound' = InRound \union {r}
    BY <1>4, <1>5 DEF InRound
<1>8. PICK a \in Nat : a = Len(blocks[r])
    BY <1>2
<1>9. fresh \in Seq(Blocks) /\ Len(fresh) \in Nat /\ Holds(a + Len(fresh), num_computed[r] + n)
    BY <1>3, <1>4, <1>8, FreshHolds
<1>10. PICK f \in Nat : f = Len(fresh)
    BY <1>9
<1>11. blocks'[r] = blocks[r] \o fresh /\ Len(blocks'[r]) = a + f
    BY <1>2, <1>4, <1>8, <1>9, <1>10
<1>12. ScheduledOK(x)'
  <2>0. trackers[r].blocks \in Seq(Blocks)
      BY <1>2 DEF Tracker
  <2>1. PICK t \in Nat : t = Len(trackers[r].blocks)
      BY <2>0
  <2>2. PICK l \in Nat : l = trackers[r].len
      BY <1>2 DEF Tracker
  <2>3. PICK c \in Nat : c = num_computed[r]
      BY <1>2
  <2>4. PICK b \in Nat : b = BlockSize
      BY SchedulerAssumption
  <2>5. a * b - c <= t * b - l
      BY <1>1, <1>2, <1>8, <2>1, <2>2, <2>3, <2>4 DEF TrackerOK
  <2>6. (a + f) * b = a * b + f * b /\ (t + f) * b = t * b + f * b
        /\ a * b \in Nat /\ t * b \in Nat /\ f * b \in Nat
      OBVIOUS
  <2>7. (a + f) * b - c <= (t + f) * b - l
      BY <2>5, <2>6
  <2>8. Holds(Len(blocks'[r]), x.start + x.n)
      BY <1>6, <1>9, <1>10, <1>11
  <2> QED BY <1>1, <1>6, <1>10, <1>11, <2>1, <2>2, <2>3, <2>4, <2>7, <2>8 DEF ScheduledOK
<1>13. ASSUME NEW y \in round PROVE ScheduledOK(y)'
  <2>1. y.req # r /\ y.req \in Requests
      BY <1>1 DEF InRound, SchedInv, SchedTypes, Scheduled
  <2>2. blocks'[y.req] = blocks[y.req]
      BY <1>2, <1>4, <2>1
  <2> QED BY <1>1, <2>2, ScheduledFrame
<1>14. ASSUME NEW s \in Requests PROVE TrackerOK(s)'
  <2>1. CASE s \in InRound'
      BY <1>1, <2>1, TrackerFrame
  <2>2. CASE s \notin InRound'
    <3>1. s # r /\ s \notin InRound /\ blocks'[s] = blocks[s]
        BY <1>2, <1>4, <1>7, <2>2
    <3> QED BY <1>1, <3>1, TrackerFrame
  <2> QED BY <2>1, <2>2
<1>15. ASSUME NEW s \in Requests PROVE SpecOK(s)'
    BY <1>1 DEF SpecOK
<1>16. MatchCovers'
    BY <1>1 DEF MatchCovers
<1> QED BY <1>7, <1>12, <1>13, <1>14, <1>15, <1>16

LEMMA QuietPreempt ==
    ASSUME SchedInv, QuietSched, NEW r \in Requests, Preempt(r)
    PROVE  QuietSched'
<1> USE DEF QuietSched
<1>1. /\ status[r] = "running" /\ r \notin InRound
      /\ status' = [status EXCEPT ![r] = "preempted"]
      /\ num_computed' = [num_computed EXCEPT ![r] = 0]
      /\ blocks' = [blocks EXCEPT ![r] = <<>>]
      /\ UNCHANGED <<round, match, load_specs, trackers>>
    BY DEF Preempt, connVars
<1>2. /\ status \in [Requests -> Statuses] /\ num_computed \in [Requests -> Nat]
      /\ blocks \in [Requests -> Seq(Blocks)]
    BY DEF SchedInv, SchedTypes
<1>3. \A s \in Requests \ {r} :
         status'[s] = status[s] /\ num_computed'[s] = num_computed[s] /\ blocks'[s] = blocks[s]
    BY <1>1, <1>2
<1>4. status'[r] = "preempted" /\ InRound' = InRound
    BY <1>1, <1>2 DEF InRound
<1>5. ASSUME NEW s \in Requests PROVE TrackerOK(s)'
    BY <1>1, <1>3, <1>4, TrackerFrame
<1>6. ASSUME NEW y \in round PROVE ScheduledOK(y)'
  <2>1. y.req # r /\ y.req \in Requests
      BY <1>1 DEF InRound, SchedInv, SchedTypes, Scheduled
  <2> QED BY <1>1, <1>3, <2>1, ScheduledFrame
<1>7. \A s \in Requests : SpecOK(s)'
    BY <1>1 DEF SpecOK
<1>8. MatchCovers'
    BY <1>1 DEF MatchCovers
<1> QED BY <1>1, <1>5, <1>6, <1>7, <1>8

\* Steps between two rounds that end requests.
LEMMA QuietEnds ==
    ASSUME SchedInv, QuietSched, NEW fin, round = {}, match = NoMatch,
           UNCHANGED <<round, match, load_specs, trackers, num_computed>>,
           \A r \in Requests \cap fin : status'[r] # "running",
           \A r \in Requests \ fin : status'[r] = status[r] /\ blocks'[r] = blocks[r]
    PROVE  QuietSched'
<1> USE DEF QuietSched
<1>1. InRound' = InRound
    BY DEF InRound
<1>2. ASSUME NEW s \in Requests PROVE TrackerOK(s)'
    BY <1>1, TrackerFrame
<1>3. \A s \in Requests : SpecOK(s)'
    BY DEF SpecOK
<1>4. MatchCovers'
    BY DEF MatchCovers
<1> QED BY <1>2, <1>3, <1>4

\* A lookup finds at least what an earlier one found.
LEMMA LookupMonotone ==
    ASSUME NEW r \in Requests, NEW old, Promised(r, old), NEW hit, IsLookup(r, LookupLen(r), hit)
    PROVE  old \in Nat /\ hit \in Nat /\ old <= hit
<1>1. PICK n \in Nat : n = LookupLen(r)
    BY LookupLenType
<1>2. NumChunks(n) \in Nat
    BY NumChunksNat
<1>3. PICK i \in 0 .. NumChunks(n) :
         old = ChunkEnd(i, n) /\ \A j \in 1 .. i : contains(Key(r, ChunkEnd(j, n)))
    BY <1>1 DEF Promised
<1>4. PICK k \in 0 .. NumChunks(n) :
         /\ hit = ChunkEnd(k, n)
         /\ k < NumChunks(n) => ~contains(Key(r, ChunkEnd(k + 1, n)))
    BY <1>1 DEF IsLookup
<1>5. i \in Nat /\ k \in Nat /\ i <= NumChunks(n)
    BY <1>2
<1>6. i <= k
  <2>1. CASE k < i
    <3>1. k + 1 \in 1 .. i /\ k < NumChunks(n)
        BY <1>2, <1>5, <2>1
    <3> QED BY <1>3, <1>4, <3>1
  <2> QED BY <1>5, <2>1
<1>7. i * ChunkSize <= k * ChunkSize /\ i * ChunkSize \in Nat /\ k * ChunkSize \in Nat
    BY <1>5, <1>6, MulMono, ChunkAssumption
<1> QED BY <1>3, <1>4, <1>7 DEF ChunkEnd, Least

LEMMA QuietMatch ==
    ASSUME SchedInv, SpecsPromised, QuietSched, NEW r \in Requests,
           NEW hit, IsLookup(r, LookupLen(r), hit), get_num_new_matched_tokens(r, hit)
    PROVE  QuietSched'
<1> USE DEF QuietSched
<1>1. /\ status[r] \in {"waiting", "preempted"}
      /\ UNCHANGED <<status, num_tokens, num_computed, num_preemptions, blocks, block_hash,
                     round, trackers, requests_in_step, finished_req_ids>>
    BY DEF get_num_new_matched_tokens, vllmVars
<1>2. PICK h \in 0 .. num_tokens[r] : \E bs \in [1 .. h \div BlockSize -> Blocks] :
         /\ IsLocalHit(r, h, bs)
         /\ LET need == NeedToAllocate(r, hit, h)
                miss == need <= 0
            IN /\ load_specs' = IF miss THEN load_specs ELSE AddLoadSpec(r, h, hit)
               /\ match' = [req |-> r, local |-> h, blocks |-> bs,
                            ext |-> IF miss THEN 0 ELSE need]
    BY DEF get_num_new_matched_tokens
<1> DEFINE need == NeedToAllocate(r, hit, h)
           miss == need <= 0
<1>3. PICK bs \in [1 .. h \div BlockSize -> Blocks] :
         /\ IsLocalHit(r, h, bs)
         /\ load_specs' = IF miss THEN load_specs ELSE AddLoadSpec(r, h, hit)
         /\ match' = [req |-> r, local |-> h, blocks |-> bs,
                      ext |-> IF miss THEN 0 ELSE need]
    BY <1>2
<1>4. /\ h \in Nat /\ num_tokens[r] \in Nat /\ BlockSize \in Nat \ {0}
      /\ load_specs \in [Requests -> LoadSpec \union {NoSpec}]
    BY SchedulerAssumption DEF SchedInv, SchedTypes
<1>5. hit \in Nat
  <2>1. Promised(r, hit)
      BY DEF IsLookup, Promised
  <2> QED BY <2>1, LookupMonotone
<1>6. need \in Int /\ hit - h - 1 <= need /\ need <= hit - h
  <2>1. need = hit - h - (IF hit = num_tokens[r] THEN 1 ELSE 0)
      BY DEF NeedToAllocate
  <2> QED BY <1>4, <1>5, <2>1
<1>7. h % BlockSize = 0
    BY <1>3 DEF IsLocalHit
<1> HIDE DEF need
<1>8. /\ match'.req = r /\ match'.local = h /\ match'.blocks = bs
      /\ match'.ext = IF miss THEN 0 ELSE need
    BY <1>3
<1>9. Len(bs) * BlockSize = h
  <2>1. h \div BlockSize \in Nat
      BY <1>4, DivNat
  <2>2. Len(bs) = h \div BlockSize
      BY <2>1
  <2> QED BY <1>4, <1>7, <2>2, AlignedIs
<1>10. \A s \in Requests \ {r} : load_specs'[s] = load_specs[s]
    BY <1>3, <1>4 DEF AddLoadSpec
<1>11. CASE miss
  <2>1. load_specs' = load_specs /\ match'.ext = 0
      BY <1>3, <1>8, <1>11
  <2>2. ASSUME load_specs[r] # NoSpec PROVE load_specs[r].ext <= h + 0 + 1
    <3>2. hit <= h + 1
        BY <1>4, <1>5, <1>6, <1>11
    <3>3. Promised(r, load_specs[r].ext)
        BY <2>2 DEF SpecsPromised
    <3>4. load_specs[r].ext \in Nat /\ load_specs[r].ext <= hit
        BY <3>3, LookupMonotone
    <3> QED BY <1>4, <1>5, <3>2, <3>4
  <2>3. MatchCovers'
      BY <1>8, <1>9, <2>1, <2>2 DEF MatchCovers
  <2>4. \A s \in Requests : SpecOK(s)'
      BY <2>1 DEF SpecOK
  <2> QED BY <1>1, <2>1, <2>3, <2>4 DEF ScheduledOK, TrackerOK, InRound
<1>12. CASE ~miss
  <2>1. load_specs'[r] = [vllm |-> h, ext |-> hit, can_load |-> FALSE] /\ match'.ext = need
      BY <1>3, <1>4, <1>8, <1>12 DEF AddLoadSpec
  <2>2. load_specs'[r].vllm = h /\ load_specs'[r].ext = hit
      BY <2>1
  <2>3. h < hit /\ hit <= h + need + 1
      BY <1>4, <1>5, <1>6, <1>12
  <2>4. MatchCovers'
      BY <1>8, <1>9, <2>1, <2>2, <2>3 DEF MatchCovers
  <2>5. SpecOK(r)'
      BY <1>7, <2>2, <2>3 DEF SpecOK
  <2>6. \A s \in Requests : SpecOK(s)'
      BY <1>10, <2>5 DEF SpecOK
  <2>7. ASSUME NEW y \in round PROVE ScheduledOK(y)'
    <3>1. y.req # r /\ y.req \in Requests
        BY <1>1 DEF SchedInv, SchedTypes, TrackInv, Scheduled
    <3> QED BY <1>1, <1>10, <3>1, ScheduledFrame
  <2>8. \A s \in Requests : TrackerOK(s)'
      BY <1>1 DEF TrackerOK, InRound
  <2> QED BY <1>1, <2>4, <2>6, <2>7, <2>8
<1> QED BY <1>11, <1>12

LEMMA QuietAlloc ==
    ASSUME SchedInv, QuietSched, NEW n, match # NoMatch, update_state_after_alloc(n)
    PROVE  QuietSched'
<1> USE DEF QuietSched
<1>0. PICK r : r = match.req
    OBVIOUS
<1>1. PICK computed : computed = match.local + match.ext
    OBVIOUS
<1>2. /\ r \in Requests /\ computed \in Nat /\ match.ext \in Nat /\ match.local \in Nat
      /\ match.blocks \in Seq(Blocks)
    BY <1>0, <1>1 DEF SchedInv, SchedTypes, Match
<1>3. /\ n \in 1 .. num_tokens[r] - computed
      /\ load_specs' = [load_specs EXCEPT ![r] = SpecAfterAlloc(@, match.ext)]
      /\ status' = [status EXCEPT ![r] = "running"]
      /\ num_computed' = [num_computed EXCEPT ![r] = computed]
      /\ match' = NoMatch
      /\ UNCHANGED <<num_tokens, num_preemptions, phase, trackers, finished_req_ids>>
    BY <1>0, <1>1 DEF update_state_after_alloc
<1>4. PICK fresh \in FreshBlocks(Missing(Len(match.blocks), computed + n)) :
         /\ blocks' = [blocks EXCEPT ![r] = match.blocks \o fresh]
         /\ round' = round \union
              {[req |-> r, start |-> computed, n |-> n, ext |-> match.ext,
                new_blocks |-> match.blocks \o fresh,
                kind |-> IF status[r] = "waiting" THEN "new" ELSE "resumed"]}
    BY <1>0, <1>1 DEF update_state_after_alloc
<1>5. PICK bs : bs = match.blocks \o fresh
    OBVIOUS
<1>6. PICK x : x = [req |-> r, start |-> computed, n |-> n, ext |-> match.ext, new_blocks |-> bs,
                    kind |-> IF status[r] = "waiting" THEN "new" ELSE "resumed"]
    OBVIOUS
<1>7. /\ x.req = r /\ x.start = computed /\ x.n = n /\ x.new_blocks = bs /\ x.kind # "running"
    BY <1>6
<1>8. round' = round \union {x} /\ InRound' = InRound \union {r}
  <2>1. round' = round \union {x}
      BY <1>4, <1>5, <1>6
  <2> QED BY <1>7, <2>1 DEF InRound
<1>9. /\ num_tokens[r] \in Nat /\ blocks \in [Requests -> Seq(Blocks)]
      /\ load_specs \in [Requests -> LoadSpec \union {NoSpec}]
      /\ status \in [Requests -> Statuses] /\ num_computed \in [Requests -> Nat]
      /\ status[r] \in {"waiting", "preempted"}
    BY <1>0, <1>2 DEF SchedInv, SchedTypes, TrackInv
<1>10. n \in Nat /\ n >= 1 /\ computed + n \in Nat
    BY <1>2, <1>3, <1>9
<1>11. \A s \in Requests \ {r} :
         /\ status'[s] = status[s] /\ num_computed'[s] = num_computed[s]
         /\ blocks'[s] = blocks[s] /\ load_specs'[s] = load_specs[s]
    BY <1>3, <1>4, <1>9
<1>12. blocks'[r] = bs /\ load_specs'[r] = SpecAfterAlloc(load_specs[r], match.ext)
    BY <1>2, <1>3, <1>4, <1>5, <1>9
<1>13. Holds(Len(bs), computed + n)
  <2>1. PICK a \in Nat : a = Len(match.blocks)
      BY <1>2
  <2>2. fresh \in Seq(Blocks) /\ Len(fresh) \in Nat /\ Holds(a + Len(fresh), computed + n)
      BY <1>4, <1>10, <2>1, FreshHolds
  <2>3. Len(bs) = a + Len(fresh)
      BY <1>2, <1>5, <2>1, <2>2
  <2> QED BY <2>2, <2>3
<1>14. load_specs'[r] # NoSpec =>
          /\ load_specs[r] # NoSpec
          /\ load_specs'[r].ext = load_specs[r].ext /\ load_specs'[r].vllm = load_specs[r].vllm
          /\ load_specs[r].ext \in Nat
  <2>1. CASE load_specs[r] = NoSpec
      BY <1>12, <2>1 DEF SpecAfterAlloc
  <2>2. CASE load_specs[r] # NoSpec
    <3>1. PICK sp \in LoadSpec : sp = load_specs[r]
        BY <1>2, <1>9, <2>2
    <3>2. load_specs'[r] = [sp EXCEPT !.can_load = (match.ext # 0)]
        BY <1>12, <2>2, <3>1 DEF SpecAfterAlloc
    <3>3. load_specs'[r].ext = sp.ext /\ load_specs'[r].vllm = sp.vllm /\ sp.ext \in Nat
        BY <3>1, <3>2 DEF LoadSpec
    <3> QED BY <2>2, <3>1, <3>3
  <2> QED BY <2>1, <2>2
<1>15. SpecOK(r)'
  <2>1. SpecOK(r)
      BY <1>2
  <2> QED BY <1>14, <2>1 DEF SpecOK
<1>16. \A s \in Requests : SpecOK(s)'
    BY <1>11, <1>15 DEF SpecOK
<1>17. ScheduledOK(x)'
  <2>1. ASSUME load_specs'[r] # NoSpec PROVE load_specs'[r].ext <= computed + n
    <3>1. load_specs[r].ext <= match.local + match.ext + 1 /\ load_specs[r].ext \in Nat
        BY <1>0, <1>14, <2>1 DEF MatchCovers
    <3> QED BY <1>1, <1>2, <1>10, <1>14, <2>1, <3>1
  <2> QED BY <1>7, <1>12, <1>13, <2>1 DEF ScheduledOK
<1>18. ASSUME NEW y \in round PROVE ScheduledOK(y)'
  <2>1. y.req # r /\ y.req \in Requests
      BY <1>9 DEF SchedInv, SchedTypes, TrackInv, Scheduled
  <2>2. load_specs'[y.req] = load_specs[y.req] /\ blocks'[y.req] = blocks[y.req]
      BY <1>11, <2>1
  <2> QED BY <1>3, <2>2, ScheduledFrame
<1>19. ASSUME NEW s \in Requests PROVE TrackerOK(s)'
  <2>1. CASE s \in InRound'
      BY <1>3, <2>1, TrackerFrame
  <2>2. CASE s \notin InRound'
    <3>1. s # r /\ s \notin InRound
        BY <1>8, <2>2
    <3> QED BY <1>3, <1>11, <3>1, TrackerFrame
  <2> QED BY <2>1, <2>2
<1>20. MatchCovers'
    BY <1>3 DEF MatchCovers
<1> QED BY <1>8, <1>16, <1>17, <1>18, <1>19, <1>20

\* What a load spec promises lies within the prompt.
LEMMA PromisedBound ==
    ASSUME NEW r \in Requests, NEW h, Promised(r, h)
    PROVE  h \in Nat /\ h <= PromptLen[r]
<1>1. PICK n \in Nat : n = LookupLen(r)
    BY LookupLenType
<1>2. PromptLen[r] \in Nat /\ n <= PromptLen[r]
    BY <1>1, SchedulerAssumption DEF LookupLen
<1>3. PICK i \in 0 .. NumChunks(n) : h = ChunkEnd(i, n)
    BY <1>1 DEF Promised
<1>4. i \in Nat /\ i * ChunkSize \in Nat
    BY NumChunksNat, ChunkAssumption
<1> QED BY <1>2, <1>3, <1>4 DEF ChunkEnd, Least

\* The tracker of a scheduled request when the round is closed.
LEMMA RoundTracker ==
    ASSUME SchedInv, SpecsPromised, QuietSched, NEW x \in round
    PROVE  /\ TrackerOf(x).saved <= TrackerOf(x).len
           /\ Holds(Len(TrackerOf(x).blocks), TrackerOf(x).len)
           /\ Holds(Len(blocks[x.req]), x.start + x.n)
           /\ Len(blocks[x.req]) * BlockSize - (x.start + x.n)
                <= Len(TrackerOf(x).blocks) * BlockSize - TrackerOf(x).len
           /\ SpecOf(x) # NoSpec => SpecOf(x).ext <= TrackerOf(x).len
<1>1. PICK r \in Requests : r = x.req
    BY DEF SchedInv, SchedTypes, Scheduled
<1>2. PICK s \in Nat : s = x.start
    BY DEF SchedInv, SchedTypes, Scheduled
<1>3. PICK n \in Nat : n = x.n
    BY DEF SchedInv, SchedTypes, Scheduled
<1>4. PICK b \in Nat : b = BlockSize
    BY SchedulerAssumption
<1>5. x.new_blocks \in Seq(Blocks) /\ blocks[r] \in Seq(Blocks) /\ x.kind \in {"new", "running", "resumed"}
    BY DEF SchedInv, SchedTypes, Scheduled
<1>6. PICK a \in Nat : a = Len(blocks[r])
    BY <1>5
<1>7. PICK f \in Nat : f = Len(x.new_blocks)
    BY <1>5
<1>8. ScheduledOK(x)
    BY DEF QuietSched
<1>9. s + n <= a * b /\ a * b \in Nat /\ f * b \in Nat
    BY <1>1, <1>2, <1>3, <1>4, <1>6, <1>8 DEF ScheduledOK, Holds
<1>10. Holds(Len(blocks[x.req]), x.start + x.n)
    BY <1>8 DEF ScheduledOK
<1>11. CASE x.kind = "new"
  <2>1. PICK t : t = TrackerOf(x)
      OBVIOUS
  <2>2. PICK p \in Nat : p = PromptLen[r]
      BY SchedulerAssumption
  <2>3. /\ t.len = Least(p, s + n) /\ t.blocks = x.new_blocks
        /\ t.saved = IF load_specs[r] = NoSpec THEN 0 ELSE load_specs[r].ext
      BY <1>1, <1>2, <1>3, <1>11, <2>1, <2>2 DEF TrackerOf, NewTracker, SpecOf
  <2>4. PICK l \in Nat : l = t.len /\ l <= s + n /\ (l = p \/ l = s + n)
      BY <2>3 DEF Least
  <2>5. Len(t.blocks) = a
      BY <1>1, <1>6, <1>8, <1>11, <2>3 DEF ScheduledOK
  <2>6. ASSUME load_specs[r] # NoSpec PROVE load_specs[r].ext <= l
    <3>1. load_specs[r].ext <= s + n
        BY <1>1, <1>2, <1>3, <1>8, <1>11, <2>6 DEF ScheduledOK
    <3>2. load_specs[r].ext \in Nat /\ load_specs[r].ext <= p
        BY <2>2, <2>6, PromisedBound DEF SpecsPromised
    <3> QED BY <2>4, <3>1, <3>2
  <2>7. t.saved <= l
      BY <2>3, <2>4, <2>6
  <2>8. l <= a * b /\ a * b - (s + n) <= a * b - l
      BY <1>9, <2>4
  <2>9. SpecOf(x) # NoSpec => SpecOf(x).ext <= l
      BY <1>1, <1>11, <2>6 DEF SpecOf
  <2> QED BY <1>1, <1>2, <1>3, <1>4, <1>6, <1>10, <2>1, <2>4, <2>5, <2>7, <2>8, <2>9 DEF Holds
<1>12. CASE x.kind # "new"
  <2>1. PICK u : u = trackers[r]
      OBVIOUS
  <2>2. /\ u \in Tracker /\ u # NoTracker /\ u.len <= num_tokens[r]
      BY <1>1, <1>12, <2>1 DEF SchedInv, SchedTypes, TrackInv
  <2>3. u.blocks \in Seq(Blocks) /\ u.saved \in Nat
      BY <2>2 DEF Tracker
  <2>4. PICK l \in Nat : l = u.len
      BY <2>2 DEF Tracker
  <2>5. PICK c \in Nat : c = Len(u.blocks)
      BY <2>3
  <2>6. u.saved <= l /\ l <= c * b /\ c * b \in Nat
      BY <1>4, <2>1, <2>2, <2>4, <2>5 DEF QuietSched, TrackerOK, Holds
  <2>7. PICK t : t = TrackerOf(x)
      OBVIOUS
  <2>8. PICK nt \in Nat : nt = num_tokens[r]
      BY DEF SchedInv, SchedTypes
  <2>9. /\ t.len = Least(nt, l + n) /\ t.blocks = u.blocks \o x.new_blocks /\ t.saved = u.saved
      BY <1>1, <1>3, <1>12, <2>1, <2>4, <2>7, <2>8 DEF TrackerOf, UpdateTracker
  <2>10. PICK m \in Nat : m = t.len /\ m <= l + n /\ l <= m
      BY <2>2, <2>4, <2>8, <2>9 DEF Least
  <2>11. Len(t.blocks) = c + f
      BY <1>5, <1>7, <2>3, <2>5, <2>9
  <2>12. (c + f) * b = c * b + f * b
      OBVIOUS
  <2>13. a * b - s <= (c + f) * b - l
    <3>1. CASE x.kind = "running"
        BY <1>1, <1>2, <1>4, <1>6, <1>7, <1>8, <2>1, <2>4, <2>5, <3>1 DEF ScheduledOK
    <3>2. CASE x.kind = "resumed"
      <4>1. a = f
          BY <1>1, <1>6, <1>7, <1>8, <3>2 DEF ScheduledOK
      <4> QED BY <1>9, <2>6, <2>12, <4>1
    <3> QED BY <1>5, <1>12, <3>1, <3>2
  <2>14. /\ m <= (c + f) * b
         /\ a * b - (s + n) <= (c + f) * b - m
      BY <1>9, <2>6, <2>10, <2>12, <2>13
  <2>15. SpecOf(x) = NoSpec /\ u.saved <= m
      BY <1>12, <2>3, <2>6, <2>10 DEF SpecOf
  <2> QED BY <1>1, <1>2, <1>3, <1>4, <1>6, <1>10, <2>7, <2>9, <2>10, <2>11, <2>14, <2>15 DEF Holds
<1> QED BY <1>11, <1>12

LEMMA QuietBuild ==
    ASSUME SchedInv, SpecsPromised, QuietSched, build_connector_meta
    PROVE  QuietSched'
<1> DEFINE X(r) == CHOOSE y \in round : y.req = r
<1>1. ASSUME NEW r \in Requests, r \in InRound
      PROVE  X(r) \in round /\ X(r).req = r
    BY <1>1 DEF InRound
<1>2. /\ trackers' = [r \in Requests |->
            IF r \in InRound THEN SavedTracker(TrackerOf(X(r)))
            ELSE IF r \in finished_req_ids THEN NoTracker ELSE trackers[r]]
      /\ load_specs' = [r \in Requests |->
            IF \E x \in round : x.req = r /\ x.kind = "new" THEN NoSpec ELSE load_specs[r]]
      /\ num_computed' = [r \in Requests |->
            IF r \in InRound THEN X(r).start + X(r).n ELSE num_computed[r]]
      /\ round' = {} /\ match' = NoMatch
      /\ UNCHANGED <<status, num_tokens, num_preemptions, blocks>>
    BY DEF build_connector_meta
<1> HIDE DEF X
<1>3. ASSUME NEW r \in Requests, r \in InRound PROVE TrackerOK(r)'
  <2>1. PICK x \in round : x = X(r) /\ x.req = r
      BY <1>1, <1>3
  <2>2. /\ trackers'[r] = SavedTracker(TrackerOf(x)) /\ num_computed'[r] = x.start + x.n
      BY <1>2, <1>3, <2>1
  <2>3. PICK t \in Tracker : t = TrackerOf(x)
      BY TrackerOfType
  <2>4. PICK u : u = SavedTracker(t)
      OBVIOUS
  <2>5. /\ u.len = t.len /\ u.blocks = t.blocks
        /\ u.saved \in {t.saved, NumTokensToSave(t)}
        /\ NumTokensToSave(t) <= t.len
      BY <2>4, SavedTrackerType DEF SavedTracker, Tracker
  <2>6. /\ t.saved <= t.len /\ Holds(Len(t.blocks), t.len)
        /\ Holds(Len(blocks[r]), x.start + x.n)
        /\ Len(blocks[r]) * BlockSize - (x.start + x.n) <= Len(t.blocks) * BlockSize - t.len
      BY <2>1, <2>3, RoundTracker
  <2>7. u.saved <= u.len
      BY <2>5, <2>6
  <2> QED BY <1>2, <2>2, <2>3, <2>4, <2>5, <2>6, <2>7 DEF TrackerOK
<1>4. ASSUME NEW r \in Requests, r \notin InRound PROVE TrackerOK(r)'
  <2>1. num_computed'[r] = num_computed[r] /\ trackers'[r] \in {NoTracker, trackers[r]}
      BY <1>2, <1>4
  <2>2. TrackerOK(r)
      BY DEF QuietSched
  <2> QED BY <1>2, <1>4, <2>1, <2>2 DEF TrackerOK
<1>5. ASSUME NEW r \in Requests PROVE SpecOK(r)'
  <2>1. load_specs'[r] \in {NoSpec, load_specs[r]} /\ SpecOK(r)
      BY <1>2 DEF QuietSched
  <2> QED BY <2>1 DEF SpecOK
<1>6. MatchCovers'
    BY <1>2 DEF MatchCovers
<1> QED BY <1>2, <1>3, <1>4, <1>5, <1>6 DEF QuietSched

LEMMA QuietSchedNext ==
    ASSUME SchedInv, SpecsPromised, QuietSched, [Next]_vars
    PROVE  QuietSched'
<1>1. ASSUME UNCHANGED schedVars PROVE QuietSched'
  <2>1. UNCHANGED <<status, num_computed, blocks, round, match, load_specs, trackers>>
      BY <1>1 DEF schedVars, vllmVars, roundVars, connVars
  <2> QED BY <2>1 DEF QuietSched, SpecOK, TrackerOK, MatchCovers, ScheduledOK, InRound
<1>2. ASSUME EndWaiting PROVE QuietSched'
  <2>1. match' = NoMatch /\ UNCHANGED <<status, num_computed, blocks, round, load_specs, trackers>>
      BY <1>2 DEF EndWaiting, AllocFails, vllmVars, connVars
  <2> QED BY <2>1 DEF QuietSched, SpecOK, TrackerOK, MatchCovers, ScheduledOK, InRound
<1>3. ASSUME NEW r \in Requests, SchedulerStep(r) PROVE QuietSched'
    BY <1>3, QuietRunning, QuietPreempt, QuietMatch, QuietAlloc DEF SchedulerStep
<1>4. ASSUME NEW r \in Requests, AbortRequest(r) PROVE QuietSched'
  <2>1. /\ round = {} /\ match = NoMatch
        /\ status' = [status EXCEPT ![r] = "finished"]
        /\ blocks' = [blocks EXCEPT ![r] = <<>>]
        /\ UNCHANGED <<num_computed, round, match, load_specs, trackers>>
      BY <1>4 DEF AbortRequest, Abort, BetweenRounds, roundVars
  <2>2. status \in [Requests -> Statuses] /\ blocks \in [Requests -> Seq(Blocks)]
      BY DEF SchedInv, SchedTypes
  <2>3. /\ \A s \in Requests \cap {r} : status'[s] # "running"
        /\ \A s \in Requests \ {r} : status'[s] = status[s] /\ blocks'[s] = blocks[s]
      BY <2>1, <2>2
  <2> QED BY <2>1, <2>3, QuietEnds
<1>5. ASSUME NEW fin \in SUBSET Requests, update_from_output(work, fin) PROVE QuietSched'
  <2>1. /\ round = {} /\ match = NoMatch
        /\ status' = [r \in Requests |-> IF r \in fin THEN "finished" ELSE status[r]]
        /\ blocks' = [r \in Requests |-> IF r \in fin THEN <<>> ELSE blocks[r]]
        /\ UNCHANGED <<num_computed, round, match, load_specs, trackers>>
      BY <1>5 DEF update_from_output, BetweenRounds, roundVars
  <2>2. /\ \A s \in Requests \cap fin : status'[s] # "running"
        /\ \A s \in Requests \ fin : status'[s] = status[s] /\ blocks'[s] = blocks[s]
      BY <2>1
  <2> QED BY <2>1, <2>2, QuietEnds
<1>6. ASSUME EndStep PROVE QuietSched'
    BY <1>5, <1>6 DEF EndStep
<1>7. ASSUME SendMeta PROVE QuietSched'
    BY <1>7, QuietBuild DEF SendMeta
<1>8. ASSUME BeginStep \/ WorkerStep \/ UNCHANGED vars PROVE QuietSched'
    BY <1>1, <1>8 DEF BeginStep, WorkerStep, vars
<1> QED BY <1>2, <1>3, <1>4, <1>6, <1>7, <1>8 DEF Next

-----------------------------------------------------------------------------
(* What the worker raises: the worker half *)

\* The metadata a round sends has a block for every chunk and aligned masks.
LEMMA RoundMetaOK ==
    ASSUME SchedInv, SpecsPromised, QuietSched, NEW x \in round
    PROVE  MetaOK(MetaOf(x.req, TrackerOf(x), SpecOf(x)))
<1>1. PICK t \in Tracker : t = TrackerOf(x)
    BY TrackerOfType
<1>2. PICK sp \in LoadSpec \union {NoSpec} : sp = SpecOf(x)
    BY TrackerOfType
<1>3. PICK q : q = MetaOf(x.req, t, sp)
    OBVIOUS
<1>4. /\ t.saved <= t.len /\ Holds(Len(t.blocks), t.len)
      /\ sp # NoSpec => sp.ext <= t.len
    BY <1>1, <1>2, RoundTracker
<1>5. t.len \in Nat /\ t.saved \in Nat /\ t.blocks \in Seq(Blocks) /\ Len(t.blocks) \in Nat
    BY DEF Tracker
<1>6. PICK s \in Nat : s = NumTokensToSave(t) /\ s <= t.len
    BY SavedTrackerType
<1>7. PICK b \in Nat \ {0} : b = BlockSize
    BY SchedulerAssumption
<1>8. /\ q.len = s /\ q.block_ids = t.blocks /\ q.skip = t.saved /\ q.can_save = ~SkipSave(t)
      /\ q.load = IF sp # NoSpec /\ sp.can_load THEN [vllm |-> sp.vllm, ext |-> sp.ext] ELSE NoLoad
    BY <1>3, <1>6 DEF MetaOf
<1>9. ASSUME BlockSize <= ChunkSize PROVE NumChunks(q.len) <= Len(q.block_ids)
  <2>1. Len(t.blocks) * b \in Nat /\ t.len <= Len(t.blocks) * b
      BY <1>4, <1>5, <1>7 DEF Holds
  <2>2. Holds(Len(t.blocks), s)
      BY <1>5, <1>6, <1>7, <2>1 DEF Holds
  <2> QED BY <1>5, <1>8, <1>9, <2>2, ChunksFit
<1>10. s = t.len \/ s = (t.len \div b) * b
    BY <1>6, <1>7 DEF NumTokensToSave
<1>11. ASSUME BlockSize % ChunkSize = 0, q.can_save PROVE ~MaskRaises(SaveMask(q))
  <2>1. PICK d \in Nat : d = t.saved \div b
      BY <1>5, DivNat
  <2>2. Floor(t.saved) = d * b /\ ChunkBoundary(t) = (d + 1) * b
      BY <1>7, <2>1 DEF Floor, ChunkBoundary
  <2>3. ~(t.len < (d + 1) * b)
      BY <1>8, <1>11, <2>2 DEF SkipSave
  <2>4. (d + 1) * b \in Nat /\ (d + 1) * b = d * b + b /\ d * b \in Nat
      OBVIOUS
  <2>5. (d + 1) * b <= t.len
      BY <1>5, <2>3, <2>4
  <2>6. (d + 1) * b <= (t.len \div b) * b
    <3>a. PICK e \in Nat : e = d + 1
        OBVIOUS
    <3>b. PICK l \in Nat : l = t.len
        BY <1>5
    <3>c. e * b <= l
        BY <2>5, <3>a, <3>b
    <3>d. e <= l \div b
        BY <3>c, DivLast
    <3>1. d + 1 <= t.len \div b
        BY <3>a, <3>b, <3>d
    <3>2. t.len \div b \in Nat
        BY <1>5, DivNat
    <3> QED BY <3>1, <3>2, MulMono
  <2>7. (d + 1) * b <= s
      BY <1>10, <2>5, <2>6
  <2>8. Floor(t.saved) <= s
      BY <2>2, <2>4, <2>7
  <2>9. SaveMask(q) = Floor(t.saved)
      BY <1>8, <2>8 DEF SaveMask, Least
  <2> QED BY <1>5, <1>11, <2>9, FloorAligned, BlockMaskAligned
<1>12. ASSUME BlockSize % ChunkSize = 0, q.load # NoLoad PROVE ~MaskRaises(LoadMask(q))
  <2>1. sp # NoSpec /\ sp.can_load /\ sp.vllm \in Nat /\ sp.ext \in Nat
      BY <1>8, <1>12 DEF LoadSpec
  <2>2. q.load.vllm = sp.vllm /\ q.load.ext = sp.ext
      BY <1>8, <2>1
  <2>3. sp.vllm % BlockSize = 0 /\ sp.vllm < sp.ext
    <3>1. PICK r \in Requests : r = x.req
        BY DEF SchedInv, SchedTypes, Scheduled
    <3>2. sp = load_specs[r]
        BY <1>2, <2>1, <3>1 DEF SpecOf
    <3> QED BY <2>1, <3>2 DEF QuietSched, SpecOK
  <2>4. PICK v \in Nat : v = sp.vllm /\ v % b = 0 /\ v < sp.ext /\ v <= t.len
      BY <1>4, <1>5, <1>7, <2>1, <2>3
  <2>5. Floor(v) = v
      BY <1>7, <2>4, AlignedIs DEF Floor
  <2>6. v <= (t.len \div b) * b
      BY <1>5, <2>4, AlignedBelow
  <2>7. v <= s
      BY <1>10, <2>4, <2>6
  <2>8. v <= LoadTokens(q)
      BY <1>8, <2>1, <2>2, <2>4, <2>7 DEF LoadTokens, Least
  <2>9. LoadMask(q) = v
      BY <2>2, <2>4, <2>5, <2>8 DEF LoadMask, Least
  <2> QED BY <1>7, <1>12, <2>4, <2>9, BlockMaskAligned
<1>13. MetaOK(q)
    BY <1>9, <1>11, <1>12 DEF MetaOK
<1> QED BY <1>1, <1>2, <1>3, <1>13

LEMMA QuietWorkerFrame ==
    ASSUME QuietWorker, UNCHANGED <<raised, inflight, cur>>,
           loadq' \subseteq loadq, saveq' \subseteq saveq
    PROVE  QuietWorker'
<1>1. RaisesOnlyMisconfigured'
    BY DEF QuietWorker, RaisesOnlyMisconfigured
<1> QED BY <1>1 DEF QuietWorker

LEMMA QuietRaise ==
    ASSUME QuietWorker, UNCHANGED inflight, NEW e, Raise(e),
           \/ e = "ValueError" /\ BlockSize % ChunkSize # 0
           \/ e = "IndexError" /\ ChunkSize < BlockSize
           \/ e = "TypeError" /\ NoBudget \in Budgets
    PROVE  QuietWorker'
<1>1. raised' = e /\ UNCHANGED <<loadq, saveq, cur>>
    BY DEF Raise, prepVars
<1>2. RaisesOnlyMisconfigured'
    BY <1>1 DEF RaisesOnlyMisconfigured
<1> QED BY <1>1, <1>2 DEF QuietWorker

LEMMA QuietLoad ==
    ASSUME WorkerInv, QuietWorker, NEW q \in loadq, prepare_for_load(q), UNCHANGED inflight
    PROVE  QuietWorker'
<1>1. MetaOK(q) /\ q \in GoodMeta /\ q.load # NoLoad
    BY DEF QuietWorker, WorkerInv, PrepTypes
<1>2. q.len \in Nat /\ q.load.vllm \in Nat /\ q.load.ext \in Nat /\ q.block_ids \in Seq(Blocks)
    BY <1>1 DEF GoodMeta, ReqMeta
<1>3. CASE MaskRaises(LoadMask(q))
  <2>1. Raise("ValueError")
      BY <1>3 DEF prepare_for_load
  <2>2. BlockSize % ChunkSize # 0
      BY <1>1, <1>3 DEF MetaOK
  <2> QED BY <2>1, <2>2, QuietRaise
<1>4. CASE ~MaskRaises(LoadMask(q))
  <2>1. PICK n \in Nat : n = LoadTokens(q) /\ n <= q.len
      BY <1>2 DEF LoadTokens, Least
  <2>2. PICK h \in 0 .. NumChunks(n) :
           IF h > Len(q.block_ids) THEN Raise("IndexError")
           ELSE /\ loadq' = loadq \ {q}
                /\ UNCHANGED <<saveq, cur, raised>>
      BY <1>4, <2>1 DEF prepare_for_load
  <2>3. CASE h > Len(q.block_ids)
    <3>1. Len(q.block_ids) \in Nat /\ BlockSize \in Nat /\ ChunkSize \in Nat
        BY <1>2, SchedulerAssumption, ChunkAssumption
    <3>2. NumChunks(n) \in Nat
        BY NumChunksNat
    <3>3. NumChunks(q.len) \in Nat
        BY <1>2, NumChunksNat
    <3>4. NumChunks(n) <= NumChunks(q.len)
        BY <1>2, <2>1, ChunksMono
    <3>5. ~(NumChunks(q.len) <= Len(q.block_ids))
        BY <2>3, <3>1, <3>2, <3>3, <3>4
    <3>6. ChunkSize < BlockSize
        BY <1>1, <3>1, <3>5 DEF MetaOK
    <3> QED BY <2>2, <2>3, <3>6, QuietRaise
  <2>4. CASE ~(h > Len(q.block_ids))
      BY <2>2, <2>4, QuietWorkerFrame
  <2> QED BY <2>3, <2>4
<1> QED BY <1>3, <1>4

LEMMA QuietPrepare ==
    ASSUME WorkerInv, QuietWorker, NEW q \in saveq, prepare_for_store(q), UNCHANGED inflight
    PROVE  QuietWorker'
<1>1. MetaOK(q) /\ q.can_save
    BY DEF QuietWorker
<1>2. CASE MaskRaises(SaveMask(q))
  <2>1. Raise("ValueError")
      BY <1>2 DEF prepare_for_store
  <2>2. BlockSize % ChunkSize # 0
      BY <1>1, <1>2 DEF MetaOK
  <2> QED BY <2>1, <2>2, QuietRaise
<1>3. CASE ~MaskRaises(SaveMask(q))
  <2>1. /\ cur' = [meta |-> q, chunk |-> FirstChunk(SaveMask(q)), index |-> 1]
        /\ saveq' = saveq \ {q} /\ UNCHANGED <<loadq, raised>>
      BY <1>3 DEF prepare_for_store
  <2>2. q.skip \in Nat /\ q.len \in Nat
      BY DEF WorkerInv, PrepTypes, GoodMeta, ReqMeta
  <2>3. FirstChunk(SaveMask(q)) \in Nat \ {0}
      BY <2>2, SaveMaskType
  <2>4. 1 <= FirstChunk(SaveMask(q))
      BY <2>3
  <2>5. cur'.meta = q /\ cur'.index = 1 /\ cur'.chunk = FirstChunk(SaveMask(q))
      BY <2>1
  <2>6. MetaOK(cur.meta)' /\ cur'.index <= cur'.chunk
      BY <1>1, <2>4, <2>5
  <2>7. RaisesOnlyMisconfigured'
      BY <2>1 DEF QuietWorker, RaisesOnlyMisconfigured
  <2> QED BY <2>1, <2>6, <2>7 DEF QuietWorker
<1> QED BY <1>2, <1>3

LEMMA QuietStore ==
    ASSUME WorkerInv, QuietWorker, SkipChunk \/ StoreChunk, UNCHANGED inflight
    PROVE  QuietWorker'
<1>1. cur # NoReq /\ cur.chunk <= NumChunks(cur.meta.len) /\ UNCHANGED <<loadq, saveq>>
    BY DEF SkipChunk, StoreChunk, CurChunk
<1>2. /\ cur \in StoreLoop /\ cur.chunk \in Nat \ {0} /\ cur.index \in Nat \ {0}
      /\ cur.meta.len \in Nat /\ cur.meta.block_ids \in Seq(Blocks)
    BY <1>1, CurType DEF GoodMeta, ReqMeta
<1>3. MetaOK(cur.meta) /\ cur.index <= cur.chunk
    BY <1>1 DEF QuietWorker
<1>4. CASE raised' = "IndexError" /\ cur' = cur /\ cur.index > Len(cur.meta.block_ids)
  <2>1. Len(cur.meta.block_ids) \in Nat /\ BlockSize \in Nat /\ ChunkSize \in Nat
      BY <1>2, SchedulerAssumption, ChunkAssumption
  <2>2. NumChunks(cur.meta.len) \in Nat
      BY <1>2, NumChunksNat
  <2>3. ~(NumChunks(cur.meta.len) <= Len(cur.meta.block_ids))
      BY <1>1, <1>2, <1>3, <1>4, <2>1, <2>2
  <2>4. ChunkSize < BlockSize
      BY <1>3, <2>1, <2>3 DEF MetaOK
  <2>5. RaisesOnlyMisconfigured'
      BY <1>4, <2>4 DEF RaisesOnlyMisconfigured
  <2> QED BY <1>1, <1>4, <2>5 DEF QuietWorker
<1>5. CASE /\ raised' = raised
           /\ \/ cur' = [cur EXCEPT !.chunk = @ + 1]
              \/ cur' = [meta |-> cur.meta, chunk |-> cur.chunk + 1, index |-> cur.index + 1]
  <2>1. cur'.meta = cur.meta /\ cur'.index <= cur'.chunk
      BY <1>2, <1>3, <1>5 DEF StoreLoop
  <2>2. MetaOK(cur.meta)'
      BY <1>3, <2>1 DEF MetaOK
  <2>3. RaisesOnlyMisconfigured'
      BY <1>5 DEF QuietWorker, RaisesOnlyMisconfigured
  <2> QED BY <1>1, <2>1, <2>2, <2>3 DEF QuietWorker
<1>6. ASSUME SkipChunk PROVE QuietWorker'
    BY <1>5, <1>6 DEF SkipChunk
<1>7. ASSUME StoreChunk PROVE QuietWorker'
    BY <1>4, <1>5, <1>7 DEF StoreChunk
<1> QED BY <1>6, <1>7

LEMMA QuietWorkerNext ==
    ASSUME SchedInv, WorkerInv, SpecsPromised, QuietInv, [Next]_vars
    PROVE  QuietWorker'
<1> USE DEF QuietInv
<1>1. ASSUME UNCHANGED <<workerVars, inflight>> PROVE QuietWorker'
    BY <1>1, QuietWorkerFrame DEF workerVars, prepVars
<1>2. ASSUME SendMeta PROVE QuietWorker'
  <2>1. inflight' = Append(inflight, RoundMeta) /\ UNCHANGED <<raised, loadq, saveq, cur>>
      BY <1>2 DEF SendMeta, workerVars, prepVars
  <2>2. inflight \in Seq(GoodStep) /\ RoundMeta \in GoodStep
      BY RoundMetaType DEF WorkerInv, PrepTypes
  <2>3. ASSUME NEW p \in DOMAIN inflight', NEW q \in inflight'[p].requests PROVE MetaOK(q)
    <3>1. CASE p \in DOMAIN inflight /\ inflight'[p] = inflight[p]
        BY <2>3, <3>1 DEF QuietWorker
    <3>2. CASE inflight'[p] = RoundMeta
      <4>1. PICK x \in round : q = MetaOf(x.req, TrackerOf(x), SpecOf(x))
          BY <2>3, <3>2 DEF RoundMeta
      <4> QED BY <4>1, RoundMetaOK
    <3> QED BY <2>1, <2>2, <3>1, <3>2
  <2> QED BY <2>1, <2>3 DEF QuietWorker, RaisesOnlyMisconfigured
<1>3. ASSUME BeginStep PROVE QuietWorker'
  <2>1. inflight \in Seq(GoodStep) /\ inflight # << >>
      BY <1>3 DEF WorkerInv, PrepTypes, BeginStep
  <2>2. PICK m : m = inflight[1]
      OBVIOUS
  <2>3. 1 \in DOMAIN inflight /\ Head(inflight) = m
      BY <2>1, <2>2
  <2>4. /\ loadq' \subseteq m.requests /\ saveq' = {q \in m.requests : q.can_save /\ q.skip # q.len}
        /\ UNCHANGED <<raised, cur>> /\ inflight' = Tail(inflight)
      BY <1>3, <2>3 DEF BeginStep, start_load_kv
  <2>5. \A q \in m.requests : MetaOK(q)
      BY <2>2, <2>3 DEF QuietWorker
  <2>6. ASSUME NEW p \in DOMAIN inflight' PROVE p + 1 \in DOMAIN inflight /\ inflight'[p] = inflight[p + 1]
      BY <2>1, <2>4
  <2> QED BY <2>4, <2>5, <2>6 DEF QuietWorker, RaisesOnlyMisconfigured
<1>4. ASSUME WorkerStep PROVE QuietWorker'
  <2>1. inflight' = inflight
      BY <1>4 DEF WorkerStep
  <2>2. ASSUME UNCHANGED <<raised, loadq, saveq, cur>> PROVE QuietWorker'
      BY <2>1, <2>2, QuietWorkerFrame
  <2>3. ASSUME FirstLayerLoad \/ SubmitTask \/ TakeTasks PROVE QuietWorker'
      BY <2>2, <2>3 DEF FirstLayerLoad, SubmitTask, TakeTasks, prepVars
  <2>4. ASSUME wait_for_layer_load \/ Attention PROVE QuietWorker'
      BY <2>2, <2>4 DEF wait_for_layer_load, Attention, prepVars
  <2>5. ASSUME save_kv_layer \/ save_kv_layer_async PROVE QuietWorker'
      BY <2>2, <2>5 DEF save_kv_layer, save_kv_layer_async, LayerDone, prepVars
  <2>6. ASSUME EndStore PROVE QuietWorker'
      BY <2>1, <2>6 DEF EndStore, QuietWorker, RaisesOnlyMisconfigured
  <2>7. ASSUME NEW b \in Budgets, launch_io(b) PROVE QuietWorker'
    <3>1. CASE b = NoBudget
        BY <2>1, <2>7, <3>1, QuietRaise DEF launch_io
    <3>2. CASE b # NoBudget
      <4>1. UNCHANGED <<raised, loadq, saveq, cur>>
          BY <2>7, <3>2 DEF launch_io, prepVars
      <4> QED BY <2>2, <4>1
    <3> QED BY <3>1, <3>2
  <2> QED BY <1>4, <2>1, <2>3, <2>4, <2>5, <2>6, <2>7, QuietLoad, QuietPrepare, QuietStore
          DEF WorkerStep
<1>5. ASSUME EndStep PROVE QuietWorker'
    BY <1>5, QuietWorkerFrame DEF EndStep, StepDone
<1> QED BY <1>1, <1>2, <1>3, <1>4, <1>5
        DEF Next, SchedulerStep, AbortRequest, EndWaiting, vars

\* What the worker raises tells what is misconfigured, for every chunk size,
\* block size and set of budgets: a ValueError needs a chunk size that does not
\* divide vLLM's block size, an IndexError chunks smaller than blocks, a
\* TypeError a launch without a budget.  In particular nothing raises when the
\* chunk size is the block size and every launch has a budget, however requests
\* are preempted, resumed with other blocks and looked up again.
THEOREM RaisesOnlyMisconfiguredTheorem == Spec => []RaisesOnlyMisconfigured
<1>1. Init => QuietInv
  <2> SUFFICES ASSUME Init PROVE QuietInv
      OBVIOUS
  <2>1. QuietSched
      BY DEF Init, SchedInit, QuietSched, SpecOK, TrackerOK, MatchCovers
  <2>2. QuietWorker
      BY DEF Init, WorkerInit, QuietWorker, RaisesOnlyMisconfigured
  <2> QED BY <2>1, <2>2 DEF QuietInv
<1>2. SchedInv /\ WorkerInv /\ SpecsPromised /\ QuietInv /\ [Next]_vars => QuietInv'
    BY QuietSchedNext, QuietWorkerNext DEF QuietInv
<1>3. QuietInv => RaisesOnlyMisconfigured
    BY DEF QuietInv, QuietWorker
<1> QED BY <1>1, <1>2, <1>3, SchedCorrect, WorkerCorrect, SpecsPromisedTheorem, PTL DEF Spec
=============================================================================
