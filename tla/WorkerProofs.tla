---------------------------- MODULE WorkerProofs ----------------------------
(***************************************************************************)
(* Proofs about the worker half: the index, the task queue, the layer      *)
(* counters, and type correctness of the whole connector.                  *)
(*                                                                         *)
(* WorkerInv is inductive relative to SchedInv, from which it takes that   *)
(* the metadata a round sends is well formed.  Its parts are proved action *)
(* by action; each action leaves most parts' variables alone, which the    *)
(* frame lemmas below turn into the part.                                  *)
(***************************************************************************)
EXTENDS SchedulerProofs, FiniteSetTheorems

\* Metadata that covers tokens of its request only.
GoodMeta == {q \in ReqMeta : q.len <= Len(Tokens[q.req])}

GoodStep == [requests : SUBSET GoodMeta, work : SUBSET [req : Requests, upto : Nat]]

StoreLoop == [meta : GoodMeta, chunk : Nat \ {0}, index : Nat \ {0}]

\* Save tasks no layer of which has been handed on.
FreshTask == {t \in IOSpec : t.layer = 0}

InForward == {"wait", "attn", "hook"}

WorkerPCs == {"idle", "load", "save", "done", "dead"} \union InForward

PrepTypes ==
    /\ inflight \in Seq(GoodStep)
    /\ wpc \in WorkerPCs
    /\ loadq \subseteq GoodMeta
    /\ \A q \in loadq : q.load # NoLoad
    /\ saveq \subseteq GoodMeta
    /\ cur \in StoreLoop \union {NoReq}

IndexInv ==
    /\ dict \in [Keys -> Files \union {NoFile}]
    /\ free \subseteq Files

QueueInv ==
    /\ load_pairs \subseteq Pair
    /\ new_tasks \in Seq(FreshTask)
    /\ tasks \in Seq(FreshTask)
    /\ pending \subseteq Blocks
    /\ QueueConsistent

\* The counters of connector and forward pass agree; the load of the layer
\* that comes next was issued; the tasks of the step are at the layer.
LayerInv ==
    /\ current_layer \in 0 .. NumLayers
    /\ layer = current_layer
    /\ wpc \in {"load", "save"} => layer = 0 /\ io_tasks = <<>>
    /\ wpc \in InForward => layer < NumLayers
    /\ load_pairs # {} =>
          /\ wpc \in {"save", "wait", "attn", "hook"} => layer \in loaded
          /\ wpc \in {"attn", "hook"} /\ layer + 1 < NumLayers => layer + 1 \in loaded
    /\ io_tasks \in Seq(IOSpec)
    /\ AsyncSave => TasksFollowLayers

\* What is handed on to GeminiFS names layers of the model only.
StoreInv ==
    /\ store_tasks \in Seq(StoreLayerTask)
    /\ StoreTasksUniform
    /\ written \in [Files -> SUBSET Layers]

WorkerInv == PrepTypes /\ IndexInv /\ QueueInv /\ LayerInv /\ StoreInv

-----------------------------------------------------------------------------
(* The metadata of a round. *)

LEMMA MetaOfType ==
    ASSUME SchedInv, NEW x \in round
    PROVE  MetaOf(x.req, TrackerOf(x), SpecOf(x)) \in GoodMeta
<1> DEFINE t == TrackerOf(x)
           spec == SpecOf(x)
<1>1. /\ t \in Tracker /\ t.len <= num_tokens[x.req]
      /\ spec \in LoadSpec \union {NoSpec}
    BY TrackerOfType
<1>2. /\ x.req \in Requests /\ num_tokens[x.req] \in Nat
      /\ Len(Tokens[x.req]) \in Nat /\ num_tokens[x.req] <= Len(Tokens[x.req])
    BY TokensAssumption DEF SchedInv, SchedTypes, Scheduled
<1>3. NumTokensToSave(t) \in Nat /\ NumTokensToSave(t) <= t.len
    BY <1>1, SavedTrackerType
<1>4. t.len \in Nat /\ t.blocks \in Seq(Blocks) /\ t.saved \in Nat
    BY <1>1 DEF Tracker
<1>5. (IF spec # NoSpec /\ spec.can_load THEN [vllm |-> spec.vllm, ext |-> spec.ext]
       ELSE NoLoad) \in [vllm : Nat, ext : Nat] \union {NoLoad}
    BY <1>1 DEF LoadSpec
<1>6. (~SkipSave(t)) \in BOOLEAN
    OBVIOUS
<1> HIDE DEF t, spec
<1>7. /\ MetaOf(x.req, t, spec) \in ReqMeta
      /\ MetaOf(x.req, t, spec).len = NumTokensToSave(t)
      /\ MetaOf(x.req, t, spec).req = x.req
    BY <1>2, <1>3, <1>4, <1>5, <1>6 DEF MetaOf, ReqMeta
<1>8. NumTokensToSave(t) <= Len(Tokens[x.req])
    BY <1>1, <1>2, <1>3, <1>4
<1>9. MetaOf(x.req, t, spec) \in GoodMeta
    BY <1>7, <1>8 DEF GoodMeta
<1> QED BY <1>9 DEF t, spec

LEMMA RoundMetaType ==
    ASSUME SchedInv
    PROVE  RoundMeta \in GoodStep
<1> DEFINE reqs == {MetaOf(x.req, TrackerOf(x), SpecOf(x)) :
                      x \in {y \in round : ~SkipSave(TrackerOf(y)) \/ SpecOf(y) # NoSpec}}
           fwd == {[req |-> x.req, upto |-> x.start + x.n] : x \in round}
<1>1. reqs \subseteq GoodMeta
    BY MetaOfType
<1>2. fwd \subseteq [req : Requests, upto : Nat]
    BY DEF SchedInv, SchedTypes, Scheduled
<1>3. RoundMeta = [requests |-> reqs, work |-> fwd]
    BY DEF RoundMeta
<1> HIDE DEF reqs, fwd
<1> QED BY <1>1, <1>2, <1>3 DEF GoodStep

-----------------------------------------------------------------------------
(* Parts whose variables a step leaves alone. *)

LEMMA IndexFrame ==
    ASSUME IndexInv, UNCHANGED indexVars
    PROVE  IndexInv'
BY DEF IndexInv, contains, indexVars

LEMMA QueueFrame ==
    ASSUME QueueInv, UNCHANGED <<load_pairs, new_tasks, tasks, pending>>
    PROVE  QueueInv'
BY DEF QueueInv, QueueConsistent

LEMMA StoreFrame ==
    ASSUME StoreInv, UNCHANGED <<store_tasks, written>>
    PROVE  StoreInv'
BY DEF StoreInv, StoreTasksUniform

LEMMA LayerFrame ==
    ASSUME LayerInv, UNCHANGED <<wpc, load_pairs, io_tasks, current_layer, layer, loaded>>
    PROVE  LayerInv'
BY DEF LayerInv, TasksFollowLayers

LEMMA PrepFrame ==
    ASSUME PrepTypes, UNCHANGED <<inflight, loadq, saveq, cur>>, wpc' \in WorkerPCs
    PROVE  PrepTypes'
BY DEF PrepTypes

\* A worker that raised is in no phase the other parts speak of.
LEMMA RaiseInv ==
    ASSUME WorkerInv, NEW e, Raise(e), UNCHANGED inflight
    PROVE  WorkerInv'
<1> USE DEF Raise, WorkerInv
<1>1. PrepTypes'
    BY PrepFrame DEF prepVars, WorkerPCs
<1>2. IndexInv' /\ QueueInv' /\ StoreInv'
    BY IndexFrame, QueueFrame, StoreFrame DEF prepVars, queueVars, layerVars
<1>3. LayerInv'
    BY DEF LayerInv, TasksFollowLayers, prepVars, queueVars, layerVars, InForward
<1> QED BY <1>1, <1>2, <1>3

LEMMA WorkerInitInv == Init => WorkerInv
<1> SUFFICES ASSUME Init PROVE WorkerInv
    OBVIOUS
<1> USE WorkerAssumption DEF Init, WorkerInit
<1>1. PrepTypes
    BY DEF PrepTypes, WorkerPCs
<1>2. IndexInv
    BY DEF IndexInv, contains
<1>3. QueueInv
    BY DEF QueueInv, QueueConsistent
<1>4. LayerInv
    BY DEF LayerInv, TasksFollowLayers, InForward
<1>5. StoreInv
    BY DEF StoreInv, StoreTasksUniform
<1> QED BY <1>1, <1>2, <1>3, <1>4, <1>5 DEF WorkerInv

LEMMA SendMetaInv ==
    ASSUME WorkerInv, SchedInv, SendMeta
    PROVE  WorkerInv'
<1> USE DEF SendMeta, workerVars, prepVars, queueVars, layerVars, WorkerInv
<1>1. PrepTypes'
    BY RoundMetaType DEF PrepTypes
<1> QED BY <1>1, IndexFrame, QueueFrame, LayerFrame, StoreFrame

-----------------------------------------------------------------------------
(* Loading. *)

LEMMA BeginStepInv ==
    ASSUME WorkerInv, BeginStep
    PROVE  WorkerInv'
<1> DEFINE m == Head(inflight)
<1> USE DEF BeginStep, start_load_kv, WorkerInv
<1>1. m \in GoodStep /\ Tail(inflight) \in Seq(GoodStep)
    BY DEF PrepTypes
<1>2. m.requests \subseteq GoodMeta
    BY <1>1 DEF GoodStep
<1>3. PrepTypes'
    BY <1>1, <1>2 DEF PrepTypes, WorkerPCs
<1>4. IndexInv' /\ StoreInv'
    BY IndexFrame, StoreFrame
<1>5. QueueInv'
    BY DEF QueueInv, QueueConsistent
<1>6. LayerInv'
    BY WorkerAssumption DEF LayerInv, TasksFollowLayers, ResetLayers, InForward
<1> QED BY <1>3, <1>4, <1>5, <1>6

\* Every chunk end of tokens of r makes a key.
LEMMA ChunkKey ==
    ASSUME NEW r \in Requests, NEW n \in Nat, n <= Len(Tokens[r]), NEW i \in Nat
    PROVE  Key(r, ChunkEnd(i, n)) \in Keys
<1>1. Len(Tokens[r]) \in Nat
    BY TokensAssumption
<1>2. i * ChunkSize \in Nat
    BY ChunkAssumption
<1>3. ChunkEnd(i, n) \in 0 .. Len(Tokens[r])
    BY <1>1, <1>2 DEF ChunkEnd, Least
<1> QED BY <1>3 DEF Keys

LEMMA FloorNat ==
    ASSUME NEW n \in Nat
    PROVE  Floor(n) \in Nat
<1>1. n \div BlockSize \in Nat
    BY SchedulerAssumption, DivNat
<1> QED BY <1>1, SchedulerAssumption DEF Floor

LEMMA FirstChunkNat ==
    ASSUME NEW n \in Nat
    PROVE  FirstChunk(n) \in Nat \ {0}
<1>1. n \div ChunkSize \in Nat
    BY ChunkAssumption, DivNat
<1> QED BY <1>1 DEF FirstChunk

LEMMA NumChunksNat ==
    ASSUME NEW n \in Nat
    PROVE  NumChunks(n) \in Nat
<1>1. n \div ChunkSize \in Nat /\ n + ChunkSize - 1 \in Nat
    BY ChunkAssumption, DivNat
<1>2. (n + ChunkSize - 1) \div ChunkSize \in Nat
    BY <1>1, ChunkAssumption, DivNat
<1> QED BY <1>1, <1>2 DEF NumChunks

\* The pairs are made of keys, opened files and blocks of the request.
LEMMA PairsType ==
    ASSUME IndexInv, NEW q \in GoodMeta, q.load # NoLoad,
           NEW h \in Nat, IsLoadRun(q, h), h <= Len(q.block_ids)
    PROVE  PairsToLoad(q, h) \subseteq Pair
<1> DEFINE n == LoadTokens(q)
           first == FirstChunk(LoadMask(q))
           k(i) == Key(q.req, ChunkEnd(first + i - 1, n))
<1>1. /\ q.req \in Requests /\ q.len \in Nat /\ q.len <= Len(Tokens[q.req])
      /\ q.block_ids \in Seq(Blocks)
      /\ q.load.vllm \in Nat /\ q.load.ext \in Nat
    BY DEF GoodMeta, ReqMeta
<1>2. Len(Tokens[q.req]) \in Nat
    BY <1>1, TokensAssumption
<1>3. n \in Nat /\ n <= Len(Tokens[q.req])
    BY <1>1, <1>2 DEF LoadTokens, Least
<1>4. LoadMask(q) \in Nat
    BY <1>1, <1>3, FloorNat DEF LoadMask, Least
<1>5. first \in Nat \ {0}
    BY <1>4, FirstChunkNat
<1>6. \A i \in 0 .. h - 1 : contains(Key(q.req, ChunkEnd(first + i, n)))
    BY DEF IsLoadRun
<1> HIDE DEF n, first
<1>7. ASSUME NEW i \in 1 .. h
      PROVE  [key |-> k(i), file |-> dict[k(i)], block |-> q.block_ids[i]] \in Pair
  <2>1. first + i - 1 \in Nat /\ i - 1 \in 0 .. h - 1 /\ first + (i - 1) = first + i - 1
      BY <1>5
  <2>2. k(i) \in Keys
      BY <1>1, <1>3, <2>1, ChunkKey
  <2>3. contains(k(i))
      BY <1>6, <2>1
  <2>4. dict[k(i)] \in Files
      BY <2>2, <2>3 DEF contains, IndexInv
  <2>5. q.block_ids[i] \in Blocks
      BY <1>1
  <2> HIDE DEF k
  <2> QED BY <2>2, <2>4, <2>5 DEF Pair
<1>8. PairsToLoad(q, h) =
        {[key |-> k(i), file |-> dict[k(i)], block |-> q.block_ids[i]] : i \in 1 .. h}
    BY DEF PairsToLoad, n, first
<1> HIDE DEF k
<1> QED BY <1>7, <1>8

LEMMA PrepareLoadInv ==
    ASSUME WorkerInv, NEW q \in loadq, prepare_for_load(q), UNCHANGED inflight
    PROVE  WorkerInv'
<1>1. CASE MaskRaises(LoadMask(q))
    BY <1>1, RaiseInv DEF prepare_for_load
<1>2. CASE ~MaskRaises(LoadMask(q))
  <2>1. q \in GoodMeta /\ q.load # NoLoad
      BY DEF WorkerInv, PrepTypes
  <2>2. q.len \in Nat /\ q.load.ext \in Nat /\ q.block_ids \in Seq(Blocks)
      BY <2>1 DEF GoodMeta, ReqMeta
  <2>3. NumChunks(LoadTokens(q)) \in Nat
      BY <2>2, NumChunksNat DEF LoadTokens, Least
  <2>4. PICK h \in 0 .. NumChunks(LoadTokens(q)) :
          /\ IsLoadRun(q, h)
          /\ IF h > Len(q.block_ids) THEN Raise("IndexError")
             ELSE /\ load_pairs' = load_pairs \union PairsToLoad(q, h)
                  /\ loadq' = loadq \ {q}
                  /\ UNCHANGED <<indexVars, wpc, work, saveq, cur, new_tasks,
                                 queueVars, layerVars, raised>>
      BY <1>2 DEF prepare_for_load
  <2>5. h \in Nat /\ Len(q.block_ids) \in Nat
      BY <2>2, <2>3
  <2>6. CASE h > Len(q.block_ids)
      BY <2>4, <2>6, RaiseInv
  <2>7. CASE h <= Len(q.block_ids)
    <3>1. /\ load_pairs' = load_pairs \union PairsToLoad(q, h)
          /\ loadq' = loadq \ {q}
          /\ UNCHANGED <<indexVars, wpc, work, saveq, cur, new_tasks,
                         queueVars, layerVars, raised>>
        BY <2>4, <2>5, <2>7
    <3>2. PairsToLoad(q, h) \subseteq Pair
        BY <2>1, <2>4, <2>5, <2>7, PairsType DEF WorkerInv
    <3>3. wpc = "load"
        BY DEF prepare_for_load
    <3>4. PrepTypes'
        BY <3>1 DEF WorkerInv, PrepTypes
    <3>5. IndexInv' /\ StoreInv'
        BY <3>1, IndexFrame, StoreFrame DEF WorkerInv, layerVars
    <3>6. QueueInv'
        BY <3>1, <3>2 DEF WorkerInv, QueueInv, QueueConsistent, queueVars
    <3>7. LayerInv'
        BY <3>1, <3>3 DEF WorkerInv, LayerInv, TasksFollowLayers, InForward, queueVars, layerVars
    <3> QED BY <3>4, <3>5, <3>6, <3>7 DEF WorkerInv
  <2> QED BY <2>5, <2>6, <2>7
<1> QED BY <1>1, <1>2

LEMMA FirstLayerInv ==
    ASSUME WorkerInv, FirstLayerLoad, UNCHANGED inflight
    PROVE  WorkerInv'
<1> USE DEF FirstLayerLoad, WorkerInv, prepVars, queueVars
<1>1. PrepTypes'
    BY PrepFrame DEF WorkerPCs
<1>2. IndexInv' /\ QueueInv' /\ StoreInv'
    BY IndexFrame, QueueFrame, StoreFrame
<1>3. load_pairs # {} => 0 \in loaded'
    BY WorkerAssumption DEF Prefetch
<1>4. LayerInv'
    BY <1>3 DEF LayerInv, TasksFollowLayers, InForward
<1> QED BY <1>1, <1>2, <1>4

-----------------------------------------------------------------------------
(* Preparing saves, and the queue. *)

LEMMA PrepareStoreInv ==
    ASSUME WorkerInv, NEW q \in saveq, prepare_for_store(q), UNCHANGED inflight
    PROVE  WorkerInv'
<1>1. CASE MaskRaises(SaveMask(q))
    BY <1>1, RaiseInv DEF prepare_for_store
<1>2. CASE ~MaskRaises(SaveMask(q))
  <2> USE <1>2 DEF prepare_for_store, WorkerInv
  <2>1. q \in GoodMeta /\ q.len \in Nat /\ q.skip \in Nat
      BY DEF PrepTypes, GoodMeta, ReqMeta
  <2>2. SaveMask(q) \in Nat
      BY <2>1, FloorNat DEF SaveMask, Least
  <2>3. FirstChunk(SaveMask(q)) \in Nat \ {0}
      BY <2>2, FirstChunkNat
  <2>4. cur' \in StoreLoop
      BY <2>1, <2>3 DEF StoreLoop
  <2>5. PrepTypes'
      BY <2>4 DEF PrepTypes
  <2>6. IndexInv' /\ QueueInv' /\ LayerInv' /\ StoreInv'
      BY IndexFrame, QueueFrame, LayerFrame, StoreFrame DEF queueVars, layerVars
  <2> QED BY <2>5, <2>6
<1> QED BY <1>1, <1>2

LEMMA SkipChunkInv ==
    ASSUME WorkerInv, SkipChunk, UNCHANGED inflight
    PROVE  WorkerInv'
<1> USE DEF SkipChunk, WorkerInv
<1>1. cur' \in StoreLoop
  <2>1. cur \in StoreLoop
      BY DEF CurChunk, PrepTypes
  <2> QED BY <2>1 DEF StoreLoop
<1>2. PrepTypes'
    BY <1>1 DEF PrepTypes
<1> QED BY <1>2, IndexFrame, QueueFrame, LayerFrame, StoreFrame DEF queueVars, layerVars

\* allocate takes a file out of free and gives it to a key without one.
LEMMA AllocateInv ==
    ASSUME IndexInv, NEW k, NEW f, ~contains(k), allocate(k, f)
    PROVE  IndexInv'
BY WorkerAssumption DEF allocate, contains, IndexInv

LEMMA StoreChunkInv ==
    ASSUME WorkerInv, StoreChunk, UNCHANGED inflight
    PROVE  WorkerInv'
<1>1. PICK f \in Files :
        /\ allocate(CurKey, f)
        /\ IF cur.index > Len(cur.meta.block_ids)
           THEN /\ raised' = "IndexError" /\ wpc' = "dead"
                /\ UNCHANGED <<cur, new_tasks>>
           ELSE /\ new_tasks' = Append(new_tasks,
                      [key |-> CurKey, file |-> f,
                       block |-> cur.meta.block_ids[cur.index], layer |-> 0])
                /\ cur' = [meta |-> cur.meta, chunk |-> cur.chunk + 1, index |-> cur.index + 1]
                /\ UNCHANGED <<raised, wpc>>
    BY DEF StoreChunk
<1>2. /\ UNCHANGED <<work, loadq, saveq, load_pairs, queueVars, layerVars>>
      /\ ~contains(CurKey) /\ CurChunk
    BY DEF StoreChunk
<1>3. IndexInv'
    BY <1>1, <1>2, AllocateInv DEF WorkerInv
<1>4. StoreInv'
    BY <1>2, StoreFrame DEF WorkerInv, layerVars
<1>5. cur \in StoreLoop
    BY <1>2 DEF WorkerInv, PrepTypes, CurChunk
<1>6. /\ cur.meta \in GoodMeta /\ cur.chunk \in Nat \ {0} /\ cur.index \in Nat \ {0}
      /\ cur.meta.req \in Requests /\ cur.meta.len \in Nat
      /\ cur.meta.len <= Len(Tokens[cur.meta.req])
      /\ cur.meta.block_ids \in Seq(Blocks)
    BY <1>5 DEF StoreLoop, GoodMeta, ReqMeta
<1>7. CASE cur.index > Len(cur.meta.block_ids)
  <2>1. wpc' = "dead" /\ UNCHANGED <<cur, new_tasks>>
      BY <1>1, <1>7
  <2>2. PrepTypes'
      BY <1>2, <2>1, PrepFrame DEF WorkerInv, WorkerPCs
  <2>3. QueueInv'
      BY <1>2, <2>1, QueueFrame DEF WorkerInv, queueVars
  <2>4. LayerInv'
      BY <1>2, <2>1
      DEF WorkerInv, LayerInv, TasksFollowLayers, InForward, queueVars, layerVars
  <2> QED BY <1>3, <1>4, <2>2, <2>3, <2>4 DEF WorkerInv
<1>8. CASE cur.index <= Len(cur.meta.block_ids)
  <2> DEFINE t == [key |-> CurKey, file |-> f,
                   block |-> cur.meta.block_ids[cur.index], layer |-> 0]
  <2>1. Len(cur.meta.block_ids) \in Nat
      BY <1>6
  <2>2. /\ new_tasks' = Append(new_tasks, t)
        /\ cur' = [meta |-> cur.meta, chunk |-> cur.chunk + 1, index |-> cur.index + 1]
        /\ UNCHANGED <<raised, wpc>>
      BY <1>1, <1>6, <1>8, <2>1
  <2>3. CurKey \in Keys
      BY <1>6, ChunkKey DEF CurKey
  <2>4. cur.meta.block_ids[cur.index] \in Blocks
      BY <1>6, <1>8, <2>1
  <2>5. t \in FreshTask
      BY <2>3, <2>4 DEF FreshTask, IOSpec
  <2>6. PrepTypes'
    <3>1. cur' \in StoreLoop
        BY <1>6, <2>2 DEF StoreLoop
    <3> QED BY <1>2, <2>2, <3>1 DEF WorkerInv, PrepTypes
  <2> HIDE DEF t
  <2>7. QueueInv'
      BY <1>2, <2>2, <2>5 DEF WorkerInv, QueueInv, QueueConsistent, queueVars
  <2>8. LayerInv'
      BY <1>2, <2>2, LayerFrame DEF WorkerInv, queueVars, layerVars
  <2> QED BY <1>3, <1>4, <2>6, <2>7, <2>8 DEF WorkerInv
<1>9. Len(cur.meta.block_ids) \in Nat
    BY <1>6
<1> QED BY <1>6, <1>7, <1>8, <1>9

LEMMA EndStoreInv ==
    ASSUME WorkerInv, EndStore, UNCHANGED inflight
    PROVE  WorkerInv'
<1> USE DEF EndStore, WorkerInv
<1>1. PrepTypes'
    BY DEF PrepTypes
<1> QED BY <1>1, IndexFrame, QueueFrame, LayerFrame, StoreFrame DEF queueVars, layerVars

\* A task is queued only when no queued task has its block.
LEMMA SubmitInv ==
    ASSUME WorkerInv, SubmitTask, UNCHANGED inflight
    PROVE  WorkerInv'
<1> DEFINE t == Head(new_tasks)
<1> USE DEF SubmitTask, WorkerInv
<1>1. t \in FreshTask /\ Tail(new_tasks) \in Seq(FreshTask)
    BY DEF QueueInv
<1>2. t.block \in Blocks
    BY <1>1 DEF FreshTask, IOSpec
<1>3. QueueInv'
  <2>1. CASE t.block \in pending
      BY <1>1, <2>1 DEF QueueInv, QueueConsistent
  <2>2. CASE t.block \notin pending
    <3>1. /\ tasks' = Append(tasks, t) /\ pending' = pending \union {t.block}
          /\ new_tasks' = Tail(new_tasks) /\ load_pairs' = load_pairs
        BY <2>2
    <3> HIDE DEF t, SubmitTask
    <3>2. tasks \in Seq(FreshTask) /\ Len(tasks) \in Nat
        BY DEF QueueInv
    <3>3. /\ tasks' \in Seq(FreshTask) /\ Len(tasks') = Len(tasks) + 1
          /\ \A i \in 1 .. Len(tasks) : tasks'[i] = tasks[i]
          /\ tasks'[Len(tasks) + 1] = t
        BY <1>1, <3>1, <3>2
    <3>4. DOMAIN tasks' = 1 .. Len(tasks) + 1 /\ DOMAIN tasks = 1 .. Len(tasks)
        BY <3>2, <3>3
    <3>5. \A i \in 1 .. Len(tasks) : tasks[i].block \in pending
        BY <3>4 DEF QueueInv, QueueConsistent
    <3>6. \A i, j \in DOMAIN tasks' : tasks'[i].block = tasks'[j].block => i = j
        BY <2>2, <3>2, <3>3, <3>4, <3>5 DEF QueueInv, QueueConsistent
    <3>7. pending' = {tasks'[i].block : i \in DOMAIN tasks'}
        BY <3>1, <3>2, <3>3, <3>4 DEF QueueInv, QueueConsistent
    <3> QED BY <1>1, <1>2, <3>1, <3>3, <3>6, <3>7 DEF QueueInv, QueueConsistent
  <2> QED BY <2>1, <2>2
<1>4. PrepTypes'
    BY DEF PrepTypes
<1> QED BY <1>3, <1>4, IndexFrame, LayerFrame, StoreFrame DEF layerVars

LEMMA TakeTasksInv ==
    ASSUME WorkerInv, TakeTasks, UNCHANGED inflight
    PROVE  WorkerInv'
<1> USE DEF TakeTasks, WorkerInv, prepVars
<1>1. PrepTypes'
    BY PrepFrame DEF WorkerPCs, InForward
<1>2. IndexInv' /\ StoreInv'
    BY IndexFrame, StoreFrame DEF layerVars
<1>3. CASE get_next_ntasks
  <2> USE <1>3 DEF get_next_ntasks
  <2>1. pending' = {} /\ tasks' = <<>>
      BY DEF QueueInv, QueueConsistent
  <2>2. QueueInv'
      BY <2>1 DEF QueueInv, QueueConsistent
  <2>3. /\ io_tasks' \in Seq(IOSpec)
        /\ \A i \in DOMAIN io_tasks' : io_tasks'[i].layer = 0
    <3>1. tasks \in Seq(FreshTask) /\ io_tasks' = tasks
        BY DEF QueueInv
    <3> QED BY <3>1 DEF FreshTask
  <2>4. LayerInv'
      BY <2>3, WorkerAssumption DEF LayerInv, TasksFollowLayers, InForward, layerVars
  <2> QED BY <1>1, <1>2, <2>2, <2>4
<1>4. CASE UNCHANGED queueVars
  <2>1. QueueInv'
      BY <1>4, QueueFrame DEF queueVars
  <2>2. LayerInv'
      BY <1>4, WorkerAssumption
      DEF LayerInv, TasksFollowLayers, InForward, layerVars, queueVars
  <2> QED BY <1>1, <1>2, <2>1, <2>2
<1> QED BY <1>3, <1>4

-----------------------------------------------------------------------------
(* The forward pass. *)

LEMMA WaitInv ==
    ASSUME WorkerInv, wait_for_layer_load, UNCHANGED inflight
    PROVE  WorkerInv'
<1> USE DEF wait_for_layer_load, WorkerInv, prepVars, queueVars
<1>1. PrepTypes'
    BY PrepFrame DEF WorkerPCs, InForward
<1>2. IndexInv' /\ QueueInv' /\ StoreInv'
    BY IndexFrame, QueueFrame, StoreFrame
<1>3. /\ load_pairs # {} => layer \in loaded'
      /\ load_pairs # {} /\ layer + 1 < NumLayers => layer + 1 \in loaded'
    BY WorkerAssumption DEF LayerInv, Prefetch, InForward
<1>4. LayerInv'
    BY <1>3 DEF LayerInv, TasksFollowLayers, InForward
<1> QED BY <1>1, <1>2, <1>4

LEMMA AttentionInv ==
    ASSUME WorkerInv, Attention, UNCHANGED inflight
    PROVE  WorkerInv'
<1> USE DEF Attention, WorkerInv, prepVars, queueVars, layerVars
<1>1. PrepTypes'
    BY PrepFrame DEF WorkerPCs, InForward
<1>2. IndexInv' /\ QueueInv' /\ StoreInv'
    BY IndexFrame, QueueFrame, StoreFrame
<1>3. LayerInv'
    BY DEF LayerInv, TasksFollowLayers, InForward
<1> QED BY <1>1, <1>2, <1>3

\* The counters move on together, and the next layer's load was issued.
LEMMA LayerDoneInv ==
    ASSUME WorkerInv, LayerDone, UNCHANGED inflight,
           io_tasks' \in Seq(IOSpec),
           AsyncSave => \A i \in DOMAIN io_tasks' : io_tasks'[i].layer = layer + 1
    PROVE  PrepTypes' /\ IndexInv' /\ QueueInv' /\ LayerInv'
<1> USE DEF LayerDone, WorkerInv, prepVars
<1>1. PrepTypes'
    BY PrepFrame DEF WorkerPCs, InForward
<1>2. IndexInv' /\ QueueInv'
    BY IndexFrame, QueueFrame
<1>3. LayerInv'
    BY WorkerAssumption DEF LayerInv, TasksFollowLayers, InForward
<1> QED BY <1>1, <1>2, <1>3

LEMMA SaveLayerInv ==
    ASSUME WorkerInv, save_kv_layer, UNCHANGED inflight
    PROVE  WorkerInv'
<1> USE DEF save_kv_layer
<1>1. UNCHANGED <<io_tasks, written, store_tasks>>
    BY DEF SaveStream
<1>2. PrepTypes' /\ IndexInv' /\ QueueInv' /\ LayerInv'
    BY <1>1, LayerDoneInv DEF WorkerInv, LayerInv
<1>3. StoreInv'
    BY <1>1, StoreFrame DEF WorkerInv
<1> QED BY <1>2, <1>3 DEF WorkerInv

\* All tasks are at the layer, so what is handed on is one layer.
LEMMA SaveLayerAsyncInv ==
    ASSUME WorkerInv, save_kv_layer_async, UNCHANGED inflight
    PROVE  WorkerInv'
<1>1. CASE io_tasks = <<>>
  <2>1. UNCHANGED <<io_tasks, store_tasks, written>>
      BY <1>1 DEF save_kv_layer_async
  <2>2. PrepTypes' /\ IndexInv' /\ QueueInv' /\ LayerInv'
      BY <1>1, <2>1, LayerDoneInv DEF WorkerInv, LayerInv, save_kv_layer_async
  <2>3. StoreInv'
      BY <2>1, StoreFrame DEF WorkerInv
  <2> QED BY <2>2, <2>3 DEF WorkerInv
<1>2. CASE io_tasks # <<>>
  <2>1. /\ io_tasks \in Seq(IOSpec) /\ layer \in Layers /\ layer < NumLayers
        /\ \A i \in DOMAIN io_tasks : io_tasks[i].layer = layer
      BY WorkerAssumption
      DEF WorkerInv, LayerInv, TasksFollowLayers, InForward, LayerDone, Layers, save_kv_layer_async
  <2>2. DueTasks = DOMAIN io_tasks
      BY <2>1 DEF DueTasks
  <2>3. /\ io_tasks' = AdvancedTasks
        /\ store_tasks' = Append(store_tasks, [files |-> DueFiles, layers |-> DueLayers])
        /\ written' = written
      BY <1>2 DEF QueueStoreTask, save_kv_layer_async
  <2>4. PICK i \in DOMAIN io_tasks : TRUE
      BY <1>2, <2>1
  <2>5. DueLayers = {layer}
      BY <2>1, <2>2, <2>4 DEF DueLayers
  <2>6. DueFiles # {} /\ DueFiles \subseteq Files
    <3>1. \A j \in DOMAIN io_tasks : io_tasks[j] \in IOSpec
        BY <2>1
    <3>2. \A j \in DOMAIN io_tasks : io_tasks[j].file \in Files
        BY <3>1 DEF IOSpec
    <3>3. DueFiles = {io_tasks[j].file : j \in DOMAIN io_tasks}
        BY <2>2 DEF DueFiles
    <3> QED BY <2>4, <3>2, <3>3
  <2>7. /\ io_tasks' \in Seq(IOSpec)
        /\ \A j \in DOMAIN io_tasks' : io_tasks'[j].layer = layer + 1
    <3> DEFINE adv(j) == [io_tasks[j] EXCEPT !.layer = @ + 1]
    <3>1. Len(io_tasks) \in Nat /\ DOMAIN io_tasks = 1 .. Len(io_tasks)
        BY <2>1
    <3>2. layer \in Nat
        BY <2>1 DEF Layers
    <3>3. ASSUME NEW j \in 1 .. Len(io_tasks)
          PROVE  adv(j) \in IOSpec /\ adv(j).layer = layer + 1
      <4>1. io_tasks[j] \in IOSpec /\ io_tasks[j].layer = layer
          BY <2>1, <3>1
      <4> QED BY <3>2, <4>1 DEF IOSpec
    <3>4. io_tasks' = [j \in 1 .. Len(io_tasks) |-> adv(j)]
        BY <2>2, <2>3, <3>1 DEF AdvancedTasks
    <3> HIDE DEF adv
    <3>5. io_tasks' \in Seq(IOSpec)
        BY <3>1, <3>3, <3>4
    <3>6. DOMAIN io_tasks' = 1 .. Len(io_tasks)
        BY <3>4
    <3> QED BY <3>3, <3>4, <3>5, <3>6
  <2>8. PrepTypes' /\ IndexInv' /\ QueueInv' /\ LayerInv'
      BY <2>7, LayerDoneInv DEF save_kv_layer_async
  <2>9. StoreInv'
    <3> DEFINE t == [files |-> DueFiles, layers |-> DueLayers]
    <3>1. t \in StoreLayerTask
        BY <2>1, <2>5, <2>6 DEF StoreLayerTask
    <3>2. t.files # {} /\ Cardinality(t.layers) = 1
        BY <2>5, <2>6, FS_Singleton
    <3>3. store_tasks' = Append(store_tasks, t)
        BY <2>3
    <3> HIDE DEF t
    <3> QED BY <2>3, <3>1, <3>2, <3>3 DEF WorkerInv, StoreInv, StoreTasksUniform
  <2> QED BY <2>8, <2>9 DEF WorkerInv
<1> QED BY <1>1, <1>2

LEMMA LaunchInv ==
    ASSUME WorkerInv, NEW b \in Budgets, launch_io(b), UNCHANGED inflight
    PROVE  WorkerInv'
<1>1. CASE b = NoBudget
    BY <1>1, RaiseInv DEF launch_io
<1>2. CASE b # NoBudget
  <2> DEFINE n == Least(b, Len(store_tasks))
             due(f) == {j \in 1 .. n : f \in store_tasks[j].files}
  <2>1. b \in Nat
      BY <1>2, WorkerAssumption
  <2>2. store_tasks \in Seq(StoreLayerTask) /\ Len(store_tasks) \in Nat
      BY DEF WorkerInv, StoreInv
  <2>3. n \in Nat /\ n <= Len(store_tasks)
      BY <2>1, <2>2 DEF Least
  <2>4. /\ store_tasks' = SubSeq(store_tasks, n + 1, Len(store_tasks))
        /\ written' = [f \in Files |-> written[f] \union
                          UNION {store_tasks[i].layers : i \in due(f)}]
        /\ UNCHANGED <<indexVars, wpc, prepVars, queueVars, current_layer, layer, loaded>>
      BY <1>2 DEF launch_io
  <2> HIDE DEF n
  <2>5. PrepTypes' /\ IndexInv' /\ QueueInv' /\ LayerInv'
    <3>1. wpc' \in WorkerPCs
        BY <2>4 DEF WorkerInv, PrepTypes
    <3> QED BY <2>4, <3>1, PrepFrame, IndexFrame, QueueFrame, LayerFrame
            DEF WorkerInv, prepVars, queueVars
  <2>6. /\ store_tasks' \in Seq(StoreLayerTask)
        /\ Len(store_tasks') = Len(store_tasks) - n
        /\ \A i \in 1 .. Len(store_tasks) - n : store_tasks'[i] = store_tasks[n + i]
      BY <2>2, <2>3, <2>4
  <2>7. StoreTasksUniform'
    <3>1. \A i \in 1 .. Len(store_tasks) - n : n + i \in DOMAIN store_tasks
        BY <2>2, <2>3
    <3> QED BY <2>6, <3>1 DEF WorkerInv, StoreInv, StoreTasksUniform
  <2>8. written' \in [Files -> SUBSET Layers]
    <3>1. \A i \in 1 .. n : store_tasks[i].layers \in SUBSET Layers
      <4>1. \A i \in 1 .. n : store_tasks[i] \in StoreLayerTask
          BY <2>2, <2>3
      <4> QED BY <4>1 DEF StoreLayerTask
    <3>2. written \in [Files -> SUBSET Layers]
        BY DEF WorkerInv, StoreInv
    <3>3. ASSUME NEW f \in Files
          PROVE  written[f] \union UNION {store_tasks[i].layers : i \in due(f)}
                   \in SUBSET Layers
        BY <3>1, <3>2
    <3> HIDE DEF due
    <3> QED BY <2>4, <3>3
  <2> QED BY <2>5, <2>6, <2>7, <2>8 DEF WorkerInv, StoreInv
<1> QED BY <1>1, <1>2

LEMMA StepDoneInv ==
    ASSUME WorkerInv, StepDone, UNCHANGED inflight
    PROVE  WorkerInv'
<1> USE DEF StepDone, WorkerInv
<1>1. PrepTypes'
    BY PrepFrame DEF WorkerPCs
<1>2. IndexInv' /\ QueueInv' /\ StoreInv'
    BY IndexFrame, QueueFrame, StoreFrame DEF queueVars, layerVars
<1>3. LayerInv'
    BY DEF LayerInv, TasksFollowLayers, InForward, queueVars, layerVars
<1> QED BY <1>1, <1>2, <1>3

-----------------------------------------------------------------------------
(* The theorems. *)

LEMMA WorkerNextInv ==
    ASSUME WorkerInv, SchedInv, [Next]_vars
    PROVE  WorkerInv'
<1>1. CASE UNCHANGED <<workerVars, inflight>>
  <2>1. wpc' \in WorkerPCs
      BY <1>1 DEF WorkerInv, PrepTypes, workerVars
  <2> QED BY <1>1, <2>1, PrepFrame, IndexFrame, QueueFrame, LayerFrame, StoreFrame
          DEF WorkerInv, workerVars, prepVars, queueVars, layerVars
<1>2. CASE SendMeta
    BY <1>2, SendMetaInv
<1>3. CASE BeginStep
    BY <1>3, BeginStepInv
<1>4. CASE WorkerStep
  <2>1. UNCHANGED inflight
      BY <1>4 DEF WorkerStep
  <2>2. ASSUME NEW q \in loadq, prepare_for_load(q) PROVE WorkerInv'
      BY <2>1, <2>2, PrepareLoadInv
  <2>3. ASSUME NEW q \in saveq, prepare_for_store(q) PROVE WorkerInv'
      BY <2>1, <2>3, PrepareStoreInv
  <2>4. ASSUME NEW b \in Budgets, launch_io(b) PROVE WorkerInv'
      BY <2>1, <2>4, LaunchInv
  <2> QED BY <1>4, <2>1, <2>2, <2>3, <2>4, FirstLayerInv, SkipChunkInv, StoreChunkInv,
             EndStoreInv, SubmitInv, TakeTasksInv, WaitInv, AttentionInv, SaveLayerInv,
             SaveLayerAsyncInv
          DEF WorkerStep
<1>5. CASE EndStep
    BY <1>5, StepDoneInv DEF EndStep
<1> QED BY <1>1, <1>2, <1>3, <1>4, <1>5
        DEF Next, SchedulerStep, AbortRequest, EndWaiting, vars

\* The worker's invariant holds in every state, whatever the scheduler, the
\* clients and the budgets of launch_io do.
THEOREM WorkerCorrect == Spec => []WorkerInv
<1>1. Init => WorkerInv
    BY WorkerInitInv
<1>2. WorkerInv /\ SchedInv /\ [Next]_vars => WorkerInv'
    BY WorkerNextInv
<1> QED BY <1>1, <1>2, SchedCorrect, PTL DEF Spec

\* submit_tasks and get_next_ntasks keep the set of pending block ids equal to
\* the blocks of the queued tasks, each queued once.
THEOREM QueueConsistentTheorem == Spec => []QueueConsistent
<1>1. WorkerInv => QueueConsistent
    BY DEF WorkerInv, QueueInv
<1> QED BY <1>1, WorkerCorrect, PTL

\* The load of a layer is issued before its attention runs, for every number
\* of layers and whatever the step loads.
THEOREM LayerLoadedTheorem == Spec => []LayerLoadedBeforeAttention
<1>1. WorkerInv => LayerLoadedBeforeAttention
    BY DEF WorkerInv, LayerInv, LayerLoadedBeforeAttention
<1> QED BY <1>1, WorkerCorrect, PTL

\* The assertion of layerwise_batch_put_for_async never fails: a store task
\* has files, all of one layer.
THEOREM StoreTasksUniformTheorem == Spec => []StoreTasksUniform
<1>1. WorkerInv => StoreTasksUniform
    BY DEF WorkerInv, StoreInv
<1> QED BY <1>1, WorkerCorrect, PTL

\* With the asynchronous hook, the save tasks of a step are always at the layer
\* the forward pass is at.
THEOREM TasksFollowLayersTheorem ==
    ASSUME AsyncSave
    PROVE  Spec => []TasksFollowLayers
<1>1. WorkerInv => TasksFollowLayers
    BY DEF WorkerInv, LayerInv
<1> QED BY <1>1, WorkerCorrect, PTL

\* Type correctness of scheduler half, channel and worker half together.
THEOREM TypeCorrect == Spec => []TypeOK
<1>1. SchedInv /\ WorkerInv => TypeOK
  <2> SUFFICES ASSUME SchedInv, WorkerInv PROVE TypeOK
      OBVIOUS
  <2>1. /\ inflight \in Seq(Meta)
        /\ loadq \subseteq ReqMeta /\ saveq \subseteq ReqMeta
    <3>1. GoodMeta \subseteq ReqMeta
        BY DEF GoodMeta
    <3>2. GoodStep \subseteq Meta
        BY <3>1 DEF GoodStep, Meta
    <3> QED BY <3>1, <3>2 DEF WorkerInv, PrepTypes
  <2>2. /\ load_pairs \subseteq Pair /\ pending \subseteq Blocks
        /\ new_tasks \in Seq(IOSpec) /\ tasks \in Seq(IOSpec)
      BY DEF WorkerInv, QueueInv, FreshTask
  <2>3. /\ current_layer \in 0 .. NumLayers /\ layer \in 0 .. NumLayers
        /\ io_tasks \in Seq(IOSpec)
      BY DEF WorkerInv, LayerInv
  <2>4. /\ dict \in [Keys -> Files \union {NoFile}] /\ free \subseteq Files
        /\ written \in [Files -> SUBSET Layers]
      BY DEF WorkerInv, IndexInv, StoreInv
  <2>5. \A r \in Requests : num_tokens[r] \in PromptLen[r] .. Len(Tokens[r])
    <3> SUFFICES ASSUME NEW r \in Requests
                 PROVE  num_tokens[r] \in PromptLen[r] .. Len(Tokens[r])
        OBVIOUS
    <3>1. PromptLen[r] \in Nat /\ num_tokens[r] \in Nat /\ Len(Tokens[r]) \in Nat
        BY TokensAssumption, SchedulerAssumption DEF SchedInv, SchedTypes
    <3>2. PromptLen[r] <= num_tokens[r] /\ num_tokens[r] <= Len(Tokens[r])
        BY DEF SchedInv, SchedTypes
    <3> QED BY <3>1, <3>2
  <2>6. status \in [Requests -> {"waiting", "running", "preempted", "finished"}]
      BY DEF SchedInv, SchedTypes, Statuses
  <2> QED BY <2>1, <2>2, <2>3, <2>4, <2>5, <2>6 DEF TypeOK, SchedInv, SchedTypes
<1> QED BY <1>1, SchedCorrect, WorkerCorrect, PTL
=============================================================================
