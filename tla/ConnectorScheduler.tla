------------------------- MODULE ConnectorScheduler -------------------------
(***************************************************************************)
(* The scheduler half of InfiniKVConnectorV1Impl                           *)
(* (integration/vllm/vllm_v1_adapter.py): load specs, request trackers and *)
(* the metadata built for the worker, driven by the vLLM scheduler loop.   *)
(*                                                                         *)
(* One scheduling round is: running requests get tokens (or are preempted  *)
(* when blocks run out), waiting requests are matched against the caches   *)
(* and get blocks, then build_connector_meta closes the round.             *)
(*                                                                         *)
(* Token ids are kept as counts: every sequence the code handles is a      *)
(* prefix of Tokens[r], so its length says all.                            *)
(***************************************************************************)
EXTENDS TokenDatabase, FiniteSets

CONSTANTS
    PromptLen,            \* PromptLen[r]: length of r's prompt
    Blocks,               \* the GPU blocks of vLLM's KV cache
    BlockSize,            \* vLLM's block size, taken as the adapter's chunk size
    PrefixCaching,        \* enable_caching of vLLM's KV cache manager
    KVRole,               \* kv_transfer_config.kv_role
    DiscardPartialChunks, \* extra config discard_partial_chunks
    SkipLastNTokens,      \* extra config skip_last_n_tokens
    MaxPreemptions,       \* bound: how often memory pressure preempts one request
    NoSpec, NoTracker, NoLoad, NoMatch, NoKey

ASSUME SchedulerAssumption ==
    /\ PromptLen \in [Requests -> Nat]
    /\ \A r \in Requests : PromptLen[r] \in 1 .. Len(Tokens[r])
    /\ BlockSize \in Nat \ {0}
    /\ SkipLastNTokens \in Nat
    /\ KVRole \in {"kv_both", "kv_producer", "kv_consumer"}
    /\ PrefixCaching \in BOOLEAN
    /\ DiscardPartialChunks \in BOOLEAN
    /\ MaxPreemptions \in Nat
    /\ NoSpec \notin [vllm : Nat, ext : Nat, can_load : BOOLEAN]
    /\ NoTracker \notin [len : Nat, blocks : Seq(Blocks), saved : Nat]
    /\ NoLoad \notin [vllm : Nat, ext : Nat]
    /\ NoKey \notin Keys

VARIABLES
    status,            \* vLLM request status
    num_tokens,        \* request.num_tokens: prompt and output so far
    num_computed,      \* request.num_computed_tokens
    num_preemptions,   \* request.num_preemptions
    blocks,            \* blocks the KV cache manager gave to the request
    block_hash,        \* the prefix whose last chunk a block holds (vLLM's prefix cache)
    phase,             \* where the round is: "running", "preempted", "waiting", "full"
    round,             \* what the round has scheduled so far
    match,             \* the waiting request between matching and allocation
    load_specs,        \* self.load_specs
    trackers,          \* self._request_trackers
    requests_in_step,  \* self._requests_in_step
    finished_req_ids   \* requests finished since the last round

vllmVars == <<status, num_tokens, num_computed, num_preemptions, blocks, block_hash>>
roundVars == <<phase, round, match>>
connVars == <<load_specs, trackers, requests_in_step, finished_req_ids>>
schedVars == <<vllmVars, roundVars, connVars>>

LoadSpec == [vllm : Nat, ext : Nat, can_load : BOOLEAN]
Tracker == [len : Nat, blocks : Seq(Blocks), saved : Nat]
ReqMeta == [req : Requests, len : Nat, block_ids : Seq(Blocks), skip : Nat,
            can_save : BOOLEAN, load : [vllm : Nat, ext : Nat] \union {NoLoad}]
Scheduled == [req : Requests, start : Nat, n : Nat, ext : Nat, new_blocks : Seq(Blocks),
              kind : {"new", "running", "resumed"}]
Match == [req : Requests, local : Nat, ext : Nat, blocks : Seq(Blocks)]

SchedInit ==
    /\ status = [r \in Requests |-> "waiting"]
    /\ num_tokens = PromptLen
    /\ num_computed = [r \in Requests |-> 0]
    /\ num_preemptions = [r \in Requests |-> 0]
    /\ blocks = [r \in Requests |-> <<>>]
    /\ block_hash = [b \in Blocks |-> NoKey]
    /\ phase = "running"
    /\ round = {}
    /\ match = NoMatch
    /\ load_specs = [r \in Requests |-> NoSpec]
    /\ trackers = [r \in Requests |-> NoTracker]
    /\ requests_in_step = {}
    /\ finished_req_ids = {}

-----------------------------------------------------------------------------
(* vLLM's side of the calls (external to the connector). *)

InRound == {x.req : x \in round}

\* The engine core is not in the middle of schedule().
BetweenRounds == round = {} /\ match = NoMatch /\ phase = "running"

BlocksOf(seq) == {seq[i] : i \in DOMAIN seq}

FreeBlocks ==
    Blocks \ (UNION {BlocksOf(blocks[r]) : r \in Requests}
              \union (IF match = NoMatch THEN {} ELSE BlocksOf(match.blocks)))

\* Blocks to add so that `have` blocks grow to hold `tokens` tokens.
Missing(have, tokens) ==
    LET need == (tokens + BlockSize - 1) \div BlockSize
    IN  IF need > have THEN need - have ELSE 0

FreshBlocks(k) ==
    {s \in [1 .. k -> FreeBlocks] : \A i, j \in 1 .. k : s[i] = s[j] => i = j}

\* allocate_slots: blocks handed out anew lose their cached content, and
\* every block the request fills up to `tokens` is entered in the prefix cache.
CacheBlocks(r, bs, fresh, tokens) ==
    [b \in Blocks |->
        IF \E j \in 1 .. tokens \div BlockSize : bs[j] = b
        THEN Key(r, (CHOOSE j \in 1 .. tokens \div BlockSize : bs[j] = b) * BlockSize)
        ELSE IF b \in BlocksOf(fresh) THEN NoKey ELSE block_hash[b]]

\* get_computed_blocks: the longest run of leading full blocks found in the
\* prefix cache, at most num_tokens - 1 tokens; none with caching disabled.
IsLocalHit(r, h, bs) ==
    /\ PrefixCaching \/ h = 0
    /\ h % BlockSize = 0
    /\ h <= num_tokens[r] - 1
    /\ bs \in [1 .. h \div BlockSize -> Blocks]
    /\ \A j \in 1 .. h \div BlockSize : block_hash[bs[j]] = Key(r, j * BlockSize)
    /\ PrefixCaching /\ h + BlockSize <= num_tokens[r] - 1 =>
          \A b \in Blocks : block_hash[b] # Key(r, h + BlockSize)

\* A running request gets n more tokens and the blocks for them.
ScheduleRunning(r, n) ==
    /\ phase \in {"running", "preempted"}
    /\ status[r] = "running"
    /\ r \notin InRound
    /\ n \in 1 .. num_tokens[r] - num_computed[r]
    /\ \E fresh \in FreshBlocks(Missing(Len(blocks[r]), num_computed[r] + n)) :
          /\ blocks' = [blocks EXCEPT ![r] = @ \o fresh]
          /\ block_hash' = CacheBlocks(r, blocks[r] \o fresh, fresh, num_computed[r] + n)
          /\ round' = round \union
                {[req |-> r, start |-> num_computed[r], n |-> n, ext |-> 0,
                  new_blocks |-> fresh, kind |-> "running"]}
    /\ UNCHANGED <<status, num_tokens, num_computed, num_preemptions, phase, match,
                   connVars>>

\* A running request cannot get its blocks, so r is preempted
\* (_preempt_request): its blocks are freed and it starts over.
Preempt(r) ==
    /\ num_preemptions[r] < MaxPreemptions
    /\ phase \in {"running", "preempted"}
    /\ status[r] = "running"
    /\ r \notin InRound
    /\ \E s \in Requests \ InRound :
          /\ status[s] = "running"
          /\ \E n \in 1 .. num_tokens[s] - num_computed[s] :
                Missing(Len(blocks[s]), num_computed[s] + n) > Cardinality(FreeBlocks)
    /\ status' = [status EXCEPT ![r] = "preempted"]
    /\ num_computed' = [num_computed EXCEPT ![r] = 0]
    /\ num_preemptions' = [num_preemptions EXCEPT ![r] = @ + 1]
    /\ blocks' = [blocks EXCEPT ![r] = <<>>]
    /\ phase' = "preempted"
    /\ UNCHANGED <<num_tokens, block_hash, round, match, connVars>>

\* allocate_slots returns None: the waiting loop ends for this round.  The
\* load spec made by get_num_new_matched_tokens stays behind.
AllocFails ==
    /\ match # NoMatch
    /\ \E n \in 1 .. num_tokens[match.req] - match.local - match.ext :
          Missing(Len(match.blocks), match.local + match.ext + n) > Cardinality(FreeBlocks)
    /\ match' = NoMatch
    /\ phase' = "full"
    /\ UNCHANGED <<vllmVars, round, connVars>>

\* A request is aborted by its client between two rounds.
Abort(r) ==
    /\ BetweenRounds
    /\ status[r] # "finished"
    /\ status' = [status EXCEPT ![r] = "finished"]
    /\ blocks' = [blocks EXCEPT ![r] = <<>>]
    /\ finished_req_ids' = finished_req_ids \union {r}
    /\ UNCHANGED <<num_tokens, num_computed, num_preemptions, block_hash, roundVars,
                   load_specs, trackers, requests_in_step>>

-----------------------------------------------------------------------------
(* The connector's handlers. *)

\* The tokens get_num_new_matched_tokens asks the lookup client about.
LookupLen(r) ==
    IF SkipLastNTokens > PromptLen[r] THEN 0 ELSE PromptLen[r] - SkipLastNTokens

\* Mutant: the full-prompt hit is not given special treatment.
NeedWithoutLastToken(r, hit, local) == hit - local

\* need_to_allocate: the full-prompt hit recomputes the last token.
NeedToAllocate(r, hit, local) ==
    hit - local - (IF hit = num_tokens[r] THEN 1 ELSE 0)

\* Mutant: a load spec left by an earlier attempt is kept.
KeepOldSpec(r, h, hit) ==
    IF load_specs[r] # NoSpec THEN load_specs
    ELSE [load_specs EXCEPT ![r] = [vllm |-> h, ext |-> hit, can_load |-> FALSE]]

\* The load spec of a hit beyond the h tokens vLLM holds itself.
AddLoadSpec(r, h, hit) ==
    [load_specs EXCEPT ![r] = [vllm |-> h, ext |-> hit, can_load |-> FALSE]]

\* `hit` is the answer of the lookup client.  A kv_producer asks too: every
\* lookup client has the attribute supports_producer_reuse.
get_num_new_matched_tokens(r, hit) ==
    /\ phase \in {"running", "waiting"}
    /\ match = NoMatch
    /\ status[r] \in {"waiting", "preempted"}
    /\ \E h \in 0 .. num_tokens[r] : \E bs \in [1 .. h \div BlockSize -> Blocks] :
          /\ IsLocalHit(r, h, bs)
          /\ LET need == NeedToAllocate(r, hit, h)
                 miss == need <= 0
             IN /\ load_specs' = IF miss THEN load_specs ELSE AddLoadSpec(r, h, hit)
                /\ match' = [req |-> r, local |-> h, blocks |-> bs,
                             ext |-> IF miss THEN 0 ELSE need]
    /\ phase' = "waiting"
    /\ UNCHANGED <<vllmVars, round, trackers, requests_in_step, finished_req_ids>>

\* Mutant: the spec is never released for loading.
SpecNeverLoads(spec, num_external) ==
    IF spec = NoSpec THEN spec ELSE [spec EXCEPT !.can_load = FALSE]

\* The load spec after allocation of num_external tokens.
SpecAfterAlloc(spec, num_external) ==
    IF spec = NoSpec THEN spec ELSE [spec EXCEPT !.can_load = num_external # 0]

\* The matched request gets blocks for n new tokens; vLLM tells the connector
\* and the request runs.
update_state_after_alloc(n) ==
    /\ match # NoMatch
    /\ LET r == match.req
           computed == match.local + match.ext
       IN /\ n \in 1 .. num_tokens[r] - computed
          /\ \E fresh \in FreshBlocks(Missing(Len(match.blocks), computed + n)) :
                LET bs == match.blocks \o fresh IN
                /\ blocks' = [blocks EXCEPT ![r] = bs]
                /\ block_hash' = CacheBlocks(r, bs, fresh, computed + n)
                /\ round' = round \union
                      {[req |-> r, start |-> computed, n |-> n, ext |-> match.ext,
                        new_blocks |-> bs,
                        kind |-> IF status[r] = "waiting" THEN "new" ELSE "resumed"]}
          /\ load_specs' = [load_specs EXCEPT ![r] = SpecAfterAlloc(@, match.ext)]
          /\ requests_in_step' = requests_in_step \union {r}
          /\ status' = [status EXCEPT ![r] = "running"]
          /\ num_computed' = [num_computed EXCEPT ![r] = computed]
    /\ match' = NoMatch
    /\ UNCHANGED <<num_tokens, num_preemptions, phase, trackers, finished_req_ids>>

-----------------------------------------------------------------------------
(* build_connector_meta. *)

\* RequestTracker.from_new_request; num_saved_tokens is what the load spec
\* found outside, whether or not it may be loaded.
NewTracker(x, spec) ==
    [len |-> Least(PromptLen[x.req], x.start + x.n),
     blocks |-> x.new_blocks,
     saved |-> IF spec = NoSpec THEN 0 ELSE spec.ext]

\* Mutant: the new tokens are sliced from the prompt instead of all tokens.
UpdateFromPrompt(t, x) ==
    [len |-> Least(PromptLen[x.req], t.len + x.n),
     blocks |-> t.blocks \o x.new_blocks, saved |-> t.saved]

\* Mutant: the new blocks replace the tracked ones, for every cached request.
UpdateReplacesBlocks(t, x) ==
    [len |-> Least(num_tokens[x.req], t.len + x.n),
     blocks |-> x.new_blocks, saved |-> t.saved]

\* RequestTracker.update with the slice of all_token_ids that follows the
\* tokens already tracked.
UpdateTracker(t, x) ==
    [len |-> Least(num_tokens[x.req], t.len + x.n),
     blocks |-> t.blocks \o x.new_blocks, saved |-> t.saved]

\* ReqMeta.from_request_tracker: when a save is due, up to which token.
ChunkBoundary(t) == (t.saved \div BlockSize + 1) * BlockSize

SkipSave(t) == KVRole = "kv_consumer" \/ t.len < ChunkBoundary(t)

NumTokensToSave(t) ==
    IF DiscardPartialChunks THEN (t.len \div BlockSize) * BlockSize ELSE t.len

\* The tracker after from_request_tracker, and the metadata it returns.
SavedTracker(t) == IF SkipSave(t) THEN t ELSE [t EXCEPT !.saved = NumTokensToSave(t)]

MetaOf(r, t, spec) ==
    [req |-> r, len |-> NumTokensToSave(t), block_ids |-> t.blocks,
     skip |-> t.saved, can_save |-> ~SkipSave(t),
     load |-> IF spec # NoSpec /\ spec.can_load
              THEN [vllm |-> spec.vllm, ext |-> spec.ext] ELSE NoLoad]

\* The load spec a scheduled request takes along: only new requests do.
SpecOf(x) == IF x.kind = "new" THEN load_specs[x.req] ELSE NoSpec

\* The tracker of a scheduled request, before from_request_tracker.
TrackerOf(x) ==
    IF x.kind = "new" THEN NewTracker(x, SpecOf(x))
                      ELSE UpdateTracker(trackers[x.req], x)

\* The metadata of the round: requests with something to load or save, and the
\* forward pass the worker will run.
RoundMeta ==
    [requests |-> {MetaOf(x.req, TrackerOf(x), SpecOf(x)) :
                     x \in {y \in round : ~SkipSave(TrackerOf(y)) \/ SpecOf(y) # NoSpec}},
     work |-> {[req |-> x.req, upto |-> x.start + x.n] : x \in round}]

\* Mutant: the request objects are dropped with every round.
NoRequestsKept == {}

RequestsKept == requests_in_step \ finished_req_ids

\* Also called when nothing was scheduled, as long as the engine has requests.
build_connector_meta ==
    /\ match = NoMatch
    /\ finished_req_ids # {} \/ \E r \in Requests : status[r] # "finished"
    /\ trackers' = [r \in Requests |->
          IF r \in InRound
          THEN LET x == CHOOSE y \in round : y.req = r IN SavedTracker(TrackerOf(x))
          ELSE IF r \in finished_req_ids THEN NoTracker ELSE trackers[r]]
    /\ load_specs' = [r \in Requests |->
          IF \E x \in round : x.req = r /\ x.kind = "new" THEN NoSpec ELSE load_specs[r]]
    /\ requests_in_step' = RequestsKept
    /\ num_computed' = [r \in Requests |->
          IF r \in InRound
          THEN LET x == CHOOSE y \in round : y.req = r IN x.start + x.n
          ELSE num_computed[r]]
    /\ finished_req_ids' = {}
    /\ round' = {}
    /\ phase' = "running"
    /\ UNCHANGED <<status, num_tokens, num_preemptions, blocks, block_hash, match>>

\* update_from_output: the requests whose pass reached their last token got a
\* new one; those in fin stop there and free their blocks (request_finished
\* returns a false delay_free_blocks).
update_from_output(passed, fin) ==
    LET sampled == {w.req : w \in {v \in passed : /\ v.upto = num_tokens[v.req]
                                                  /\ status[v.req] # "finished"}}
    IN /\ BetweenRounds
       /\ fin \subseteq sampled
       /\ \A r \in sampled : num_tokens[r] = Len(Tokens[r]) => r \in fin
       /\ num_tokens' = [r \in Requests |->
             IF r \in sampled \ fin THEN num_tokens[r] + 1 ELSE num_tokens[r]]
       /\ status' = [r \in Requests |-> IF r \in fin THEN "finished" ELSE status[r]]
       /\ blocks' = [r \in Requests |-> IF r \in fin THEN <<>> ELSE blocks[r]]
       /\ finished_req_ids' = finished_req_ids \union fin
       /\ UNCHANGED <<num_computed, num_preemptions, block_hash, roundVars,
                      load_specs, trackers, requests_in_step>>
=============================================================================
