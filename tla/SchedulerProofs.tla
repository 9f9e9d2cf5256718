-------------------------- MODULE SchedulerProofs --------------------------
(***************************************************************************)
(* Proofs about the scheduler half of the connector, for every number of   *)
(* requests, blocks, files and preemptions and every token sequence.       *)
(*                                                                         *)
(* SchedInv is inductive.  Type correctness alone is not: the tracker that *)
(* build_connector_meta updates must exist, which needs the history of a   *)
(* request's status (TrackInv).                                            *)
(***************************************************************************)
EXTENDS KVConnector, TLAPS

Statuses == {"waiting", "running", "preempted", "finished"}

SchedTypes ==
    /\ status \in [Requests -> Statuses]
    /\ num_tokens \in [Requests -> Nat]
    /\ \A r \in Requests : PromptLen[r] <= num_tokens[r] /\ num_tokens[r] <= Len(Tokens[r])
    /\ num_computed \in [Requests -> Nat]
    /\ num_preemptions \in [Requests -> Nat]
    /\ blocks \in [Requests -> Seq(Blocks)]
    /\ block_hash \in [Blocks -> Keys \union {NoKey}]
    /\ round \subseteq Scheduled
    /\ match \in Match \union {NoMatch}
    /\ load_specs \in [Requests -> LoadSpec \union {NoSpec}]
    /\ trackers \in [Requests -> Tracker \union {NoTracker}]
    /\ requests_in_step \subseteq Requests
    /\ finished_req_ids \subseteq Requests

\* What the status of a request says about its tracker, and the other way round.
TrackInv ==
    /\ \A r \in Requests : trackers[r] # NoTracker => trackers[r].len <= num_tokens[r]
    /\ \A x \in round : status[x.req] = "running"
    /\ \A x \in round : x.kind # "new" => trackers[x.req] # NoTracker
    /\ \A r \in Requests : status[r] = "preempted" => trackers[r] # NoTracker
    /\ \A r \in Requests :
          status[r] = "running" => r \in InRound \/ trackers[r] # NoTracker
    /\ \A r \in Requests :
          status[r] \in {"running", "preempted"} => r \in requests_in_step
    /\ \A r \in finished_req_ids : status[r] = "finished"
    /\ match # NoMatch => status[match.req] \in {"waiting", "preempted"}

SchedInv == SchedTypes /\ TrackInv

-----------------------------------------------------------------------------
(* Arithmetic of chunks and blocks. *)

\* Division rounds down.
LEMMA DivNat ==
    ASSUME NEW a \in Nat, NEW b \in Nat \ {0}
    PROVE  /\ a \div b \in Nat
           /\ (a \div b) * b <= a
           /\ (a \div b) * b \in Nat
    OBVIOUS

\* The ends of full blocks lie within the tokens.
LEMMA BlockEnd ==
    ASSUME NEW a \in Nat, NEW b \in Nat \ {0}, NEW j \in 1 .. a \div b
    PROVE  j * b \in 1 .. a
    BY DivNat

LEMMA KeyType ==
    ASSUME NEW r \in Requests, NEW n \in 0 .. Len(Tokens[r])
    PROVE  Key(r, n) \in Keys
    BY DEF Keys

\* The number of blocks to add is a number.
LEMMA MissingNat ==
    ASSUME NEW have \in Nat, NEW tokens \in Nat
    PROVE  Missing(have, tokens) \in Nat
<1>1. tokens + BlockSize - 1 \in Nat
    BY SchedulerAssumption
<1>2. (tokens + BlockSize - 1) \div BlockSize \in Nat
    BY <1>1, DivNat, SchedulerAssumption
<1> QED BY <1>2 DEF Missing

\* Fresh blocks are a sequence of blocks.
LEMMA FreshSeq ==
    ASSUME NEW k \in Nat, NEW s \in FreshBlocks(k)
    PROVE  s \in Seq(Blocks)
    BY DEF FreshBlocks, FreeBlocks

\* CacheBlocks enters only keys of the request's own prefixes.
LEMMA CacheBlocksType ==
    ASSUME block_hash \in [Blocks -> Keys \union {NoKey}],
           NEW r \in Requests, NEW bs, NEW fresh,
           NEW tokens \in 0 .. Len(Tokens[r])
    PROVE  CacheBlocks(r, bs, fresh, tokens) \in [Blocks -> Keys \union {NoKey}]
<1> SUFFICES ASSUME NEW b \in Blocks, \E j \in 1 .. tokens \div BlockSize : bs[j] = b
             PROVE  Key(r, (CHOOSE j \in 1 .. tokens \div BlockSize : bs[j] = b) * BlockSize)
                       \in Keys
    BY DEF CacheBlocks
<1> DEFINE c == CHOOSE j \in 1 .. tokens \div BlockSize : bs[j] = b
<1>1. c \in 1 .. tokens \div BlockSize
    OBVIOUS
<1>0. Len(Tokens[r]) \in Nat
    BY TokensAssumption
<1>2. c * BlockSize \in 1 .. tokens
    BY <1>0, <1>1, BlockEnd, SchedulerAssumption
<1>3. c * BlockSize \in 0 .. Len(Tokens[r])
    BY <1>0, <1>2
<1> QED BY <1>3, KeyType

-----------------------------------------------------------------------------
(* One lemma per action of the scheduler. *)

LEMMA SchedInitInv == Init => SchedInv
<1>1. ASSUME NEW r \in Requests PROVE Len(Tokens[r]) \in Nat
    BY TokensAssumption
<1> SUFFICES ASSUME SchedInit PROVE SchedInv
    BY DEF Init
<1>2. SchedTypes
    BY <1>1, SchedulerAssumption DEF SchedInit, SchedTypes, Statuses
<1>3. TrackInv
    BY DEF SchedInit, TrackInv
<1> QED BY <1>2, <1>3 DEF SchedInv

LEMMA ScheduleRunningInv ==
    ASSUME SchedInv, NEW r \in Requests, NEW n, ScheduleRunning(r, n)
    PROVE  SchedInv'
<1> USE DEF SchedInv
<1>1. /\ status[r] = "running" /\ r \notin InRound
      /\ n \in 1 .. num_tokens[r] - num_computed[r]
      /\ UNCHANGED <<status, num_tokens, num_computed, num_preemptions, phase, match,
                     load_specs, trackers, requests_in_step, finished_req_ids>>
    BY DEF ScheduleRunning, connVars
<1>2. num_computed[r] \in Nat /\ num_tokens[r] \in Nat /\ Len(Tokens[r]) \in Nat
      /\ num_tokens[r] <= Len(Tokens[r])
    BY TokensAssumption DEF SchedTypes
<1> DEFINE upto == num_computed[r] + n
<1>3. n \in Nat /\ upto \in Nat /\ upto <= num_tokens[r] /\ upto \in 0 .. Len(Tokens[r])
    BY <1>1, <1>2
<1>4. Len(blocks[r]) \in Nat /\ blocks[r] \in Seq(Blocks)
    BY DEF SchedTypes
<1> HIDE DEF upto
<1>5. PICK fresh \in FreshBlocks(Missing(Len(blocks[r]), upto)) :
         /\ blocks' = [blocks EXCEPT ![r] = @ \o fresh]
         /\ block_hash' = CacheBlocks(r, blocks[r] \o fresh, fresh, upto)
         /\ round' = round \union
               {[req |-> r, start |-> num_computed[r], n |-> n, ext |-> 0,
                 new_blocks |-> fresh, kind |-> "running"]}
    BY DEF ScheduleRunning, upto
<1>6. fresh \in Seq(Blocks)
    BY <1>3, <1>4, FreshSeq, MissingNat
<1>7. blocks' \in [Requests -> Seq(Blocks)]
    BY <1>4, <1>5, <1>6 DEF SchedTypes
<1>8. block_hash' \in [Blocks -> Keys \union {NoKey}]
    BY <1>3, <1>5, CacheBlocksType DEF SchedTypes
<1> DEFINE x == [req |-> r, start |-> num_computed[r], n |-> n, ext |-> 0,
                 new_blocks |-> fresh, kind |-> "running"]
<1>9. x \in Scheduled /\ x.req = r
    BY <1>2, <1>3, <1>6 DEF Scheduled
<1>10. round' = round \union {x}
    BY <1>5
<1> HIDE DEF x
<1>11. SchedTypes'
    BY <1>1, <1>7, <1>8, <1>9, <1>10 DEF SchedTypes
<1>12. trackers[r] # NoTracker
    BY <1>1 DEF TrackInv
<1>13. TrackInv'
    BY <1>1, <1>9, <1>10, <1>12 DEF TrackInv, InRound
<1> QED BY <1>11, <1>13

LEMMA PreemptInv ==
    ASSUME SchedInv, NEW r \in Requests, Preempt(r)
    PROVE  SchedInv'
<1> USE DEF SchedInv
<1>1. /\ status[r] = "running" /\ r \notin InRound
      /\ status' = [status EXCEPT ![r] = "preempted"]
      /\ num_computed' = [num_computed EXCEPT ![r] = 0]
      /\ num_preemptions' = [num_preemptions EXCEPT ![r] = @ + 1]
      /\ blocks' = [blocks EXCEPT ![r] = <<>>]
      /\ UNCHANGED <<num_tokens, block_hash, round, match, load_specs, trackers,
                     requests_in_step, finished_req_ids>>
    BY DEF Preempt, connVars
<1>2. SchedTypes'
    BY <1>1 DEF SchedTypes, Statuses
<1>3. trackers[r] # NoTracker /\ r \in requests_in_step
    BY <1>1 DEF TrackInv
<1>4. status[r] # "finished" /\ (match # NoMatch => match.req # r)
    BY <1>1 DEF TrackInv
<1>5. \A x \in round : x.req # r /\ x.req \in Requests
    BY <1>1 DEF InRound, SchedTypes, Scheduled
<1>6. match # NoMatch => match.req \in Requests
    BY DEF SchedTypes, Match
<1>7. TrackInv'
    BY <1>1, <1>3, <1>4, <1>5, <1>6 DEF TrackInv, InRound, SchedTypes
<1> QED BY <1>2, <1>7

LEMMA AllocFailsInv ==
    ASSUME SchedInv, AllocFails
    PROVE  SchedInv'
    BY DEF SchedInv, SchedTypes, TrackInv, InRound, AllocFails, vllmVars, connVars

LEMMA AbortInv ==
    ASSUME SchedInv, NEW r \in Requests, Abort(r)
    PROVE  SchedInv'
<1> USE DEF SchedInv
<1>1. /\ round = {} /\ match = NoMatch
      /\ status' = [status EXCEPT ![r] = "finished"]
      /\ blocks' = [blocks EXCEPT ![r] = <<>>]
      /\ finished_req_ids' = finished_req_ids \union {r}
      /\ UNCHANGED <<num_tokens, num_computed, num_preemptions, block_hash, round, match,
                     load_specs, trackers, requests_in_step>>
    BY DEF Abort, BetweenRounds, roundVars
<1>2. SchedTypes'
    BY <1>1 DEF SchedTypes, Statuses
<1>3. TrackInv'
    BY <1>1 DEF TrackInv, InRound, SchedTypes
<1> QED BY <1>2, <1>3

LEMMA MatchInv ==
    ASSUME SchedInv, NEW r \in Requests, NEW hit \in Nat, get_num_new_matched_tokens(r, hit)
    PROVE  SchedInv'
<1> USE DEF SchedInv
<1>1. /\ status[r] \in {"waiting", "preempted"}
      /\ UNCHANGED <<status, num_tokens, num_computed, num_preemptions, blocks, block_hash,
                     round, trackers, requests_in_step, finished_req_ids>>
    BY DEF get_num_new_matched_tokens, vllmVars
<1>2. PICK h \in 0 .. num_tokens[r] : \E bs \in [1 .. h \div BlockSize -> Blocks] :
         LET need == NeedToAllocate(r, hit, h)
             miss == need <= 0
         IN /\ load_specs' = IF miss THEN load_specs ELSE AddLoadSpec(r, h, hit)
            /\ match' = [req |-> r, local |-> h, blocks |-> bs,
                         ext |-> IF miss THEN 0 ELSE need]
    BY DEF get_num_new_matched_tokens
<1> DEFINE need == NeedToAllocate(r, hit, h)
           miss == need <= 0
<1>3. PICK bs \in [1 .. h \div BlockSize -> Blocks] :
         /\ load_specs' = IF miss THEN load_specs ELSE AddLoadSpec(r, h, hit)
         /\ match' = [req |-> r, local |-> h, blocks |-> bs,
                      ext |-> IF miss THEN 0 ELSE need]
    BY <1>2
<1>4. h \in Nat /\ num_tokens[r] \in Nat
    BY DEF SchedTypes
<1>5. need \in Int
    BY <1>4 DEF NeedToAllocate
<1>6. h \div BlockSize \in Nat
    BY <1>4, DivNat, SchedulerAssumption
<1>7. bs \in Seq(Blocks)
    BY <1>6
<1> HIDE DEF need
<1>8. match' \in Match /\ match'.req = r
    BY <1>3, <1>4, <1>5, <1>7 DEF Match
<1>9. load_specs' \in [Requests -> LoadSpec \union {NoSpec}]
    BY <1>3, <1>4 DEF SchedTypes, AddLoadSpec, LoadSpec
<1>10. SchedTypes'
    BY <1>1, <1>8, <1>9 DEF SchedTypes
<1>11. TrackInv'
    BY <1>1, <1>8 DEF TrackInv, InRound
<1> QED BY <1>10, <1>11

LEMMA AllocInv ==
    ASSUME SchedInv, NEW n, match # NoMatch, update_state_after_alloc(n)
    PROVE  SchedInv'
<1> USE DEF SchedInv
<1> DEFINE r == match.req
           computed == match.local + match.ext
           upto == computed + n
<1>1. /\ match \in Match /\ r \in Requests /\ match.blocks \in Seq(Blocks)
      /\ match.ext \in Nat /\ computed \in Nat /\ Len(match.blocks) \in Nat
    BY DEF SchedTypes, Match
<1>2. /\ n \in 1 .. num_tokens[r] - computed
      /\ load_specs' = [load_specs EXCEPT ![r] = SpecAfterAlloc(@, match.ext)]
      /\ requests_in_step' = requests_in_step \union {r}
      /\ status' = [status EXCEPT ![r] = "running"]
      /\ num_computed' = [num_computed EXCEPT ![r] = computed]
      /\ match' = NoMatch
      /\ UNCHANGED <<num_tokens, num_preemptions, phase, trackers, finished_req_ids>>
    BY DEF update_state_after_alloc
<1>3. num_tokens[r] \in Nat /\ Len(Tokens[r]) \in Nat /\ num_tokens[r] <= Len(Tokens[r])
    BY <1>1, TokensAssumption DEF SchedTypes
<1>4. n \in Nat /\ upto \in Nat /\ upto \in 0 .. Len(Tokens[r])
    BY <1>1, <1>2, <1>3
<1>5. PICK fresh \in FreshBlocks(Missing(Len(match.blocks), upto)) :
         /\ blocks' = [blocks EXCEPT ![r] = match.blocks \o fresh]
         /\ block_hash' = CacheBlocks(r, match.blocks \o fresh, fresh, upto)
         /\ round' = round \union
               {[req |-> r, start |-> computed, n |-> n, ext |-> match.ext,
                 new_blocks |-> match.blocks \o fresh,
                 kind |-> IF status[r] = "waiting" THEN "new" ELSE "resumed"]}
    BY DEF update_state_after_alloc
<1> HIDE DEF upto, computed
<1>6. fresh \in Seq(Blocks) /\ match.blocks \o fresh \in Seq(Blocks)
  <2>1. Missing(Len(match.blocks), upto) \in Nat
    BY <1>1, <1>4, MissingNat
  <2>2. fresh \in Seq(Blocks)
    BY <2>1, FreshSeq
  <2> QED BY <1>1, <2>2
<1>7. blocks' \in [Requests -> Seq(Blocks)]
    BY <1>1, <1>5, <1>6 DEF SchedTypes
<1>8. block_hash' \in [Blocks -> Keys \union {NoKey}]
    BY <1>1, <1>4, <1>5, CacheBlocksType DEF SchedTypes
<1> DEFINE x == [req |-> r, start |-> computed, n |-> n, ext |-> match.ext,
                 new_blocks |-> match.blocks \o fresh,
                 kind |-> IF status[r] = "waiting" THEN "new" ELSE "resumed"]
<1>9. /\ x \in Scheduled /\ x.req = r
      /\ x.kind = IF status[r] = "waiting" THEN "new" ELSE "resumed"
    BY <1>1, <1>4, <1>6 DEF Scheduled
<1>10. round' = round \union {x}
    BY <1>5
<1> HIDE DEF x, r
<1>11. load_specs' \in [Requests -> LoadSpec \union {NoSpec}]
  <2>1. load_specs[r] \in LoadSpec \union {NoSpec}
    BY <1>1 DEF SchedTypes
  <2>2. SpecAfterAlloc(load_specs[r], match.ext) \in LoadSpec \union {NoSpec}
    BY <2>1 DEF SpecAfterAlloc, LoadSpec
  <2> QED BY <1>1, <1>2, <2>2 DEF SchedTypes
<1>12. SchedTypes'
    BY <1>1, <1>2, <1>7, <1>8, <1>9, <1>10, <1>11 DEF SchedTypes, Statuses
<1>13. status[r] \in {"waiting", "preempted"} /\ (status[r] = "preempted" => trackers[r] # NoTracker)
    BY <1>1 DEF TrackInv, r
<1>14. \A y \in round : y.req \in Requests /\ y.req # r
    BY <1>13 DEF TrackInv, SchedTypes, Scheduled
<1>15. TrackInv'
    BY <1>1, <1>2, <1>9, <1>10, <1>13, <1>14 DEF TrackInv, InRound, SchedTypes
<1> QED BY <1>12, <1>15

\* The tracker build_connector_meta works on, and what it keeps of it.
LEMMA TrackerOfType ==
    ASSUME SchedInv, NEW x \in round
    PROVE  /\ TrackerOf(x) \in Tracker
           /\ TrackerOf(x).len <= num_tokens[x.req]
           /\ SpecOf(x) \in LoadSpec \union {NoSpec}
<1> USE DEF SchedInv
<1>1. /\ x \in Scheduled /\ x.req \in Requests /\ x.start \in Nat /\ x.n \in Nat
      /\ x.new_blocks \in Seq(Blocks)
    BY DEF SchedTypes, Scheduled
<1>2. /\ load_specs[x.req] \in LoadSpec \union {NoSpec}
      /\ num_tokens[x.req] \in Nat /\ PromptLen[x.req] \in Nat
      /\ PromptLen[x.req] <= num_tokens[x.req]
    BY <1>1, SchedulerAssumption DEF SchedTypes
<1>3. SpecOf(x) \in LoadSpec \union {NoSpec}
    BY <1>2 DEF SpecOf
<1>4. CASE x.kind = "new"
  <2>1. TrackerOf(x) = [len |-> Least(PromptLen[x.req], x.start + x.n),
                        blocks |-> x.new_blocks,
                        saved |-> IF SpecOf(x) = NoSpec THEN 0 ELSE SpecOf(x).ext]
    BY <1>4 DEF TrackerOf, NewTracker
  <2>2. (IF SpecOf(x) = NoSpec THEN 0 ELSE SpecOf(x).ext) \in Nat
    BY <1>3 DEF LoadSpec
  <2>3. /\ Least(PromptLen[x.req], x.start + x.n) \in Nat
        /\ Least(PromptLen[x.req], x.start + x.n) <= PromptLen[x.req]
    BY <1>1, <1>2 DEF Least
  <2> QED BY <1>1, <1>2, <1>3, <2>1, <2>2, <2>3 DEF Tracker
<1>5. CASE x.kind # "new"
  <2> DEFINE t == trackers[x.req]
  <2>1. t \in Tracker /\ t.len \in Nat /\ t.blocks \in Seq(Blocks) /\ t.saved \in Nat
    BY <1>1, <1>5 DEF SchedTypes, TrackInv, Tracker
  <2>2. TrackerOf(x) = [len |-> Least(num_tokens[x.req], t.len + x.n),
                        blocks |-> t.blocks \o x.new_blocks, saved |-> t.saved]
    BY <1>5 DEF TrackerOf, UpdateTracker
  <2>3. /\ Least(num_tokens[x.req], t.len + x.n) \in Nat
        /\ Least(num_tokens[x.req], t.len + x.n) <= num_tokens[x.req]
    BY <1>1, <1>2, <2>1 DEF Least
  <2>4. t.blocks \o x.new_blocks \in Seq(Blocks)
    BY <1>1, <2>1
  <2> QED BY <1>3, <2>1, <2>2, <2>3, <2>4 DEF Tracker
<1> QED BY <1>4, <1>5

\* What a save covers ends within the tracked tokens.
LEMMA SavedTrackerType ==
    ASSUME NEW t \in Tracker
    PROVE  /\ NumTokensToSave(t) \in Nat
           /\ NumTokensToSave(t) <= t.len
           /\ SavedTracker(t) \in Tracker
           /\ SavedTracker(t).len = t.len
<1>1. t.len \in Nat /\ t.blocks \in Seq(Blocks) /\ t.saved \in Nat
    BY DEF Tracker
<1>2. NumTokensToSave(t) \in Nat /\ NumTokensToSave(t) <= t.len
  <2>1. /\ (t.len \div BlockSize) * BlockSize \in Nat
        /\ (t.len \div BlockSize) * BlockSize <= t.len
    BY <1>1, DivNat, SchedulerAssumption
  <2> QED BY <1>1, <2>1 DEF NumTokensToSave
<1>3. SavedTracker(t) \in Tracker /\ SavedTracker(t).len = t.len
    BY <1>2 DEF SavedTracker, Tracker
<1> QED BY <1>2, <1>3

LEMMA BuildInv ==
    ASSUME SchedInv, build_connector_meta
    PROVE  SchedInv'
<1> USE DEF SchedInv
<1> DEFINE X(r) == CHOOSE y \in round : y.req = r
<1>1. ASSUME NEW r \in Requests, r \in InRound
      PROVE  X(r) \in round /\ X(r).req = r
    BY <1>1 DEF InRound
<1>2. /\ match = NoMatch
      /\ trackers' = [r \in Requests |->
            IF r \in InRound THEN SavedTracker(TrackerOf(X(r)))
            ELSE IF r \in finished_req_ids THEN NoTracker ELSE trackers[r]]
      /\ load_specs' = [r \in Requests |->
            IF \E x \in round : x.req = r /\ x.kind = "new" THEN NoSpec ELSE load_specs[r]]
      /\ requests_in_step' = requests_in_step \ finished_req_ids
      /\ num_computed' = [r \in Requests |->
            IF r \in InRound THEN X(r).start + X(r).n ELSE num_computed[r]]
      /\ finished_req_ids' = {}
      /\ round' = {}
      /\ UNCHANGED <<status, num_tokens, num_preemptions, blocks, block_hash, match>>
    BY DEF build_connector_meta, RequestsKept
<1> HIDE DEF X
<1>3. ASSUME NEW r \in Requests, r \in InRound
      PROVE  /\ SavedTracker(TrackerOf(X(r))) \in Tracker
             /\ SavedTracker(TrackerOf(X(r))).len <= num_tokens[r]
             /\ X(r).start + X(r).n \in Nat
  <2>1. X(r) \in round /\ X(r).req = r
    BY <1>1, <1>3
  <2>2. TrackerOf(X(r)) \in Tracker /\ TrackerOf(X(r)).len <= num_tokens[r]
    BY <2>1, TrackerOfType
  <2>3. /\ SavedTracker(TrackerOf(X(r))) \in Tracker
        /\ SavedTracker(TrackerOf(X(r))).len = TrackerOf(X(r)).len
    BY <2>2, SavedTrackerType
  <2>4. X(r).start + X(r).n \in Nat
    BY <2>1 DEF SchedTypes, Scheduled
  <2> QED BY <2>2, <2>3, <2>4
<1>4. trackers' \in [Requests -> Tracker \union {NoTracker}]
    BY <1>2, <1>3 DEF SchedTypes
<1>5. num_computed' \in [Requests -> Nat]
    BY <1>2, <1>3 DEF SchedTypes
<1>6. SchedTypes'
    BY <1>2, <1>4, <1>5 DEF SchedTypes
<1>7. ASSUME NEW r \in Requests, r \in InRound
      PROVE  trackers'[r] # NoTracker /\ trackers'[r].len <= num_tokens[r]
    BY <1>2, <1>3, <1>7, SchedulerAssumption DEF Tracker
<1>8. ASSUME NEW r \in Requests, r \notin InRound, r \notin finished_req_ids
      PROVE  trackers'[r] = trackers[r]
    BY <1>2, <1>8
<1>9. ASSUME NEW r \in Requests, r \notin InRound, r \in finished_req_ids
      PROVE  trackers'[r] = NoTracker
    BY <1>2, <1>9
<1>10. TrackInv'
    BY <1>2, <1>7, <1>8, <1>9 DEF TrackInv, InRound
<1> QED BY <1>6, <1>10

LEMMA OutputInv ==
    ASSUME SchedInv, NEW passed, NEW fin \in SUBSET Requests, update_from_output(passed, fin)
    PROVE  SchedInv'
<1> USE DEF SchedInv
<1> DEFINE sampled == {w.req : w \in {v \in passed : /\ v.upto = num_tokens[v.req]
                                                     /\ status[v.req] # "finished"}}
<1>1. /\ round = {} /\ match = NoMatch
      /\ fin \subseteq sampled
      /\ \A r \in sampled : num_tokens[r] = Len(Tokens[r]) => r \in fin
      /\ num_tokens' = [r \in Requests |->
             IF r \in sampled \ fin THEN num_tokens[r] + 1 ELSE num_tokens[r]]
      /\ status' = [r \in Requests |-> IF r \in fin THEN "finished" ELSE status[r]]
      /\ blocks' = [r \in Requests |-> IF r \in fin THEN <<>> ELSE blocks[r]]
      /\ finished_req_ids' = finished_req_ids \union fin
      /\ UNCHANGED <<num_computed, num_preemptions, block_hash, round, match,
                     load_specs, trackers, requests_in_step>>
    BY DEF update_from_output, BetweenRounds, roundVars
<1> HIDE DEF sampled
<1>2. ASSUME NEW r \in Requests
      PROVE  /\ num_tokens'[r] \in Nat /\ num_tokens[r] <= num_tokens'[r]
             /\ num_tokens'[r] <= Len(Tokens[r])
  <2>1. num_tokens[r] \in Nat /\ Len(Tokens[r]) \in Nat /\ num_tokens[r] <= Len(Tokens[r])
    BY TokensAssumption DEF SchedTypes
  <2> QED BY <1>1, <2>1
<1>3. num_tokens' \in [Requests -> Nat]
    BY <1>1, <1>2
<1>4. \A r \in Requests : PromptLen[r] <= num_tokens'[r] /\ num_tokens'[r] <= Len(Tokens[r])
    BY <1>2, SchedulerAssumption DEF SchedTypes
<1>5. SchedTypes'
    BY <1>1, <1>3, <1>4 DEF SchedTypes, Statuses
<1>6. ASSUME NEW r \in Requests, trackers[r] # NoTracker
      PROVE  trackers[r].len <= num_tokens'[r]
  <2>1. trackers[r].len \in Nat /\ num_tokens[r] \in Nat /\ trackers[r].len <= num_tokens[r]
    BY <1>6 DEF SchedTypes, TrackInv, Tracker
  <2> QED BY <1>2, <2>1
<1>7. TrackInv'
    BY <1>1, <1>6 DEF TrackInv, InRound, SchedTypes
<1> QED BY <1>5, <1>7

-----------------------------------------------------------------------------
(* The invariant holds in every reachable state. *)

\* The steps that touch the scheduler's variables.
LEMMA SchedStepCases ==
    ASSUME [Next]_vars
    PROVE  \/ \E r \in Requests : \E n : ScheduleRunning(r, n)
           \/ \E r \in Requests : Preempt(r)
           \/ \E r \in Requests : Abort(r)
           \/ \E r \in Requests : \E hit \in 0 .. PromptLen[r] :
                 get_num_new_matched_tokens(r, hit)
           \/ \E n : match # NoMatch /\ update_state_after_alloc(n)
           \/ AllocFails
           \/ build_connector_meta
           \/ \E passed : \E fin \in SUBSET Requests : update_from_output(passed, fin)
           \/ UNCHANGED schedVars
<1>1. CASE \E r \in Requests : SchedulerStep(r)
    BY <1>1 DEF SchedulerStep
<1>2. CASE \E r \in Requests : AbortRequest(r)
    BY <1>2 DEF AbortRequest
<1>3. CASE EndWaiting
    BY <1>3 DEF EndWaiting
<1>4. CASE SendMeta
    BY <1>4 DEF SendMeta
<1>5. CASE BeginStep
    BY <1>5 DEF BeginStep
<1>6. CASE WorkerStep
    BY <1>6 DEF WorkerStep
<1>7. CASE EndStep
    BY <1>7 DEF EndStep
<1>8. CASE UNCHANGED vars
    BY <1>8 DEF vars
<1> QED BY <1>1, <1>2, <1>3, <1>4, <1>5, <1>6, <1>7, <1>8 DEF Next

LEMMA SchedNextInv == SchedInv /\ [Next]_vars => SchedInv'
<1> SUFFICES ASSUME SchedInv, [Next]_vars PROVE SchedInv'
    OBVIOUS
<1>1. ASSUME NEW r \in Requests, NEW hit \in 0 .. PromptLen[r],
             get_num_new_matched_tokens(r, hit)
      PROVE  SchedInv'
  <2>1. hit \in Nat
    BY SchedulerAssumption
  <2> QED BY <1>1, <2>1, MatchInv
<1>2. ASSUME UNCHANGED schedVars PROVE SchedInv'
    BY <1>2 DEF schedVars, vllmVars, roundVars, connVars, SchedInv, SchedTypes, TrackInv,
                InRound
<1> QED
    BY <1>1, <1>2, SchedStepCases, ScheduleRunningInv, PreemptInv, AbortInv, AllocInv,
       AllocFailsInv, BuildInv, OutputInv

\* The scheduler half is type correct, and its trackers, request objects and
\* round agree with the requests' status, in every reachable state.
THEOREM SchedCorrect == Spec => []SchedInv
    BY SchedInitInv, SchedNextInv, PTL DEF Spec

\* build_connector_meta finds tracker and request object of every cached
\* request it is given, however requests are preempted, resumed and aborted.
THEOREM CachedRequestsTrackedTheorem == Spec => []CachedRequestsTracked
<1>1. SchedInv => CachedRequestsTracked
    BY DEF SchedInv, SchedTypes, TrackInv, Scheduled, CachedRequestsTracked
<1> QED BY <1>1, SchedCorrect, PTL

-----------------------------------------------------------------------------
(* The request between matching and allocation. *)

MatchOK == MatchLeavesToken /\ AllocMatchesSpec

\* A match keeps its meaning until blocks are allocated: no other step can
\* change the request's tokens or its load spec in between.
LEMMA MatchNext == SchedInv /\ MatchOK /\ [Next]_vars => MatchOK'
<1> SUFFICES ASSUME SchedInv, MatchOK, [Next]_vars PROVE MatchOK'
    OBVIOUS
<1> USE DEF MatchOK
<1>1. ASSUME NEW r \in Requests, NEW hit \in 0 .. PromptLen[r],
             get_num_new_matched_tokens(r, hit)
      PROVE  MatchOK'
  <2>1. /\ num_tokens' = num_tokens
        /\ num_tokens[r] \in Nat /\ PromptLen[r] <= num_tokens[r]
        /\ PromptLen[r] \in Nat /\ PromptLen[r] >= 1 /\ hit \in Nat /\ hit <= num_tokens[r]
    BY <1>1, SchedulerAssumption DEF get_num_new_matched_tokens, vllmVars, SchedInv, SchedTypes
  <2>0. PICK h \in 0 .. num_tokens[r] : \E bs \in [1 .. h \div BlockSize -> Blocks] :
           /\ IsLocalHit(r, h, bs)
           /\ LET need == NeedToAllocate(r, hit, h)
                  miss == need <= 0
              IN /\ load_specs' = IF miss THEN load_specs ELSE AddLoadSpec(r, h, hit)
                 /\ match' = [req |-> r, local |-> h, blocks |-> bs,
                              ext |-> IF miss THEN 0 ELSE need]
    BY <1>1 DEF get_num_new_matched_tokens
  <2> DEFINE need == NeedToAllocate(r, hit, h)
             miss == need <= 0
  <2>2. PICK bs \in [1 .. h \div BlockSize -> Blocks] :
           /\ IsLocalHit(r, h, bs)
           /\ load_specs' = IF miss THEN load_specs ELSE AddLoadSpec(r, h, hit)
           /\ match' = [req |-> r, local |-> h, blocks |-> bs,
                        ext |-> IF miss THEN 0 ELSE need]
    BY <2>0
  <2>3. h <= num_tokens[r] - 1 /\ h \in Nat
    BY <2>1, <2>2 DEF IsLocalHit
  <2>4. need = hit - h - (IF hit = num_tokens[r] THEN 1 ELSE 0)
    BY DEF NeedToAllocate
  <2>5. match'.req = r /\ match'.local = h /\ match'.ext = IF miss THEN 0 ELSE need
    BY <2>2
  <2>6. CASE miss
    <3>1. MatchLeavesToken'
      BY <2>1, <2>3, <2>5, <2>6 DEF MatchLeavesToken
    <3>2. AllocMatchesSpec'
      BY <2>5, <2>6 DEF AllocMatchesSpec
    <3> QED BY <3>1, <3>2
  <2>7. CASE ~miss
    <3>1. MatchLeavesToken'
      BY <2>1, <2>3, <2>4, <2>5, <2>7 DEF MatchLeavesToken
    <3>2. load_specs' = AddLoadSpec(r, h, hit)
      BY <2>2, <2>7
    <3>3. load_specs'[r] = [vllm |-> h, ext |-> hit, can_load |-> FALSE]
      BY <3>2 DEF AddLoadSpec, SchedInv, SchedTypes
    <3>4. AllocMatchesSpec'
      BY <2>1, <2>4, <2>5, <2>7, <3>3 DEF AllocMatchesSpec
    <3> QED BY <3>1, <3>4
  <2> QED BY <2>6, <2>7
<1>2. ASSUME match' = NoMatch PROVE MatchOK'
    BY <1>2 DEF MatchLeavesToken, AllocMatchesSpec
<1>3. ASSUME UNCHANGED <<match, num_tokens, load_specs>> PROVE MatchOK'
    BY <1>3 DEF MatchLeavesToken, AllocMatchesSpec
<1>4. ASSUME NEW r \in Requests, NEW n, ScheduleRunning(r, n) PROVE MatchOK'
    BY <1>3, <1>4 DEF ScheduleRunning, connVars
<1>5. ASSUME NEW r \in Requests, Preempt(r) PROVE MatchOK'
    BY <1>3, <1>5 DEF Preempt, connVars
<1>6. ASSUME NEW r \in Requests, Abort(r) PROVE MatchOK'
    BY <1>2, <1>6 DEF Abort, BetweenRounds, roundVars
<1>7. ASSUME NEW n, update_state_after_alloc(n) PROVE MatchOK'
    BY <1>2, <1>7 DEF update_state_after_alloc
<1>8. ASSUME AllocFails PROVE MatchOK'
    BY <1>2, <1>8 DEF AllocFails
<1>9. ASSUME build_connector_meta PROVE MatchOK'
    BY <1>2, <1>9 DEF build_connector_meta
<1>10. ASSUME NEW passed, NEW fin \in SUBSET Requests, update_from_output(passed, fin)
       PROVE  MatchOK'
    BY <1>2, <1>10 DEF update_from_output, BetweenRounds, roundVars
<1>11. ASSUME UNCHANGED schedVars PROVE MatchOK'
    BY <1>3, <1>11 DEF schedVars, vllmVars, roundVars, connVars
<1> QED
    BY SchedStepCases, <1>1, <1>4, <1>5, <1>6, <1>7, <1>8, <1>9, <1>10, <1>11

\* vLLM's "assert num_new_tokens > 0" never fails: however much local cache and
\* index hold of a prompt, a matched request keeps a token to compute.
THEOREM MatchLeavesTokenTheorem == Spec => []MatchLeavesToken
<1>1. Init => MatchOK
    BY DEF Init, SchedInit, MatchOK, MatchLeavesToken, AllocMatchesSpec
<1>2. MatchOK => MatchLeavesToken
    BY DEF MatchOK
<1> QED BY <1>1, <1>2, MatchNext, SchedCorrect, PTL DEF Spec

\* The assertion of update_state_after_alloc never fails, also with a load spec
\* left behind by an earlier attempt.
THEOREM AllocMatchesSpecTheorem == Spec => []AllocMatchesSpec
<1>1. Init => MatchOK
    BY DEF Init, SchedInit, MatchOK, MatchLeavesToken, AllocMatchesSpec
<1>2. MatchOK => AllocMatchesSpec
    BY DEF MatchOK
<1> QED BY <1>1, <1>2, MatchNext, SchedCorrect, PTL DEF Spec
=============================================================================
