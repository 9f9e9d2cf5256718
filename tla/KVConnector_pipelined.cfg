CONSTANTS
    r1 = r1
    r2 = r2
    Requests = {r1, r2}
    Tokens <- SameTokens
    PromptLen <- MCPromptLen
    ChunkSize = 2
    BlockSize = 2
    SaveUnfullChunk = TRUE
    Blocks = {b1, b2, b3}
    PrefixCaching = TRUE
    KVRole = "kv_both"
    DiscardPartialChunks = FALSE
    SkipLastNTokens = 0
    MaxPreemptions = 1
    Files = {f1, f2, f3}
    NumLayers = 2
    AsyncSave = FALSE
    Budgets = {}
    OpenMayFail = FALSE
    MaxInFlight = 2
    NoSpec = NoSpec
    NoTracker = NoTracker
    NoLoad = NoLoad
    NoMatch = NoMatch
    NoKey = NoKey
    NoFile = NoFile
    NoReq = NoReq
    NoBudget = NoBudget
SPECIFICATION Spec
SYMMETRY Symmetry
INVARIANTS
    TypeOK
    MatchLeavesToken
    CachedRequestsTracked
    LayerLoadedBeforeAttention
    IndexPrefixClosed
    SavedIsIndexed
    TrackerFollowsScheduler
    FirstLoadSent
    RaisesOnlyMisconfigured
CHECK_DEADLOCK FALSE
