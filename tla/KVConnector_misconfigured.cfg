CONSTANTS
    r1 = r1
    r2 = r2
    Requests = {r1, r2}
    Tokens <- SameTokens
    PromptLen <- MCPromptLen
    ChunkSize = 3
    BlockSize = 2
    SaveUnfullChunk = TRUE
    Blocks = {b1, b2, b3}
    PrefixCaching = FALSE
    KVRole = "kv_both"
    DiscardPartialChunks = FALSE
    SkipLastNTokens = 0
    MaxPreemptions = 1
    Files = {f1, f2}
    NumLayers = 2
    AsyncSave = TRUE
    Budgets = {1, NoBudget}
    OpenMayFail = TRUE
    MaxInFlight = 1
    NoSpec = NoSpec
    NoTracker = NoTracker
    NoLoad = NoLoad
    NoMatch = NoMatch
    NoKey = NoKey
    NoFile = NoFile
    NoReq = NoReq
    NoBudget = NoBudget
SPECIFICATION Spec
SYMMETRY Symmetry
INVARIANTS
    AllocMatchesSpec
    RaisesOnlyMisconfigured
CHECK_DEADLOCK FALSE
