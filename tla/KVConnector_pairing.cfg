CONSTANTS
    r1 = r1
    r2 = r2
    Requests = {r1, r2}
    Tokens <- SameTokens
    PromptLen <- MCPromptLen
    ChunkSize = 2
    BlockSize = 2
    SaveUnfullChunk = FALSE
    Blocks = {b1, b2, b3}
    PrefixCaching = FALSE
    KVRole = "kv_both"
    DiscardPartialChunks = TRUE
    SkipLastNTokens = 0
    MaxPreemptions = 0
    Files = {f1, f2}
    NumLayers = 2
    AsyncSave = FALSE
    Budgets = {}
    OpenMayFail = FALSE
    MaxInFlight = 1
    NoSpec = NoSpec
    NoTracker = NoTracker
    NoLoad = NoLoad
    NoMatch = NoMatch
    NoKey = NoKey
    NoFile = NoFile
    NoReq = NoReq
    NoBudget = NoBudget
SPECIFICATION Spec
SYMMETRY Symmetry
INVARIANTS
    TransfersMatchBlocks
CHECK_DEADLOCK FALSE
