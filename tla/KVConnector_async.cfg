CONSTANTS
    r1 = r1
    r2 = r2
    Requests = {r1, r2}
    Tokens <- SharedFirstChunk
    PromptLen <- MCPromptLen
    ChunkSize = 2
    BlockSize = 2
    SaveUnfullChunk = FALSE
    Blocks = {b1, b2}
    PrefixCaching = FALSE
    KVRole = "kv_both"
    DiscardPartialChunks = TRUE
    SkipLastNTokens = 0
    MaxPreemptions = 0
    Files = {f1, f2}
    NumLayers = 2
    AsyncSave = TRUE
    Budgets = {1, 2}
    OpenMayFail = TRUE
    MaxInFlight = 1
    NoSpec = NoSpec
    NoTracker = NoTracker
    NoLoad = NoLoad
    NoMatch = NoMatch
    NoKey = NoKey
    NoFile = NoFile
    NoReq = NoReq
    NoBudget = NoBudget
SPECIFICATION LiveSpec
INVARIANTS
    QueueConsistent
    TasksFollowLayers
    StoreTasksUniform
    LayersWrittenInOrder
PROPERTY StepTerminates
CHECK_DEADLOCK FALSE
