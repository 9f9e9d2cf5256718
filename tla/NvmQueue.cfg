CONSTANTS
    t1 = t1
    t2 = t2
    Threads = {t1, t2}
    QS = 4
    CQS = 4
    NumCids = 5
    MaxCmds = 5
    NoCmd = NoCmd
SPECIFICATION Spec
INVARIANT TypeOK
INVARIANT CompletionStays
INVARIANT QueueOrder
PROPERTY ImplementsService
PROPERTY EveryCommandReturns
