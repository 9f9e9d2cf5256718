CONSTANTS
    t1 = t1
    t2 = t2
    Threads = {t1, t2}
    QS = 2
    CQS = 4
    NumCids = 3
    MaxCmds = 6
    NoCmd = NoCmd
SPECIFICATION Spec
INVARIANT QueueOrder
PROPERTY EveryCommandReturns
