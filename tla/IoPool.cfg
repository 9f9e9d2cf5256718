CONSTANTS
    s1 = s1
    s2 = s2
    Streams = {s1, s2}
    Capacity = 3
    PerEntry = 2
    MaxCtx = 5
    MaxXfers = 3
SPECIFICATION Spec
INVARIANT TypeOK
INVARIANT OneOwner
INVARIANT KernelsReadOwnEntries
INVARIANT BatchesCover
PROPERTY EntriesComeBack
