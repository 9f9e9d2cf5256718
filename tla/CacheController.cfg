SPECIFICATION Spec
CONSTANTS
    w1 = w1
    w2 = w2
    i1 = i1
    i2 = i2
    Workers = {w1, w2}
    Instances = {i1, i2}
    Placements <- OneOrTwoInstances
    MaxBatch = 2
    MaxStarts = 4
    MaxOnWire = 2
INVARIANT TypeOK
INVARIANT NoHandlerRaises
INVARIANT RegistryAgrees
PROPERTY RegistrationArrives
CHECK_DEADLOCK FALSE
