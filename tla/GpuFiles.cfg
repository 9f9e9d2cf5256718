CONSTANTS
    d1 = d1
    d2 = d2
    sh1 = sh1
    sh2 = sh2
    Devices = {d1}
    NumFiles = 3
    Shapes = {sh1, sh2}
    MaxStarts = 3
    Slots <- AllSlots
    Threshold = 2
    NoRec = NoRec
    Empty = Empty
    Valid = Valid
SPECIFICATION Spec
INVARIANT TypeOK
INVARIANT RecordBeforeBit
INVARIANT SavedIsDurable
INVARIANT OwnNvmeFiles
INVARIANT FreeListSound
INVARIANT InitSucceeds
INVARIANT ResetGivesShape
PROPERTY StartEnds
