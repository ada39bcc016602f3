CONSTANTS
    Small = Small
    Large = Large
    Keys = {1}
    Values = {Small, Large}
    Tombstone = Tombstone
    Absent = Absent
    KeySize <- NoSizes
    ValueSize <- Unsized
    Modes = {"SYNC", "ASYNC"}
    LengthSize = 2
    ChecksumSize = 1
    PayloadSize <- PayloadSizes
    MaxRecordSize = 2
    BufferSize = 4
    MaxAppends = 4
    MaxCrashes = 2
    MaxFaults = 1
SPECIFICATION Spec
INVARIANTS TypeOK OnlyASuffixIsLost AcknowledgedIsDurable RecordLevelIsFaithful
CHECK_DEADLOCK FALSE
