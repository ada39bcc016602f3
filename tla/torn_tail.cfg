CONSTANTS
    Keys = {1, 2}
    Values = {v1}
    Tombstone = Tombstone
    Absent = Absent
    ReadError = ReadError
    KeySize <- OneByteKeys
    ValueSize <- OneByteValues
    FlushThreshold = 3
    CompactThreshold = 2
    Gaps = {1, 2}
    Faults <- NoFaults
    MaxWrites = 3
    MaxCrashes = 1
    MaxFaults = 0
SPECIFICATION Spec
PROPERTIES WritesAreDurable
