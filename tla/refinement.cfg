CONSTANTS
    Keys = {1, 2}
    Values = {v1}
    Tombstone = Tombstone
    Absent = Absent
    ReadError = ReadError
    KeySize <- OneByteKeys
    ValueSize <- OneByteValues
    FlushThreshold = 2
    CompactThreshold = 2
    Gaps = {}
    Faults <- FaultKinds
    MaxWrites = 3
    MaxCrashes = 1
    MaxFaults = 1
SPECIFICATION Spec
PROPERTIES RefinesKVStore CallsAreAnswered
