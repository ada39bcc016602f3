CONSTANTS
    Keys = {1}
    Values = {v1, v2}
    Tombstone = Tombstone
    Absent = Absent
    ReadError = ReadError
    KeySize <- OneByteKeys
    ValueSize <- OneByteValues
    FlushThreshold = 2
    CompactThreshold = 2
    Gaps = {}
    Faults <- PublishFault
    MaxWrites = 5
    MaxCrashes = 1
    MaxFaults = 2
SPECIFICATION Spec
PROPERTIES CompactionKeepsNewest
SYMMETRY ValueSymmetry
