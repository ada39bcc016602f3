CONSTANTS
    Keys = {1, 2}
    Values = {v1}
    Tombstone = Tombstone
    Absent = Absent
    ReadError = ReadError
    KeySize <- OneByteKeys
    ValueSize <- OneByteValues
    FlushThreshold = 2
    CompactThreshold = 2
    Gaps = {}
    Faults <- NoFaults
    MaxWrites = 3
    MaxCrashes = 0
    MaxFaults = 0
SPECIFICATION Spec
INVARIANTS ManifestIsLoadable
