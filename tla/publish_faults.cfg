CONSTANTS
    Keys = {1}
    Values = {v1, v2}
    Tombstone = Tombstone
    Absent = Absent
    ReadError = ReadError
    KeySize <- OneByteKeys
    ValueSize <- OneByteValues
    FlushThreshold = 2
    CompactThreshold = 2
    Gaps = {}
    Faults <- PublishFault
    MaxWrites = 6
    MaxCrashes = 2
    MaxFaults = 1
SPECIFICATION Spec
INVARIANTS ManifestIsOrdered ReadsAreCurrent
PROPERTIES RecoveredDataIsStable TablesAreImmutable
SYMMETRY ValueSymmetry
