CONSTANTS
    Keys = {1, 2}
    Values = {v1, v2}
    Tombstone = Tombstone
    Absent = Absent
    ReadError = ReadError
    KeySize <- OneByteKeys
    ValueSize <- OneByteValues
    FlushThreshold = 2
    CompactThreshold = 2
    Gaps = {1, 2}
    Faults <- NoFaults
    MaxWrites = 4
    MaxCrashes = 2
    MaxFaults = 0
SPECIFICATION Spec
INVARIANTS TypeOK ReadsAreCurrent ManifestIsOrdered TablesAreLoadable
PROPERTIES RecoveredDataIsStable TablesAreImmutable StartsStayPossible
SYMMETRY ValueSymmetry
