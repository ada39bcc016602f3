CONSTANTS
    Keys = {1, 2}
    Values = {v1}
    Tombstone = Tombstone
    Absent = Absent
    ReadError = ReadError
    KeySize <- OneByteKeys
    ValueSize <- OneByteValues
    FlushThreshold = 3
    CompactThreshold = 2
    Gaps = {1}
    Faults <- DiskFaults
    MaxWrites = 5
    MaxCrashes = 1
    MaxFaults = 2
SPECIFICATION Spec
INVARIANTS ReadsAreCurrent
PROPERTIES RecoveredDataIsStable StartsStayPossible
