CONSTANTS
    v0 = v0
    v2 = v2
    v5 = v5
    Keys = {1, 3, 10}
    Values = {v0, v2, v5}
    Tombstone = Tombstone
    Absent = Absent
    KeySize <- MCKeySize
    ValueSize <- MCValueSize
SPECIFICATION Spec
INVARIANTS TypeOK SizeIsExact
