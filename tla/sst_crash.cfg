CONSTANTS
    k1 = k1
    k2 = k2
    v1 = v1
    Key = {k1, k2}
    Value = {v1}
    Tombstone = Tombstone
    Absent = Absent
    Stub = Stub
    Torn = Torn
    NoFile = NoFile
    compaction_trigger = 3
    Faults = {"crash"}
    MaxSegment = 5
    PadLimit = 10
    Radix = 10
SPECIFICATION Spec
SYMMETRY Symmetry
INVARIANTS
    TypeOK
    SessionReads
    IInv
PROPERTIES
    RefinesFlushedMap
    Immutable
    CompactionFoldsAll
    FileCountBounded
