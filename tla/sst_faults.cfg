CONSTANTS
    k1 = k1
    k2 = k2
    v1 = v1
    Key = {k1}
    Value = {v1}
    Tombstone = Tombstone
    Absent = Absent
    Stub = Stub
    Torn = Torn
    NoFile = NoFile
    compaction_trigger = 2
    Faults = {"crash", "tmp_open", "short_write"}
    MaxSegment = 5
    PadLimit = 10
    Radix = 10
SPECIFICATION FairSpec
INVARIANTS
    MissesOnlyAboveCut
PROPERTIES
    OverwrittenOnlyAboveCut
    OutputOutlivesInputs
    OperationsReturn
