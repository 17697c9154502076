CONSTANTS
    k1 = k1
    k2 = k2
    v1 = v1
    Key = {k1, k2}
    Value = {v1}
    Tombstone = Tombstone
    Absent = Absent
    Stub = Stub
    Torn = Torn
    NoFile = NoFile
    Close = Close
    Corrupt = Corrupt
    memtable_threshold = 2
    OpenFailures = FALSE
    compaction_trigger = 3
    Faults = {}
    MaxSegment = 3
    PadLimit = 10
    Radix = 10
    LogLimits = {3}
    LogFaults = {}
    Garbage = {7}
    MaxLog = 3
    MaxLogged = 4
SPECIFICATION Spec
PROPERTIES
    ClearKeepsContents
