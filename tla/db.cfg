CONSTANTS
    k1 = k1
    k2 = k2
    v1 = v1
    Key = {k1, k2}
    Value = {v1}
    Tombstone = Tombstone
    Absent = Absent
    Stub = Stub
    Torn = Torn
    NoFile = NoFile
    Close = Close
    Corrupt = Corrupt
    memtable_threshold = 2
    OpenFailures = TRUE
    compaction_trigger = 2
    Faults = {"crash"}
    MaxSegment = 4
    PadLimit = 10
    Radix = 10
    LogLimits = {20}
    LogFaults = {"crash"}
    Garbage = {7}
    MaxLog = 1
    MaxLogged = 3
SPECIFICATION Spec
SYMMETRY Symmetry
INVARIANTS
    TypeOK
    GetReadsDisk
    LogIsMemTable
    DatabaseInv
PROPERTIES
    RefinesKVStore
    RefinesDurableTable
