CONSTANTS
    k1 = k1
    k2 = k2
    v1 = v1
    Key = {k1}
    Value = {v1}
    Tombstone = Tombstone
    Absent = Absent
    Close = Close
    Corrupt = Corrupt
    LogLimits = {3}
    LogFaults = {"crash", "rot"}
    Garbage = {7}
    MaxLog = 3
    MaxLogged = 4
SPECIFICATION HSpec
INVARIANTS
    TypeOK
    IInv
    HistInv
    CountInv
    RestartRebuilds
    ConsecutiveInSegment
    RepairKeepsLog
PROPERTIES
    OnlyClearingStrands
    RecoversPrefix
    SealedLogLosesNothing
