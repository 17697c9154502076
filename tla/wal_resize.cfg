CONSTANTS
    k1 = k1
    k2 = k2
    v1 = v1
    Key = {k1}
    Value = {v1}
    Tombstone = Tombstone
    Absent = Absent
    Close = Close
    Corrupt = Corrupt
    LogLimits = {2, 6}
    LogFaults = {}
    Garbage = {0, 7}
    MaxLog = 3
    MaxLogged = 4
SPECIFICATION HSpec
PROPERTIES
    RecoversPrefix
