CONSTANTS
    k1 = k1
    k2 = k2
    v1 = v1
    Key = {k1}
    Value = {v1}
    Tombstone = Tombstone
    Absent = Absent
    Close = Close
    Corrupt = Corrupt
    LogLimits = {2, 5}
    LogFaults = {"crash", "short_write"}
    Garbage = {7}
    MaxLog = 2
    MaxLogged = 3
SPECIFICATION HSpec
PROPERTIES
    RecoversInOrder
    RecoveryRepeats
