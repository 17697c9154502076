CONSTANTS
    Key = {0, 1, 2, 3, 4, 5}
    Value = {0, 1, 2, 3}
    Tombstone = Tombstone
    Absent = Absent
    Thrown = Thrown
    BlockSizes = {0, 24}
    KeyField = 2
    ValueField = 2
    Overrun = {0, 1}
    ClientKey = {1, 2, 3}
    ClientValue = {1, 2}
    MaxWritten = 3
SPECIFICATION PathSpec
INVARIANTS
    PathInv
    IInv
    LookupMatches
    NothingMadeUp
    ReadsAllInOrder
    BlocksSlightlyLarger
    ShortKeysKeepTheirRecord
