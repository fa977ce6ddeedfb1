SPECIFICATION HSpec
CONSTANTS
    Keys <- MCKeys
    Values = {v1}
    Tombstone = Tombstone
    Absent = Absent
    KeyBytes <- MCKeyBytes
    ValueBytes <- MCValueBytes
    MAX_SSTABLES = 1
    DEFAULT_MEMTABLE_MAX_BYTES = 3
    Budgets = {}
    Faults = {"wal_error"}
    MaxSequence = 3
    MaxSstId = 3
PROPERTY AllOrNothing
