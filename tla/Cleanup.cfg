SPECIFICATION DSpec
CONSTANTS
    Keys <- MCKeys
    Values = {v1}
    Tombstone = Tombstone
    Absent = Absent
    KeyBytes <- MCKeyBytes
    ValueBytes <- MCValueBytes
    MAX_SSTABLES = 1
    DEFAULT_MEMTABLE_MAX_BYTES = 3
    Budgets = {}
    Faults = {"power_loss", "cleanup_crash", "unlink_error"}
    MaxSequence = 2
    MaxSstId = 4
INVARIANT ObsoleteOnly
PROPERTY LiveKeysSurvive
