SPECIFICATION Spec
CONSTANTS
    Keys <- MCKeys
    Values = {v1}
    Tombstone = Tombstone
    Absent = Absent
    KeyBytes <- MCKeyBytes
    ValueBytes <- MCValueBytes
    MAX_SSTABLES = 1
    DEFAULT_MEMTABLE_MAX_BYTES = 3
    Budgets = {}
    Faults = {"process_crash", "cleanup_crash"}
    MaxSequence = 2
    MaxSstId = 3
PROPERTY StaleTablesLose
