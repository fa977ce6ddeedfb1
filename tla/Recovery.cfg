SPECIFICATION Spec
CONSTANTS
    Keys <- MCKeys
    Values = {v1, v2}
    Tombstone = Tombstone
    Absent = Absent
    KeyBytes <- MCKeyBytes
    ValueBytes <- MCValueBytes
    MAX_SSTABLES = 1
    DEFAULT_MEMTABLE_MAX_BYTES = 3
    Budgets = {}
    Faults = {"power_loss", "torn_sst", "sst_error", "clear_error"}
    MaxSequence = 2
    MaxSstId = 3
SYMMETRY ValueSymmetry
INVARIANT TypeOK
INVARIANT SessionMatchesDisk
INVARIANT FlushedBeforeApplied
INVARIANT HandleOrder
PROPERTY RefinesKV
