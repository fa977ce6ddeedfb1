SPECIFICATION FairSpec
CONSTANTS
    Keys <- MCKeys
    Values = {v1}
    Tombstone = Tombstone
    Absent = Absent
    KeyBytes <- MCKeyBytes
    ValueBytes <- MCValueBytes
    MAX_SSTABLES = 1
    DEFAULT_MEMTABLE_MAX_BYTES = 3
    Budgets = {0}
    Faults = {"process_crash", "wal_error", "wal_torn", "unlink_error"}
    MaxSequence = 2
    MaxSstId = 3
INVARIANT SequencesAscend
 
INVARIANT LoggedBeforeApplied
PROPERTY LimitsHeld
PROPERTY EveryCallReturns
 
