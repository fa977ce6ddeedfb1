SPECIFICATION Spec
CONSTANTS
    Keys <- MCKeys
    Values = {v1}
    Tombstone = Tombstone
    Absent = Absent
    KeyBytes <- MCKeyBytes
    ValueBytes <- MCValueBytes
    BLOCK_SIZE = 13
    BLOCK_CACHE_CAP = 2
    HashLow <- MCHashLow
    HashHigh <- MCHashHigh
    Damaged = Damaged
    Err = Err
    Panic = Panic
    KeyText <- MCKeyText
    MaxByte = 1
    MAX_SSTABLES = 2
    memtable_max_bytes = 8
    MaxWrites = 3
    MaxDamage = 1
    ScanTexts <- MCScanTexts
    ScanPrefixes <- MCScanPrefixes
INVARIANT ReadsAreExact
INVARIANT ScansAreExact
INVARIANT PrefixScansExact
INVARIANT CacheIsLru
 
