------------------------------- MODULE Reads -------------------------------
(***************************************************************************)
(* Reading a table that keeps changing shape: point lookups, scans and     *)
(* reads inside a transaction, over a memtable and SSTables that writes,   *)
(* flushes, compactions and reopenings rearrange, with block caches that   *)
(* lookups fill and with blocks on disk that go bad.                       *)
(*                                                                         *)
(* Durability is the subject of Store; here a write, with the flush and    *)
(* the compaction it may set off, is one step that succeeds, except that a *)
(* compaction cannot read a damaged block.                                 *)
(***************************************************************************)
EXTENDS Scan

CONSTANTS
    MAX_SSTABLES,        \* compaction threshold
    memtable_max_bytes,  \* budget of the memtable
    MaxWrites,           \* bound: keys written
    MaxDamage,           \* bound: blocks damaged
    ScanTexts,           \* bound: byte strings that scans are bounded by
    ScanPrefixes         \* bound: prefixes that are scanned

ASSUME LimitsAssumption ==
    /\ {MAX_SSTABLES, MaxWrites, MaxDamage} \subseteq Nat
    /\ {memtable_max_bytes, BLOCK_SIZE, BLOCK_CACHE_CAP, MaxByte} \subseteq Nat
    /\ {HashLow, HashHigh} \subseteq [Keys -> Nat]
    /\ ScanTexts \cup ScanPrefixes \subseteq Seq(0..MaxByte)

VARIABLES
    data,       \* the memtable
    sstables,   \* the open SSTables, newest first
    pending,    \* the writes a transaction has buffered
    kv,         \* what has been written: the contents a reader expects
    recent,     \* for each SSTable the blocks lookups read, latest use last
    writes,     \* number of keys written
    damages     \* number of blocks damaged

vars == <<data, sstables, pending, kv, recent, writes, damages>>

store == [data |-> data, sstables |-> sstables]

Init ==
    /\ data = EmptyTable
    /\ sstables = << >>
    /\ pending = EmptyTable
    /\ kv = EmptyTable
    /\ recent = << >>
    /\ writes = 0
    /\ damages = 0

-----------------------------------------------------------------------------
\* Flushing and compacting a store s = [data, sstables].

compact(s) ==
    LET tables == [i \in 1..Len(s.sstables) |-> SST!read_all_entries(s.sstables[i])]
        merged == Live(Merge(tables, [i \in 1..Len(tables) |-> i]))
    IN  IF Len(s.sstables) < 2 \/ Err \in ToSet(tables) THEN s
        ELSE [s EXCEPT !.sstables =
                 IF merged = EmptyTable THEN << >> ELSE <<SST!flush(merged)>>]

maybe_compact(s) == IF Len(s.sstables) > MAX_SSTABLES THEN compact(s) ELSE s

flush(s) ==
    IF s.data = EmptyTable
      THEN s
      ELSE maybe_compact([data |-> EmptyTable,
                          sstables |-> <<SST!flush(s.data)>> \o s.sstables])

maybe_flush(s) == IF Footprint(s.data) >= memtable_max_bytes THEN flush(s) ELSE s

\* The store becomes s.  A new SSTable has an empty cache.
Become(s) ==
    /\ data' = s.data
    /\ sstables' = s.sstables
    /\ recent' = CASE s.sstables = sstables -> recent
                   [] Len(s.sstables) > Len(sstables) -> << << >> >> \o recent
                   [] OTHER -> [i \in 1..Len(s.sstables) |-> << >>]

\* The entries of batch are inserted, then maybe_flush.
Write(batch) ==
    /\ Become(maybe_flush([store EXCEPT !.data = Overlay(@, batch)]))
    /\ kv' = Live(Overlay(kv, batch))

-----------------------------------------------------------------------------
One(k, e) == [EmptyTable EXCEPT ![k] = e]
InTransaction == pending # EmptyTable

\* set_value and delete_value.
write ==
    /\ ~InTransaction
    /\ writes < MaxWrites
    /\ \E k \in Keys, e \in Entry : Write(One(k, e))
    /\ writes' = writes + 1
    /\ UNCHANGED <<pending, damages>>

txn_write ==
    /\ writes < MaxWrites
    /\ \E k \in Keys, e \in Entry : pending' = [pending EXCEPT ![k] = e]
    /\ writes' = writes + 1
    /\ UNCHANGED <<data, sstables, kv, recent, damages>>

txn_commit ==
    /\ InTransaction
    /\ Write(pending)
    /\ pending' = EmptyTable
    /\ UNCHANGED <<writes, damages>>

rollback ==
    /\ InTransaction
    /\ pending' = EmptyTable
    /\ UNCHANGED <<data, sstables, kv, recent, writes, damages>>

\* A regression in which a buffered delete does not hide the committed value.
txn_get_past_delete(k) ==
    IF pending[k] \in Values THEN pending[k] ELSE get_value(store, k)

txn_get_value(k) ==
    CASE pending[k] = Absent -> get_value(store, k)
      [] pending[k] = Tombstone -> Absent
      [] OTHER -> pending[k]

call_flush ==
    /\ ~InTransaction
    /\ Become(flush(store))
    /\ UNCHANGED <<pending, kv, writes, damages>>

call_compact ==
    /\ ~InTransaction
    /\ Become(compact(store))
    /\ UNCHANGED <<pending, kv, writes, damages>>

\* A lookup of k reads a block of table i, and successfully.
ReadsBlock(i, k) ==
    /\ i <= asked(store, k)
    /\ SST!reads_block(sstables[i], k)
    /\ probes(store, k)[i].entry # Err

\* The list r of the blocks used, once offset has been used.
Used(r, offset) == Append(RemoveFirst(r, offset), offset)

\* A lookup, in a transaction only of a key that it has not written.
get ==
    \E k \in Keys :
        /\ pending[k] = Absent
        /\ sstables' = after_get(store, k)
        /\ recent' = [i \in 1..Len(recent) |->
               IF ReadsBlock(i, k)
                 THEN Used(recent[i], SST!block_of(sstables[i], k))
                 ELSE recent[i]]
        /\ UNCHANGED <<data, pending, kv, writes, damages>>

\* The table is closed and opened again: the memtable is replayed from the log.
reopen ==
    /\ sstables' = [i \in 1..Len(sstables) |-> SST!open(sstables[i])]
    /\ recent' = [i \in 1..Len(sstables) |-> << >>]
    /\ pending' = EmptyTable
    /\ UNCHANGED <<data, kv, writes, damages>>

\* A block on disk goes bad.
damage ==
    /\ damages < MaxDamage
    /\ \E i \in 1..Len(sstables) :
           \E offset \in DOMAIN sstables[i].file :
               sstables' = [sstables EXCEPT ![i].file[offset] = Damaged]
    /\ damages' = damages + 1
    /\ UNCHANGED <<data, pending, kv, recent, writes>>

Next ==
    \/ write \/ txn_write \/ txn_commit \/ rollback
    \/ call_flush \/ call_compact
    \/ get \/ reopen \/ damage

Spec == Init /\ [][Next]_vars

-----------------------------------------------------------------------------
\* Properties.

\* A lookup of k may have to read a damaged block.
Unreadable(k) ==
    \E i \in 1..Len(sstables) :
        LET sst == sstables[i]
        IN  /\ SST!reads_block(sst, k)
            /\ sst.file[SST!block_of(sst, k)] = Damaged
            /\ SST!block_of(sst, k) \notin DOMAIN sst.cache.blocks

\* get_value returns what was last written to a key, whichever memtable,
\* table, block or cache it is in: key range, Bloom filter and sparse index
\* (sstable.rs SsTable::get) never hide an entry, tombstones hide the tables
\* below, and a damaged block gives an error, never another answer.
ReadsAreExact ==
    \A k \in Keys : \/ get_value(store, k) = kv[k]
                    \/ get_value(store, k) = Err /\ Unreadable(k)

SomeDamage ==
    \E i \in 1..Len(sstables) :
        \E o \in DOMAIN sstables[i].file : sstables[i].file[o] = Damaged

Bounds ==
    {Unbounded} \cup {Included(b) : b \in ScanTexts} \cup {Excluded(b) : b \in ScanTexts}

\* The expected result of a scan: the live keys of S, in order, with values.
Expected(S) == pairs([k \in Keys |-> IF k \in S THEN kv[k] ELSE Absent])

\* For all bounds, those of Table::range among them, scan_range returns exactly
\* the live keys between them, in order: range_overlaps skips no table that has
\* one of them, and newer layers win over older ones.  It fails only if some
\* block is damaged, and panics (in BTreeMap::range) only for a start behind
\* the end, and then only while the memtable is not empty.
ScansAreExact ==
    \A lo, hi \in Bounds :
        LET r == scan_range(store, lo, hi)
        IN  \/ r = Expected({k \in Keys : in_bounds(KeyText[k], lo, hi)})
            \/ r = Err /\ SomeDamage
            \/ r = Panic /\ data # EmptyTable /\ Inverted(lo, hi)

\* scan_prefix returns exactly the live keys that begin with the prefix and
\* never panics, for prefixes that end in, or consist of, largest bytes too;
\* the empty prefix gives what scan gives.
PrefixScansExact ==
    /\ \A p \in ScanPrefixes :
           LET r == scan_prefix(store, p)
           IN  \/ r = Expected({k \in Keys : IsPrefix(p, KeyText[k])})
               \/ r = Err /\ SomeDamage
    /\ scan_prefix(store, << >>) = scan(store)

\* The block cache of a table holds the BLOCK_CACHE_CAP blocks that lookups
\* used last (all of them if they are fewer), in the order of their last use,
\* and the map and the queue (BlockCache.blocks, BlockCache.lru) agree.
CacheIsLru ==
    \A i \in 1..Len(sstables) :
        LET c == sstables[i].cache
            n == Len(recent[i])
        IN  /\ DOMAIN c.blocks = ToSet(c.lru)
            /\ c.lru = SubSeq(recent[i], Max({n - BLOCK_CACHE_CAP, 0}) + 1, n)

\* What a transaction reads is what the table holds once it has committed,
\* even if the commit sets off a flush and a compaction.
CommitPublishesReads ==
    [][txn_commit =>
          \A k \in Keys : txn_get_value(k) \in {kv'[k], Err}]_vars

=============================================================================
