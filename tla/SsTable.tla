------------------------------ MODULE SsTable ------------------------------
(***************************************************************************)
(* One SSTable (sstable.rs): how a sorted map is cut into blocks with a    *)
(* sparse index, a key range and a Bloom filter, and how a key is looked   *)
(* up through them and the block cache.                                    *)
(*                                                                         *)
(* A table is a record of what SsTable::open reads from the file (index,   *)
(* min_key, max_key, bloom), of the block cache, and of the file's data    *)
(* region: file maps the offset of a block to its records, or to Damaged   *)
(* if the bytes there no longer match their CRC.                           *)
(***************************************************************************)
EXTENDS Lsm, SequencesExt

CONSTANTS
    BLOCK_SIZE,        \* a block ends once its records reach this size
    BLOCK_CACHE_CAP,
    HashLow,           \* hash64 of each key: its low 32 bits
    HashHigh,          \* ... and its high 32 bits
    Damaged,           \* a block whose CRC does not match
    Err                \* the outcome of a call that returns an error

Cache == INSTANCE BlockCache

\* Lengths of what encode_record and finalize_block add to keys and values:
\* the two lengths and the type, the field header of the value, the CRC.
RecordHeader == 9
ValueHeader == 2
CrcLen == 4

record_len(k, e) ==
    RecordHeader + entry_footprint(k, e) + (IF e = Tombstone THEN 0 ELSE ValueHeader)

-----------------------------------------------------------------------------
\* Bloom filter.

bloom_bits(n) == 8 * ((Max({10 * n, 64}) + 7) \div 8)

odd(h) == IF h % 2 = 0 THEN h + 1 ELSE h

\* The bits of key k in a filter of m bits, by double hashing.
positions(m, k) == {(HashLow[k] + i * odd(HashHigh[k])) % m : i \in 0..6}

new_bloom(S) ==
    LET m == bloom_bits(Cardinality(S))
    IN  [m |-> m, bits |-> UNION {positions(m, k) : k \in S}]

maybe_contains(b, k) == positions(b.m, k) \subseteq b.bits

-----------------------------------------------------------------------------
\* SsTable::flush.

\* A regression in which the index names the last key of a block.
last_key(block) == Last(block).key

block_first_key(block) == Head(block).key

\* f is the file so far: the block under construction becomes its last block.
finalize_block(f) ==
    [block |-> << >>, len |-> 0,
     end   |-> f.end + f.len + CrcLen,
     file  |-> [o \in DOMAIN f.file \cup {f.end} |->
                   IF o = f.end THEN f.block ELSE f.file[o]],
     index |-> Append(f.index, [first_key |-> block_first_key(f.block),
                                block_offset |-> f.end])]

encode_record(f, k, e) ==
    [f EXCEPT !.block = Append(@, [key |-> k, entry |-> e]),
              !.len = @ + record_len(k, e)]

add_entry(f, k, e) ==
    LET g == encode_record(f, k, e)
    IN  IF g.len >= BLOCK_SIZE THEN finalize_block(g) ELSE g

EmptyFile == [block |-> << >>, len |-> 0, end |-> 0, file |-> << >>, index |-> << >>]

with_partial_block(f) == IF f.block = << >> THEN f ELSE finalize_block(f)

\* The table with the entries of t, which is not empty.
flush(t) ==
    LET f == with_partial_block(
                 FoldLeft(LAMBDA g, k : add_entry(g, k, t[k]),
                          EmptyFile, Ascending(KeysOf(t))))
    IN  [index   |-> f.index,
         min_key |-> Min(KeysOf(t)),
         max_key |-> Max(KeysOf(t)),
         bloom   |-> new_bloom(KeysOf(t)),
         file    |-> f.file,
         cache   |-> Cache!new]

\* All that open reads is in the file; the cache starts empty.
open(sst) == [sst EXCEPT !.cache = Cache!new]

-----------------------------------------------------------------------------
\* Lookup.

\* The table can answer without reading a block.
skips(sst, k) ==
    \/ sst.index = << >>
    \/ k < sst.min_key \/ k > sst.max_key
    \/ ~maybe_contains(sst.bloom, k)

\* The position in the index of the last block that starts at or before k.
block_pos(sst, k) == SelectLastInSeq(sst.index, LAMBDA e : e.first_key <= k)

\* get goes on to read a block; it is the one at block_of.
reads_block(sst, k) == ~skips(sst, k) /\ block_pos(sst, k) # 0
block_of(sst, k) == sst.index[block_pos(sst, k)].block_offset

read_block_from_disk(sst, offset) ==
    IF sst.file[offset] = Damaged THEN Err ELSE sst.file[offset]

\* The records of a block, by way of the cache, and the cache afterwards.
cached_block(sst, offset) ==
    IF Cache!has(sst.cache, offset)
      THEN [records |-> sst.cache.blocks[offset],
            cache |-> Cache!get(sst.cache, offset)]
      ELSE LET records == read_block_from_disk(sst, offset)
           IN  [records |-> records,
                cache |-> IF records = Err THEN sst.cache
                          ELSE Cache!put(sst.cache, offset, records)]

\* The scan ends at the first record that is not below the key.
find_in_block(records, k) ==
    LET i == SelectInSeq(records, LAMBDA r : r.key >= k)
    IN  IF i # 0 /\ records[i].key = k THEN records[i].entry ELSE Absent

\* What get returns, an Entry, Absent or Err, and the cache it leaves.
get(sst, k) ==
    IF ~reads_block(sst, k)
      THEN [entry |-> Absent, cache |-> sst.cache]
      ELSE LET b == cached_block(sst, block_of(sst, k))
           IN  [entry |-> IF b.records = Err THEN Err ELSE find_in_block(b.records, k),
                cache |-> b.cache]

\* Every entry of the table, straight from the file.
read_all_entries(sst) ==
    LET blocks == {read_block_from_disk(sst, e.block_offset) : e \in ToSet(sst.index)}
        records == UNION {ToSet(b) : b \in blocks}
    IN  IF Err \in blocks
          THEN Err
          ELSE [k \in Keys |-> IF \E r \in records : r.key = k
                                 THEN (CHOOSE r \in records : r.key = k).entry
                                 ELSE Absent]

=============================================================================
