----------------------------- MODULE BlockCache -----------------------------
(***************************************************************************)
(* The LRU of data blocks that every open SSTable keeps (struct BlockCache *)
(* of sstable.rs): blocks maps the offset of a block to its records, lru   *)
(* lists the same offsets with the least recently used one first.          *)
(***************************************************************************)
EXTENDS Naturals, Sequences, SequencesExt

CONSTANT BLOCK_CACHE_CAP   \* number of blocks a cache may hold

new == [blocks |-> << >>, lru |-> << >>]

\* A regression in which a hit does not count as a use.
touch_inserted_only(lru, offset) ==
    IF offset \in ToSet(lru) THEN lru ELSE Append(lru, offset)

touch(lru, offset) == Append(RemoveFirst(lru, offset), offset)

has(c, offset) == offset \in DOMAIN c.blocks

get(c, offset) == [c EXCEPT !.lru = touch(@, offset)]

\* The block that has to go before the one at offset comes in.
evict(c, offset) ==
    IF ~has(c, offset) /\ Cardinality(DOMAIN c.blocks) >= BLOCK_CACHE_CAP /\ c.lru # << >>
      THEN {Head(c.lru)} ELSE {}

put(c, offset, records) ==
    LET out == evict(c, offset)
        kept == DOMAIN c.blocks \ out
        lru == IF out = {} THEN c.lru ELSE Tail(c.lru)
    IN  IF BLOCK_CACHE_CAP = 0
          THEN c
          ELSE [blocks |-> [o \in kept \cup {offset} |->
                               IF o = offset THEN records ELSE c.blocks[o]],
                lru |-> touch(lru, offset)]

=============================================================================
