-------------------------------- MODULE Lsm --------------------------------
(***************************************************************************)
(* The data of a FerrumDB table.  A key maps to a value or to a tombstone  *)
(* (enum Entry of sstable.rs); a BTreeMap of entries, whether it is the    *)
(* memtable, the pending writes of a transaction or the contents of one    *)
(* SSTable file, is a total function in which Absent marks "no such key".  *)
(* Keys are naturals: all the code asks of a byte string is its order.     *)
(***************************************************************************)
EXTENDS Naturals, Integers, Sequences, FiniteSets, FiniteSetsExt

CONSTANTS
    Keys,        \* the keys, in their lexicographic order
    Values,      \* the values
    Tombstone,   \* Entry::Tombstone
    Absent,      \* Option::None, for an entry and for the result of a read
    KeyBytes,    \* length in bytes of each key
    ValueBytes   \* length in bytes of each value

ASSUME KeysAssumption ==
    /\ Keys \subseteq Nat \ {0}
    /\ IsFiniteSet(Keys)

ASSUME MarkersAssumption ==
    /\ Tombstone \notin Values
    /\ Absent \notin Values
    /\ Tombstone # Absent

ASSUME BytesAssumption ==
    /\ KeyBytes \in [Keys -> Nat]
    /\ ValueBytes \in [Values -> Nat]

Entry == Values \cup {Tombstone}
Table == [Keys -> Entry \cup {Absent}]
EmptyTable == [k \in Keys |-> Absent]

KeysOf(t) == {k \in Keys : t[k] # Absent}

\* BTreeMap::insert of every entry of upper into lower.
Overlay(lower, upper) ==
    [k \in Keys |-> IF upper[k] # Absent THEN upper[k] ELSE lower[k]]

\* The entries that are values: what a reader sees, and what compaction retains.
Live(t) == [k \in Keys |-> IF t[k] = Tombstone THEN Absent ELSE t[k]]

entry_footprint(k, e) ==
    KeyBytes[k] + (IF e = Tombstone THEN 0 ELSE ValueBytes[e])

\* What memtable_bytes estimates: the footprint of every entry of a table.
Footprint(t) ==
    MapThenSumSet(LAMBDA k : entry_footprint(k, t[k]), KeysOf(t))

-----------------------------------------------------------------------------
(***************************************************************************)
(* A set of SSTables: fs maps the id of a file to its contents and ids     *)
(* lists the open tables, index 1 the first one consulted.                 *)
(***************************************************************************)

\* The positions of the tables that hold key k.
Holding(fs, ids, k) == {i \in 1..Len(ids) : fs[ids[i]][k] # Absent}

\* A regression in which the oldest table wins a read or a merge.
OldestWins(fs, ids) ==
    [k \in Keys |-> LET h == Holding(fs, ids, k)
                    IN  IF h = {} THEN Absent ELSE fs[ids[Max(h)]][k]]

\* The first table that has the key wins; equally, in a merge from the last
\* table to the first, the entry that is inserted last.
Merge(fs, ids) ==
    [k \in Keys |-> LET h == Holding(fs, ids, k)
                    IN  IF h = {} THEN Absent ELSE fs[ids[Min(h)]][k]]

\* The elements of S in ascending order, as a BTreeMap iterates over its keys.
Ascending(S) ==
    [i \in 1..Cardinality(S) |->
        CHOOSE x \in S : Cardinality({y \in S : y < x}) = i - 1]

\* The ids of S in descending order: position i has i - 1 larger ids.
NewestFirst(S) ==
    [i \in 1..Cardinality(S) |->
        CHOOSE x \in S : Cardinality({y \in S : y > x}) = i - 1]

=============================================================================
