-------------------------------- MODULE Scan --------------------------------
(***************************************************************************)
(* Reads over the layers of an open table: Store::get_value and            *)
(* Store::scan_range, and the scans of the public API (table.rs).  Here a  *)
(* key is looked at as the byte string KeyText[k]: bounds and prefixes are *)
(* byte strings too and need not be keys of the table.                     *)
(*                                                                         *)
(* A view of the store is a record with its memtable data and its open     *)
(* sstables, newest first.                                                 *)
(***************************************************************************)
EXTENDS Lsm, SequencesExt

CONSTANTS
    BLOCK_SIZE, BLOCK_CACHE_CAP, HashLow, HashHigh, Damaged, Err,
    KeyText,    \* the bytes of each key
    MaxByte,    \* the largest byte, 0xFF in the code
    Panic       \* the outcome of a call that panics

SST == INSTANCE SsTable

\* The order of &[u8].
Less(a, b) ==
    \E i \in 1..Len(b) :
        /\ \A j \in 1..(i - 1) : j <= Len(a) /\ a[j] = b[j]
        /\ i > Len(a) \/ a[i] < b[i]

\* Keys stand for their byte strings: same order, same lengths.
ASSUME KeyTextAssumption ==
    /\ KeyText \in [Keys -> Seq(0..MaxByte)]
    /\ \A k \in Keys : KeyBytes[k] = Len(KeyText[k])
    /\ \A j, k \in Keys : j < k <=> Less(KeyText[j], KeyText[k])

\* An error is told apart from an entry, a table and the records of a block.
ASSUME OutcomesAssumption ==
    /\ Err \notin Entry \cup {Absent}
    /\ Err \notin Table
    /\ Err \notin Seq([key : Keys, entry : Entry])

-----------------------------------------------------------------------------
\* Point reads.

\* The answers of the SSTables to a lookup of k, newest table first.
probes(s, k) == [i \in 1..Len(s.sstables) |-> SST!get(s.sstables[i], k)]

\* How many tables get_value asks: up to the first that has the key or fails.
asked(s, k) ==
    IF s.data[k] # Absent
      THEN 0
      ELSE LET hit == SelectInSeq(probes(s, k), LAMBDA p : p.entry # Absent)
           IN  IF hit = 0 THEN Len(s.sstables) ELSE hit

found(s, k) ==
    CASE s.data[k] # Absent -> s.data[k]
      [] s.data[k] = Absent /\ asked(s, k) = 0 -> Absent
      [] OTHER -> probes(s, k)[asked(s, k)].entry

\* A value, Absent or Err.
get_value(s, k) == IF found(s, k) = Tombstone THEN Absent ELSE found(s, k)

\* The SSTables after the lookup: those asked have updated their caches.
after_get(s, k) ==
    [i \in 1..Len(s.sstables) |->
        IF i <= asked(s, k)
          THEN [s.sstables[i] EXCEPT !.cache = probes(s, k)[i].cache]
          ELSE s.sstables[i]]

-----------------------------------------------------------------------------
\* Range scans.  A bound is unbounded, or includes or excludes a byte string.

Unbounded == [kind |-> "unbounded", at |-> << >>]
Included(b) == [kind |-> "included", at |-> b]
Excluded(b) == [kind |-> "excluded", at |-> b]

in_bounds(key, lo, hi) ==
    /\ CASE lo.kind = "unbounded" -> TRUE
         [] lo.kind = "included" -> ~Less(key, lo.at)
         [] lo.kind = "excluded" -> Less(lo.at, key)
    /\ CASE hi.kind = "unbounded" -> TRUE
         [] hi.kind = "included" -> ~Less(hi.at, key)
         [] hi.kind = "excluded" -> Less(key, hi.at)

\* A regression in which a table that ends at the lower bound is skipped.
overlaps_strictly(min, max, lo, hi) ==
    /\ lo.kind # "unbounded" => Less(lo.at, max)
    /\ hi.kind # "unbounded" => Less(min, hi.at)

range_overlaps(min, max, lo, hi) ==
    /\ ~ CASE lo.kind = "unbounded" -> FALSE
           [] lo.kind = "included" -> Less(max, lo.at)
           [] lo.kind = "excluded" -> ~Less(lo.at, max)
    /\ ~ CASE hi.kind = "unbounded" -> FALSE
           [] hi.kind = "included" -> Less(hi.at, min)
           [] hi.kind = "excluded" -> ~Less(min, hi.at)

\* Bounds that BTreeMap::range does not accept.
Inverted(lo, hi) ==
    /\ lo.kind # "unbounded" /\ hi.kind # "unbounded"
    /\ \/ Less(hi.at, lo.at)
       \/ lo.at = hi.at /\ lo.kind = "excluded" /\ hi.kind = "excluded"

\* BTreeMap::range checks its bounds only when the map is not empty.
range_panics(t, lo, hi) == t # EmptyTable /\ Inverted(lo, hi)

\* What an SSTable contributes to a scan: nothing if its keys are all outside.
scanned(sst, lo, hi) ==
    IF range_overlaps(KeyText[sst.min_key], KeyText[sst.max_key], lo, hi)
      THEN SST!read_all_entries(sst)
      ELSE EmptyTable

\* The entries of the layers that are within the bounds, the newest of each key.
merged_range(layers, lo, hi) ==
    LET newest == Merge(layers, [i \in 1..Len(layers) |-> i])
    IN  [k \in Keys |-> IF in_bounds(KeyText[k], lo, hi) THEN newest[k] ELSE Absent]

\* A table as the sorted list of its live entries.
pairs(t) ==
    LET ks == Ascending(KeysOf(Live(t)))
    IN  [i \in 1..Len(ks) |-> <<ks[i], t[ks[i]]>>]

\* A list of pairs, Err or Panic: the SSTables are read before the memtable.
scan_range(s, lo, hi) ==
    LET layers == [i \in 1..Len(s.sstables) |-> scanned(s.sstables[i], lo, hi)]
    IN  IF Err \in ToSet(layers) THEN Err
        ELSE IF range_panics(s.data, lo, hi) THEN Panic
        ELSE pairs(merged_range(<<s.data>> \o layers, lo, hi))

-----------------------------------------------------------------------------
\* The scans of the public API.

scan(s) == scan_range(s, Unbounded, Unbounded)

\* A regression that carries only out of the last byte.
upper_bound_one_carry(prefix) ==
    LET n == Len(prefix)
    IN  IF n = 0 THEN Unbounded
        ELSE IF prefix[n] < MaxByte THEN Excluded(Append(Front(prefix), prefix[n] + 1))
        ELSE Unbounded

\* The least byte string above all that begin with prefix, if there is one:
\* its last byte that is not the largest goes up by one, what follows goes.
prefix_upper_bound(prefix) ==
    LET i == SelectLastInSeq(prefix, LAMBDA b : b < MaxByte)
    IN  IF i = 0 THEN Unbounded
        ELSE Excluded(Append(SubSeq(prefix, 1, i - 1), prefix[i] + 1))

scan_prefix(s, prefix) ==
    scan_range(s, Included(prefix), prefix_upper_bound(prefix))

=============================================================================
