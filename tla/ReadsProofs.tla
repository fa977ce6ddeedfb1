---------------------------- MODULE ReadsProofs ----------------------------
(***************************************************************************)
(* Reads are exact: proofs for every set of keys, every block size, every  *)
(* hash function and every sequence of writes, flushes, compactions,       *)
(* lookups, reopenings and damaged blocks.                                 *)
(***************************************************************************)
EXTENDS Reads, LsmProofs, SequenceTheorems

-----------------------------------------------------------------------------
(***************************************************************************)
(* The order of byte strings, and the bounds of scans.                     *)
(***************************************************************************)
Text == Seq(0..MaxByte)

LEMMA TextBytes ==
    ASSUME NEW a \in Text
    PROVE  Len(a) \in Nat /\ \A j \in 1..Len(a) : a[j] \in Nat /\ a[j] <= MaxByte
<1>1. MaxByte \in Nat
  BY LimitsAssumption
<1> QED BY <1>1 DEF Text

LEMMA LessIrreflexive ==
    ASSUME NEW a \in Text
    PROVE  ~Less(a, a)
BY TextBytes DEF Less

LEMMA LessTransitive ==
    ASSUME NEW a \in Text, NEW b \in Text, NEW c \in Text, Less(a, b), Less(b, c)
    PROVE  Less(a, c)
<1>1. PICK i \in 1..Len(b) : /\ \A j \in 1..(i - 1) : j <= Len(a) /\ a[j] = b[j]
                             /\ i > Len(a) \/ a[i] < b[i]
  BY DEF Less
<1>2. PICK l \in 1..Len(c) : /\ \A j \in 1..(l - 1) : j <= Len(b) /\ b[j] = c[j]
                             /\ l > Len(b) \/ b[l] < c[l]
  BY DEF Less
<1>3. \A j \in 1..Len(a) : a[j] \in Nat
  BY TextBytes
<1>4. \A j \in 1..Len(b) : b[j] \in Nat
  BY TextBytes
<1>5. \A j \in 1..Len(c) : c[j] \in Nat
  BY TextBytes
<1>6. Len(a) \in Nat /\ Len(b) \in Nat /\ Len(c) \in Nat
  BY TextBytes
<1>7. CASE i <= l
  <2>1. i \in 1..Len(c) /\ \A j \in 1..(i - 1) : j <= Len(a) /\ a[j] = c[j]
    BY <1>1, <1>2, <1>6, <1>7
  <2>2. i > Len(a) \/ a[i] < c[i]
    BY <1>1, <1>2, <1>3, <1>4, <1>5, <1>6, <1>7
  <2> QED BY <2>1, <2>2 DEF Less
<1>8. CASE l < i
  <2>1. \A j \in 1..(l - 1) : j <= Len(a) /\ a[j] = c[j]
    BY <1>1, <1>2, <1>6, <1>8
  <2>2. l > Len(a) \/ a[l] < c[l]
    BY <1>1, <1>2, <1>6, <1>8
  <2> QED BY <2>1, <2>2 DEF Less
<1> QED BY <1>6, <1>7, <1>8

\* Two byte strings agree up to their first difference.
LEMMA FirstDifference ==
    ASSUME NEW a \in Text, NEW b \in Text, NEW n \in 0..Len(b),
           ~(Len(a) >= n /\ \A j \in 1..n : a[j] = b[j])
    PROVE  \E i \in 1..n : /\ \A j \in 1..(i - 1) : j <= Len(a) /\ a[j] = b[j]
                           /\ i > Len(a) \/ a[i] # b[i]
<1> DEFINE D == {i \in 1..n : i > Len(a) \/ a[i] # b[i]}
<1>1. Len(a) \in Nat /\ Len(b) \in Nat
  BY TextBytes
<1>2. D # {} /\ D \in SUBSET Nat
  <2>1. CASE Len(a) < n
    <3>1. n \in D
      BY <1>1, <2>1
    <3> QED BY <3>1
  <2>2. CASE Len(a) >= n
    BY <1>1, <2>2
  <2> QED BY <1>1, <2>1, <2>2
<1>3. PICK i \in D : \A j \in D : i <= j
  <2> HIDE DEF D
  <2> QED BY <1>2, NatMin
<1>4. \A j \in 1..(i - 1) : j <= Len(a) /\ a[j] = b[j]
  <2> TAKE j \in 1..(i - 1)
  <2>1. j \in 1..n /\ ~(i <= j)
    BY <1>1, <1>3
  <2>2. j \notin D
    <3> HIDE DEF D
    <3> QED BY <1>3, <2>1
  <2> QED BY <1>1, <2>1, <2>2
<1> QED BY <1>3, <1>4

LEMMA LessTotal ==
    ASSUME NEW a \in Text, NEW b \in Text, a # b
    PROVE  Less(a, b) \/ Less(b, a)
<1>1. /\ Len(a) \in Nat /\ Len(b) \in Nat
      /\ \A j \in 1..Len(a) : a[j] \in Nat
  BY TextBytes
<1>2. \A j \in 1..Len(b) : b[j] \in Nat
  BY TextBytes
<1>3. CASE Len(a) >= Len(b) /\ \A j \in 1..Len(b) : a[j] = b[j]
  <2>1. Len(a) # Len(b)
    BY <1>1, <1>3 DEF Text
  <2>2. Len(b) + 1 \in 1..Len(a)
    BY <1>1, <1>3, <2>1
  <2> QED BY <1>1, <1>3, <2>2 DEF Less
<1>4. CASE ~(Len(a) >= Len(b) /\ \A j \in 1..Len(b) : a[j] = b[j])
  <2>1. PICK i \in 1..Len(b) :
            /\ \A j \in 1..(i - 1) : j <= Len(a) /\ a[j] = b[j]
            /\ i > Len(a) \/ a[i] # b[i]
    <3>1. Len(b) \in 0..Len(b)
      BY <1>1
    <3> QED BY <1>4, <3>1, FirstDifference
  <2>2. CASE i > Len(a) \/ a[i] < b[i]
    BY <2>1, <2>2 DEF Less
  <2>3. CASE i <= Len(a) /\ b[i] < a[i]
    BY <1>1, <2>1, <2>3 DEF Less
  <2> QED BY <1>1, <1>2, <2>1, <2>2, <2>3
<1> QED BY <1>3, <1>4

LEMMA PrefixIs ==
    ASSUME NEW p \in Text, NEW b \in Text
    PROVE  IsPrefix(p, b) <=> Len(b) >= Len(p) /\ \A j \in 1..Len(p) : b[j] = p[j]
<1>1. Len(p) \in Nat /\ Len(b) \in Nat
  BY TextBytes
<1>2. SubSeq(p, 1, Len(p)) = [j \in 1..Len(p) |-> p[j]]
  BY <1>1 DEF Text
<1>3. Len(b) >= Len(p) => SubSeq(b, 1, Len(p)) = [j \in 1..Len(p) |-> b[j]]
  BY <1>1 DEF Text
<1> QED BY <1>1, <1>2, <1>3 DEF IsPrefix

\* What prefix_upper_bound returns: the position of the last byte that can go up.
LEMMA UpperBoundIs ==
    ASSUME NEW p \in Text
    PROVE  \/ /\ prefix_upper_bound(p) = Unbounded
              /\ \A j \in 1..Len(p) : p[j] = MaxByte
           \/ \E i \in 1..Len(p) :
                /\ prefix_upper_bound(p) = Excluded(Append(SubSeq(p, 1, i - 1), p[i] + 1))
                /\ p[i] < MaxByte
                /\ \A j \in 1..Len(p) : j > i => p[j] = MaxByte
<1> DEFINE I == {i \in 1..Len(p) : p[i] < MaxByte}
           i == SelectLastInSeq(p, LAMBDA b : b < MaxByte)
<1>1. i = IF I # {} THEN Max(I) ELSE 0
  BY DEF SelectLastInSeq
<1>2. prefix_upper_bound(p) =
          IF i = 0 THEN Unbounded ELSE Excluded(Append(SubSeq(p, 1, i - 1), p[i] + 1))
  BY DEF prefix_upper_bound
<1>3. /\ Len(p) \in Nat /\ MaxByte \in Nat
      /\ \A j \in 1..Len(p) : p[j] \in Nat /\ p[j] <= MaxByte
  BY TextBytes, LimitsAssumption
<1> HIDE DEF i
<1>4. CASE I = {}
  <2>1. i = 0
    BY <1>1, <1>4
  <2>2. \A j \in 1..Len(p) : p[j] = MaxByte
    BY <1>3, <1>4
  <2> QED BY <1>2, <2>1, <2>2
<1>5. CASE I # {}
  <2>1. I \in SUBSET Nat /\ \A x \in I : x <= Len(p)
    BY <1>3
  <2>2. i \in I /\ \A j \in I : i >= j
    <3> HIDE DEF I
    <3> QED BY <1>1, <1>3, <1>5, <2>1, MaxOfBounded
  <2>3. \A j \in 1..Len(p) : j > i => p[j] = MaxByte
    BY <1>3, <2>2
  <2> QED BY <1>2, <1>3, <2>2, <2>3
<1> QED BY <1>4, <1>5

(***************************************************************************)
(* The bounds that Table::scan_prefix passes to scan_range select exactly  *)
(* the byte strings that begin with the prefix, whatever the prefix:       *)
(* empty, ending in 0xFF bytes or made of nothing else (table.rs           *)
(* prefix_upper_bound).                                                    *)
(***************************************************************************)
THEOREM PrefixBoundsExact ==
    \A p, b \in Text :
        in_bounds(b, Included(p), prefix_upper_bound(p)) <=> IsPrefix(p, b)
<1> SUFFICES ASSUME NEW p \in Text, NEW b \in Text
             PROVE  in_bounds(b, Included(p), prefix_upper_bound(p)) <=> IsPrefix(p, b)
  OBVIOUS
<1> DEFINE hi == prefix_upper_bound(p)
           Below == \/ hi.kind = "unbounded"
                    \/ hi.kind = "excluded" /\ Less(b, hi.at)
<1>1. /\ Len(p) \in Nat /\ Len(b) \in Nat /\ MaxByte \in Nat
      /\ \A j \in 1..Len(p) : p[j] \in Nat
  BY TextBytes, LimitsAssumption
<1>2. \A j \in 1..Len(b) : b[j] \in Nat /\ b[j] <= MaxByte
  BY TextBytes
<1>3. in_bounds(b, Included(p), hi) <=> ~Less(b, p) /\ Below
  <2>1. hi.kind \in {"unbounded", "excluded"}
    BY UpperBoundIs DEF Unbounded, Excluded
  <2> HIDE DEF hi
  <2> QED BY <2>1 DEF in_bounds, Included
<1>4. ASSUME NEW i \in 1..Len(p), hi = Excluded(Append(SubSeq(p, 1, i - 1), p[i] + 1))
      PROVE  /\ Below <=> Less(b, hi.at)
             /\ Len(hi.at) = i /\ hi.at[i] = p[i] + 1
             /\ \A j \in 1..(i - 1) : hi.at[j] = p[j]
  <2> DEFINE s == SubSeq(p, 1, i - 1)
             u == Append(s, p[i] + 1)
  <2>1. s \in Seq(Nat) /\ Len(s) = i - 1 /\ \A j \in 1..(i - 1) : s[j] = p[j]
    BY <1>1, <1>4 DEF Text
  <2>2. hi.kind = "excluded" /\ hi.at = u
    BY <1>4 DEF Excluded
  <2> HIDE DEF s, hi
  <2>3. Len(u) = i /\ u[i] = p[i] + 1 /\ \A j \in 1..(i - 1) : u[j] = s[j]
    BY <1>1, <2>1
  <2> QED BY <2>1, <2>2, <2>3
<1>5. ASSUME IsPrefix(p, b)
      PROVE  ~Less(b, p) /\ Below
  <2>1. Len(b) >= Len(p) /\ \A j \in 1..Len(p) : b[j] = p[j]
    BY <1>5, PrefixIs
  <2>2. ~Less(b, p)
    BY <1>1, <2>1 DEF Less
  <2>3. ASSUME NEW i \in 1..Len(p), hi = Excluded(Append(SubSeq(p, 1, i - 1), p[i] + 1))
        PROVE  Below
    <3> HIDE DEF hi, Below
    <3>1. /\ Below <=> Less(b, hi.at)
          /\ Len(hi.at) = i /\ hi.at[i] = p[i] + 1
          /\ \A j \in 1..(i - 1) : hi.at[j] = p[j]
      BY <1>1, <1>4, <2>3
    <3>2. /\ i \in 1..Len(hi.at) /\ b[i] < hi.at[i]
          /\ \A j \in 1..(i - 1) : j <= Len(b) /\ b[j] = hi.at[j]
      BY <1>1, <2>1, <3>1
    <3>3. Less(b, hi.at)
      BY <3>2 DEF Less
    <3> QED BY <3>1, <3>3
  <2>4. CASE hi = Unbounded
    BY <2>2, <2>4 DEF Unbounded
  <2> HIDE DEF Below
  <2> QED BY <2>2, <2>3, <2>4, UpperBoundIs
<1>6. ASSUME ~Less(b, p), Below
      PROVE  IsPrefix(p, b)
  <2>1. SUFFICES ASSUME ~(Len(b) >= Len(p) /\ \A j \in 1..Len(p) : b[j] = p[j])
                 PROVE  FALSE
    BY PrefixIs
  <2>2. PICK d \in 1..Len(p) : /\ \A j \in 1..(d - 1) : j <= Len(b) /\ b[j] = p[j]
                               /\ d > Len(b) \/ b[d] # p[d]
    <3>1. Len(p) \in 0..Len(p)
      BY <1>1
    <3> QED BY <2>1, <3>1, FirstDifference
  <2>3. d <= Len(b) /\ b[d] > p[d]
    <3>1. ~(d > Len(b) \/ b[d] < p[d])
      BY <1>6, <2>2 DEF Less
    <3> QED BY <1>1, <1>2, <2>2, <3>1
  <2>4. p[d] # MaxByte
    BY <1>1, <1>2, <2>3
  <2>5. PICK i \in 1..Len(p) :
            /\ hi = Excluded(Append(SubSeq(p, 1, i - 1), p[i] + 1))
            /\ \A j \in 1..Len(p) : j > i => p[j] = MaxByte
    BY <2>4, UpperBoundIs
  <2>6. d <= i
    BY <1>1, <2>4, <2>5
  <2>7. /\ Less(b, hi.at) /\ Len(hi.at) = i /\ hi.at[i] = p[i] + 1
        /\ \A j \in 1..(i - 1) : hi.at[j] = p[j]
    BY <1>4, <1>6, <2>5
  <2> HIDE DEF hi
  <2>8. PICK w \in 1..i : /\ \A j \in 1..(w - 1) : j <= Len(b) /\ b[j] = hi.at[j]
                          /\ w > Len(b) \/ b[w] < hi.at[w]
    BY <2>7 DEF Less
  <2>9. CASE w < d
    BY <1>1, <1>2, <2>2, <2>3, <2>6, <2>7, <2>8, <2>9
  <2>10. CASE w = d
    BY <1>1, <1>2, <2>3, <2>6, <2>7, <2>8, <2>10
  <2>11. CASE w > d
    BY <1>1, <1>2, <2>3, <2>6, <2>7, <2>8, <2>11
  <2> QED BY <2>9, <2>10, <2>11
<1> QED
  <2> HIDE DEF hi, Below
  <2> QED BY <1>3, <1>5, <1>6 DEF hi

\* A table whose key range reaches into the bounds is not skipped: a scan reads
\* every table that has a key within them.
LEMMA OverlapCovers ==
    ASSUME NEW min \in Text, NEW max \in Text, NEW b \in Text, NEW lo, NEW hi,
           lo.at \in Text, hi.at \in Text,
           lo.kind \in {"unbounded", "included", "excluded"},
           hi.kind \in {"unbounded", "included", "excluded"},
           ~Less(b, min), ~Less(max, b), in_bounds(b, lo, hi)
    PROVE  range_overlaps(min, max, lo, hi)
<1>1. \A c \in Text : Less(c, min) => Less(c, b)
  BY LessTransitive, LessTotal
<1>2. \A c \in Text : Less(max, c) => Less(b, c)
  BY LessTransitive, LessTotal
<1>3. \A c \in Text : Less(b, c) => Less(min, c)
  BY LessTransitive, LessTotal
<1>4. \A c \in Text : Less(c, b) => Less(c, max)
  BY LessTransitive, LessTotal
<1> QED BY <1>1, <1>2, <1>3, <1>4 DEF in_bounds, range_overlaps

-----------------------------------------------------------------------------
(***************************************************************************)
(* SsTable::flush: how the entries of a table t are laid out in blocks.    *)
(***************************************************************************)
Records(t) == {[key |-> k, entry |-> t[k]] : k \in KeysOf(t)}

IndexEntries == [first_key : Keys, block_offset : Nat]

\* The types of the file that flush has under construction.
Files(t) ==
    [block : Seq(Records(t)), len : Nat, end : Nat,
     file : UNION {[X -> Seq(Records(t))] : X \in SUBSET Nat},
     index : Seq(IndexEntries)]

Sorted(block) == \A x, y \in 1..Len(block) : x < y => block[x].key < block[y].key

BlockAt(f, i) == f.file[f.index[i].block_offset]

\* Every block of the file is where the index says, starts with the key that
\* the index says, and lies below the next one.
Indexed(f) ==
    /\ DOMAIN f.file = {f.index[i].block_offset : i \in 1..Len(f.index)}
    /\ \A i \in 1..Len(f.index) :
           /\ f.index[i].block_offset < f.end
           /\ Len(BlockAt(f, i)) > 0
           /\ BlockAt(f, i)[1].key = f.index[i].first_key
           /\ Sorted(BlockAt(f, i))
    /\ \A i, j \in 1..Len(f.index) :
           i < j => \A x \in 1..Len(BlockAt(f, i)) :
                        BlockAt(f, i)[x].key < f.index[j].first_key

\* The block under construction comes after them.
Continues(f) ==
    /\ Sorted(f.block)
    /\ \A i \in 1..Len(f.index) : \A x \in 1..Len(BlockAt(f, i)) :
           \A y \in 1..Len(f.block) : BlockAt(f, i)[x].key < f.block[y].key

\* The keys of S, and no others, are in the file or in that block.
Placed(f, S) ==
    /\ \A y \in 1..Len(f.block) : f.block[y].key \in S
    /\ \A i \in 1..Len(f.index) : \A x \in 1..Len(BlockAt(f, i)) :
           BlockAt(f, i)[x].key \in S
    /\ \A k \in S : \/ \E y \in 1..Len(f.block) : f.block[y].key = k
                    \/ \E i \in 1..Len(f.index) : \E x \in 1..Len(BlockAt(f, i)) :
                           BlockAt(f, i)[x].key = k

Laid(t, f, S) == f \in Files(t) /\ Indexed(f) /\ Continues(f) /\ Placed(f, S)

LEMMA RecordsAre ==
    ASSUME NEW t \in Table
    PROVE  /\ \A r \in Records(t) : /\ r.key \in KeysOf(t) /\ r.key \in Nat /\ r.key \in Keys
                                    /\ r.entry = t[r.key]
           /\ \A k \in KeysOf(t) : [key |-> k, entry |-> t[k]] \in Records(t)
BY KeysAssumption DEF Records, KeysOf

LEMMA BlockAtType ==
    ASSUME NEW t \in Table, NEW f \in Files(t), Indexed(f), NEW i \in 1..Len(f.index)
    PROVE  /\ f.index[i] \in IndexEntries
           /\ f.index[i].block_offset \in DOMAIN f.file
           /\ f.index[i].block_offset \in Nat /\ f.index[i].first_key \in Keys
           /\ BlockAt(f, i) \in Seq(Records(t))
<1>1. f.index[i] \in IndexEntries
  BY DEF Files
<1>2. f.index[i].block_offset \in DOMAIN f.file
  BY DEF Indexed
<1>3. PICK X \in SUBSET Nat : f.file \in [X -> Seq(Records(t))]
  BY DEF Files
<1> QED BY <1>1, <1>2, <1>3 DEF BlockAt, IndexEntries

LEMMA RecordLen ==
    ASSUME NEW t \in Table, NEW k \in KeysOf(t)
    PROVE  SST!record_len(k, t[k]) \in Nat
<1>1. k \in Keys /\ t[k] \in Entry
  BY DEF KeysOf, Table
<1>2. entry_footprint(k, t[k]) \in Nat
  BY <1>1, BytesAssumption DEF entry_footprint, Entry
<1>3. SST!entry_footprint(k, t[k]) = entry_footprint(k, t[k])
  BY DEF SST!entry_footprint, entry_footprint
<1> QED BY <1>2, <1>3 DEF SST!record_len, SST!RecordHeader, SST!ValueHeader

LEMMA EncodeIs ==
    ASSUME NEW t \in Table, NEW f \in Files(t), NEW k \in KeysOf(t)
    PROVE  LET g == SST!encode_record(f, k, t[k])
           IN  /\ g \in Files(t)
               /\ g.block = Append(f.block, [key |-> k, entry |-> t[k]])
               /\ g.file = f.file /\ g.index = f.index /\ g.end = f.end
<1> DEFINE r == [key |-> k, entry |-> t[k]]
           g == SST!encode_record(f, k, t[k])
<1>1. r \in Records(t)
  BY RecordsAre
<1>2. g = [f EXCEPT !.block = Append(f.block, r), !.len = f.len + SST!record_len(k, t[k])]
  BY DEF SST!encode_record
<1>3. /\ f.block \in Seq(Records(t)) /\ f.len \in Nat
      /\ f = [block |-> f.block, len |-> f.len, end |-> f.end, file |-> f.file, index |-> f.index]
  BY DEF Files
<1>4. Append(f.block, r) \in Seq(Records(t)) /\ f.len + SST!record_len(k, t[k]) \in Nat
  BY <1>1, <1>3, RecordLen
<1> HIDE DEF r
<1>5. g = [block |-> Append(f.block, r), len |-> f.len + SST!record_len(k, t[k]),
           end |-> f.end, file |-> f.file, index |-> f.index]
  BY <1>2, <1>3
<1> QED BY <1>4, <1>5 DEF Files, r

LEMMA EncodeLaid ==
    ASSUME NEW t \in Table, NEW f, NEW S \in SUBSET Nat, Laid(t, f, S),
           NEW k \in KeysOf(t), \A s \in S : s < k
    PROVE  /\ Laid(t, SST!encode_record(f, k, t[k]), S \cup {k})
           /\ SST!encode_record(f, k, t[k]).block # << >>
<1> DEFINE g == SST!encode_record(f, k, t[k])
           r == [key |-> k, entry |-> t[k]]
<1>0. f \in Files(t) /\ Indexed(f) /\ Continues(f) /\ Placed(f, S)
  BY DEF Laid
<1>1. /\ g \in Files(t) /\ g.block = Append(f.block, r)
      /\ g.file = f.file /\ g.index = f.index /\ g.end = f.end
  BY <1>0, EncodeIs
<1>2. r.key = k
  OBVIOUS
<1> HIDE DEF g, r
<1>3. \A i : BlockAt(g, i) = BlockAt(f, i)
  BY <1>1 DEF BlockAt
<1>4. Indexed(g)
  BY <1>0, <1>1, <1>3 DEF Indexed
<1>5. /\ f.block \in Seq(Records(t)) /\ Len(g.block) = Len(f.block) + 1 /\ Len(f.block) \in Nat
      /\ \A y \in 1..Len(f.block) : g.block[y] = f.block[y]
      /\ g.block[Len(f.block) + 1] = r
  BY <1>0, <1>1 DEF Files
<1>6. Placed(g, S \cup {k})
  <2>1. \A y \in 1..Len(g.block) : g.block[y].key \in S \cup {k}
    BY <1>0, <1>2, <1>5 DEF Placed
  <2>2. \A i \in 1..Len(g.index) : \A x \in 1..Len(BlockAt(g, i)) :
           BlockAt(g, i)[x].key \in S \cup {k}
    BY <1>0, <1>1, <1>3 DEF Placed
  <2>3. ASSUME NEW s \in S \cup {k}
        PROVE  \/ \E y \in 1..Len(g.block) : g.block[y].key = s
               \/ \E i \in 1..Len(g.index) : \E x \in 1..Len(BlockAt(g, i)) :
                           BlockAt(g, i)[x].key = s
    <3>1. CASE s = k
      <4>1. Len(f.block) + 1 \in 1..Len(g.block)
        BY <1>5
      <4> QED BY <1>2, <1>5, <3>1, <4>1
    <3>2. CASE s \in S
      <4>1. \A y \in 1..Len(f.block) : y \in 1..Len(g.block)
        BY <1>5
      <4> QED BY <1>0, <1>1, <1>3, <1>5, <3>2, <4>1 DEF Placed
    <3> QED BY <3>1, <3>2
  <2> QED BY <2>1, <2>2, <2>3 DEF Placed
<1>7. Continues(g)
  <2>1. \A y \in 1..Len(f.block) : f.block[y].key \in S
    BY <1>0 DEF Placed
  <2>2. Sorted(g.block)
    <3> SUFFICES ASSUME NEW x \in 1..Len(g.block), NEW y \in 1..Len(g.block), x < y
                 PROVE  g.block[x].key < g.block[y].key
      BY DEF Sorted
    <3>1. x \in 1..Len(f.block)
      BY <1>5
    <3>2. CASE y \in 1..Len(f.block)
      BY <1>0, <1>5, <3>1, <3>2 DEF Continues, Sorted
    <3>3. CASE y = Len(f.block) + 1
      BY <1>2, <1>5, <2>1, <3>1, <3>3
    <3> QED BY <1>5, <3>2, <3>3
  <2>3. ASSUME NEW i \in 1..Len(g.index), NEW x \in 1..Len(BlockAt(g, i)),
               NEW y \in 1..Len(g.block)
        PROVE  BlockAt(g, i)[x].key < g.block[y].key
    <3>0. i \in 1..Len(f.index) /\ x \in 1..Len(BlockAt(f, i)) /\ BlockAt(g, i) = BlockAt(f, i)
      BY <1>1, <1>3
    <3>1. CASE y \in 1..Len(f.block)
      BY <1>0, <1>5, <3>0, <3>1 DEF Continues
    <3>2. CASE y = Len(f.block) + 1
      <4>1. BlockAt(f, i)[x].key \in S
        BY <1>0, <3>0 DEF Placed
      <4> QED BY <1>2, <1>5, <3>0, <3>2, <4>1
    <3> QED BY <1>5, <3>1, <3>2
  <2> QED BY <2>2, <2>3 DEF Continues
<1>8. g.block # << >>
  BY <1>5
<1> QED BY <1>1, <1>4, <1>6, <1>7, <1>8 DEF Laid, g

\* What finalize_block does to the file.
LEMMA FinalizeIs ==
    ASSUME NEW t \in Table, NEW f \in Files(t), f.block # << >>
    PROVE  LET g == SST!finalize_block(f)
               e == [first_key |-> f.block[1].key, block_offset |-> f.end]
           IN  /\ g \in Files(t) /\ g.block = << >> /\ g.end > f.end
               /\ g.index = Append(f.index, e)
               /\ DOMAIN g.file = DOMAIN f.file \cup {f.end}
               /\ g.file[f.end] = f.block
               /\ \A o \in DOMAIN f.file : o # f.end => g.file[o] = f.file[o]
<1> DEFINE e == [first_key |-> f.block[1].key, block_offset |-> f.end]
           file == [o \in DOMAIN f.file \cup {f.end} |-> IF o = f.end THEN f.block ELSE f.file[o]]
           index == Append(f.index, e)
           end == f.end + f.len + 4
<1>1. /\ f.block \in Seq(Records(t)) /\ f.len \in Nat /\ f.end \in Nat
      /\ f.index \in Seq(IndexEntries)
  BY DEF Files
<1>2. PICK X \in SUBSET Nat : f.file \in [X -> Seq(Records(t))]
  BY DEF Files
<1>3. Len(f.block) \in Nat /\ Len(f.block) > 0 /\ f.block[1] \in Records(t)
  BY <1>1
<1>4. e \in IndexEntries
  BY <1>1, <1>3, RecordsAre DEF IndexEntries
<1>5. index \in Seq(IndexEntries)
  <2> HIDE DEF e
  <2> QED BY <1>1, <1>4
<1>6. file \in [X \cup {f.end} -> Seq(Records(t))] /\ X \cup {f.end} \in SUBSET Nat
  BY <1>1, <1>2
<1>7. file \in UNION {[Y -> Seq(Records(t))] : Y \in SUBSET Nat}
  <2> HIDE DEF file
  <2> QED BY <1>6
<1>8. SST!finalize_block(f) =
          [block |-> << >>, len |-> 0, end |-> end, file |-> file, index |-> index]
  BY <1>1, <1>3 DEF SST!finalize_block, SST!CrcLen, SST!block_first_key
<1>9. end \in Nat /\ end > f.end
  BY <1>1
<1>10. /\ DOMAIN file = DOMAIN f.file \cup {f.end}
       /\ file[f.end] = f.block
       /\ \A o \in DOMAIN f.file : o # f.end => file[o] = f.file[o]
  OBVIOUS
<1> HIDE DEF file, index, end
<1>11. SST!finalize_block(f) \in Files(t)
  BY <1>5, <1>7, <1>8, <1>9 DEF Files
<1> QED BY <1>8, <1>9, <1>10, <1>11 DEF index

LEMMA FinalizeLaid ==
    ASSUME NEW t \in Table, NEW f, NEW S \in SUBSET Nat, Laid(t, f, S), f.block # << >>
    PROVE  Laid(t, SST!finalize_block(f), S) /\ SST!finalize_block(f).block = << >>
<1> DEFINE g == SST!finalize_block(f)
           e == [first_key |-> f.block[1].key, block_offset |-> f.end]
           n == Len(f.index)
<1>0. f \in Files(t) /\ Indexed(f) /\ Continues(f) /\ Placed(f, S)
  BY DEF Laid
<1>1. /\ g \in Files(t) /\ g.block = << >> /\ g.end > f.end
      /\ g.index = Append(f.index, e)
      /\ DOMAIN g.file = DOMAIN f.file \cup {f.end}
      /\ g.file[f.end] = f.block
      /\ \A o \in DOMAIN f.file : o # f.end => g.file[o] = f.file[o]
  BY <1>0, FinalizeIs
<1>2. e.first_key = f.block[1].key /\ e.block_offset = f.end
  OBVIOUS
<1> HIDE DEF g, e
<1>3. /\ f.index \in Seq(IndexEntries) /\ n \in Nat /\ f.end \in Nat /\ g.end \in Nat
      /\ f.block \in Seq(Records(t)) /\ Len(f.block) \in Nat /\ Len(f.block) > 0
  BY <1>0, <1>1 DEF Files
<1>4. /\ Len(g.index) = n + 1 /\ g.index[n + 1] = e
      /\ \A i \in 1..n : g.index[i] = f.index[i]
  BY <1>1, <1>3
<1>5. BlockAt(g, n + 1) = f.block
  BY <1>1, <1>2, <1>4 DEF BlockAt
<1>6. \A i \in 1..n : /\ f.index[i].block_offset \in Nat /\ f.index[i].block_offset < f.end
                      /\ f.index[i].block_offset \in DOMAIN f.file
  <2> TAKE i \in 1..n
  <2>1. f.index[i].block_offset < f.end
    BY <1>0 DEF Indexed
  <2> QED BY <1>0, <2>1, BlockAtType
<1>7. \A i \in 1..n : BlockAt(g, i) = BlockAt(f, i)
  <2> TAKE i \in 1..n
  <2>1. f.index[i].block_offset # f.end /\ f.index[i].block_offset \in DOMAIN f.file
    BY <1>3, <1>6
  <2> QED BY <1>1, <1>4, <2>1 DEF BlockAt
<1>8. \A i \in 1..Len(g.index) : i \in 1..n \/ i = n + 1
  BY <1>3, <1>4
<1>9. Indexed(g)
  <2>1. DOMAIN g.file = {g.index[i].block_offset : i \in 1..Len(g.index)}
    <3>1. DOMAIN f.file = {f.index[i].block_offset : i \in 1..n}
      BY <1>0 DEF Indexed
    <3>2. \A i \in 1..n : i \in 1..Len(g.index)
      BY <1>3, <1>4
    <3>3. n + 1 \in 1..Len(g.index)
      BY <1>3, <1>4
    <3> HIDE DEF n
    <3> QED BY <1>1, <1>2, <1>4, <1>8, <3>1, <3>2, <3>3
  <2>2. ASSUME NEW i \in 1..Len(g.index)
        PROVE  /\ g.index[i].block_offset < g.end
               /\ Len(BlockAt(g, i)) > 0
               /\ BlockAt(g, i)[1].key = g.index[i].first_key
               /\ Sorted(BlockAt(g, i))
    <3>1. CASE i \in 1..n
      <4>1. g.index[i].block_offset < g.end
        BY <1>1, <1>3, <1>4, <1>6, <3>1
      <4> QED BY <1>0, <1>4, <1>7, <3>1, <4>1 DEF Indexed
    <3>2. CASE i = n + 1
      BY <1>0, <1>1, <1>2, <1>3, <1>4, <1>5, <3>2 DEF Continues
    <3> QED BY <1>8, <3>1, <3>2
  <2>3. ASSUME NEW i \in 1..Len(g.index), NEW j \in 1..Len(g.index), i < j,
               NEW x \in 1..Len(BlockAt(g, i))
        PROVE  BlockAt(g, i)[x].key < g.index[j].first_key
    <3>1. i \in 1..n
      BY <1>3, <1>4, <2>3
    <3>2. CASE j \in 1..n
      BY <1>0, <1>4, <1>7, <2>3, <3>1, <3>2 DEF Indexed
    <3>3. CASE j = n + 1
      <4>1. 1 \in 1..Len(f.block)
        BY <1>3
      <4> QED BY <1>0, <1>2, <1>4, <1>7, <2>3, <3>1, <3>3, <4>1 DEF Continues
    <3> QED BY <1>8, <3>2, <3>3
  <2> QED BY <2>1, <2>2, <2>3 DEF Indexed
<1>10. Continues(g)
  <2>1. Len(g.block) = 0
    BY <1>1
  <2> QED BY <2>1 DEF Continues, Sorted
<1>11. Placed(g, S)
  <2>1. Len(g.block) = 0
    BY <1>1
  <2>2. ASSUME NEW i \in 1..Len(g.index), NEW x \in 1..Len(BlockAt(g, i))
        PROVE  BlockAt(g, i)[x].key \in S
    BY <1>0, <1>5, <1>7, <1>8, <2>2 DEF Placed
  <2>3. ASSUME NEW k \in S
        PROVE  \E i \in 1..Len(g.index) : \E x \in 1..Len(BlockAt(g, i)) :
                   BlockAt(g, i)[x].key = k
    <3>1. CASE \E y \in 1..Len(f.block) : f.block[y].key = k
      <4>1. n + 1 \in 1..Len(g.index)
        BY <1>3, <1>4
      <4> QED BY <1>5, <3>1, <4>1
    <3>2. CASE \E i \in 1..n : \E x \in 1..Len(BlockAt(f, i)) : BlockAt(f, i)[x].key = k
      <4>1. \A i \in 1..n : i \in 1..Len(g.index)
        BY <1>3, <1>4
      <4> QED BY <1>7, <3>2, <4>1
    <3> QED BY <1>0, <3>1, <3>2 DEF Placed
  <2> QED BY <2>1, <2>2, <2>3 DEF Placed
<1> QED BY <1>1, <1>9, <1>10, <1>11 DEF Laid, g

LEMMA AddEntryLaid ==
    ASSUME NEW t \in Table, NEW f, NEW S \in SUBSET Nat, Laid(t, f, S),
           NEW k \in KeysOf(t), \A s \in S : s < k
    PROVE  Laid(t, SST!add_entry(f, k, t[k]), S \cup {k})
<1> DEFINE g == SST!encode_record(f, k, t[k])
<1>1. Laid(t, g, S \cup {k}) /\ g.block # << >>
  BY EncodeLaid
<1>2. S \cup {k} \in SUBSET Nat
  BY KeysAssumption DEF KeysOf
<1>3. Laid(t, SST!finalize_block(g), S \cup {k})
  <2> HIDE DEF g
  <2> QED BY <1>1, <1>2, FinalizeLaid
<1> QED BY <1>1, <1>3 DEF SST!add_entry

\* The types alone, for any order of the keys.
LEMMA AddEntryType ==
    ASSUME NEW t \in Table, NEW f \in Files(t), NEW k \in KeysOf(t)
    PROVE  SST!add_entry(f, k, t[k]) \in Files(t)
<1> DEFINE g == SST!encode_record(f, k, t[k])
<1>1. g \in Files(t) /\ g.block = Append(f.block, [key |-> k, entry |-> t[k]])
  BY EncodeIs
<1>2. g.block # << >>
  <2>1. f.block \in Seq(Records(t)) /\ [key |-> k, entry |-> t[k]] \in Records(t)
    BY RecordsAre DEF Files
  <2> HIDE DEF g
  <2> QED BY <1>1, <2>1
<1>3. SST!finalize_block(g) \in Files(t)
  <2> HIDE DEF g
  <2> QED BY <1>1, <1>2, FinalizeIs
<1> QED BY <1>1, <1>3 DEF SST!add_entry

LEMMA EmptyFileLaid ==
    ASSUME NEW t \in Table
    PROVE  Laid(t, SST!EmptyFile, {})
<1> DEFINE f == SST!EmptyFile
<1>1. f = [block |-> << >>, len |-> 0, end |-> 0, file |-> << >>, index |-> << >>]
  BY DEF SST!EmptyFile
<1>2. << >> \in [{} -> Seq(Records(t))] /\ {} \in SUBSET Nat
  <2>1. << >> \in Seq(Seq(Records(t))) /\ Len(<< >>) = 0
    OBVIOUS
  <2>2. << >> \in [1..0 -> Seq(Records(t))]
    BY <2>1
  <2>3. 1..0 = {}
    OBVIOUS
  <2> QED BY <2>2, <2>3
<1>3. f \in Files(t)
  <2>1. << >> \in UNION {[X -> Seq(Records(t))] : X \in SUBSET Nat}
    BY <1>2
  <2>2. << >> \in Seq(Records(t)) /\ << >> \in Seq(IndexEntries)
    OBVIOUS
  <2> QED BY <1>1, <2>1, <2>2 DEF Files
<1>4. Len(f.index) = 0 /\ Len(f.block) = 0 /\ DOMAIN f.file = {}
  BY <1>1
<1> HIDE DEF f
<1> QED BY <1>3, <1>4 DEF Laid, Indexed, Continues, Placed, Sorted, f

\* SsTable has its own copies of the operators of Lsm.
LEMMA SstOperators ==
    /\ SST!EmptyTable = EmptyTable /\ SST!Table = Table
    /\ \A S : SST!Ascending(S) = Ascending(S)
    /\ \A S : SST!Min(S) = Min(S) /\ SST!Max(S) = Max(S)
    /\ \A t : SST!KeysOf(t) = KeysOf(t)
    /\ \A s : SST!ToSet(s) = ToSet(s)
<1>1. SST!EmptyTable = EmptyTable /\ SST!Table = Table
  BY DEF SST!EmptyTable, EmptyTable, SST!Table, SST!Entry, Table, Entry
<1>2. \A S : SST!Ascending(S) = Ascending(S)
  BY DEF SST!Ascending, Ascending, SST!Cardinality, Cardinality
<1>3. \A S : SST!Min(S) = Min(S) /\ SST!Max(S) = Max(S)
  BY DEF SST!Min, SST!Max, Min, Max
<1>4. \A t : SST!KeysOf(t) = KeysOf(t)
  BY DEF SST!KeysOf, KeysOf
<1>5. \A s : SST!ToSet(s) = ToSet(s)
  BY DEF SST!ToSet, ToSet
<1> QED BY <1>1, <1>2, <1>3, <1>4, <1>5

\* What FoldLeft makes of the loop in flush: the file after the keys at s.
FoldSteps(it, t, ks) ==
    it = [s \in SUBSET (DOMAIN ks) |->
             IF s = {} THEN SST!EmptyFile
             ELSE SST!add_entry(it[s \ {Max(s)}], ks[Max(s)], t[ks[Max(s)]])]

SstOf(t, f) ==
    [index   |-> f.index,
     min_key |-> Min(KeysOf(t)),
     max_key |-> Max(KeysOf(t)),
     bloom   |-> SST!new_bloom(KeysOf(t)),
     file    |-> f.file,
     cache   |-> SST!Cache!new]

LEMMA FlushFolds ==
   ASSUME NEW t
   PROVE  LET ks == Ascending(KeysOf(t))
          IN  SST!flush(t) = SstOf(t, SST!with_partial_block(
                       (CHOOSE it : FoldSteps(it, t, ks))[DOMAIN ks]))
<1>1. \A S : SST!Max(S) = Max(S)
  BY SstOperators
<1>2. \A ks : SST!FoldLeft(LAMBDA g, k : SST!add_entry(g, k, t[k]), SST!EmptyFile, ks)
       = (CHOOSE it : FoldSteps(it, t, ks))[DOMAIN ks]
  BY <1>1 DEF SST!FoldLeft, SST!MapThenFoldSet, FoldSteps
<1> QED BY <1>2, SstOperators DEF SST!flush, SstOf

LEMMA KeysOfFinite ==
    ASSUME NEW t
    PROVE  KeysOf(t) \in SUBSET Nat /\ IsFiniteSet(KeysOf(t)) /\ KeysOf(t) \subseteq Keys
<1>1. KeysOf(t) \subseteq Keys
  BY DEF KeysOf
<1> QED BY <1>1, KeysAssumption, FS_Subset

\* The recursion has a solution.
LEMMA FoldStepsExist ==
    ASSUME NEW t \in Table, NEW ks \in Seq(KeysOf(t))
    PROVE  \E it : FoldSteps(it, t, ks)
<1> DEFINE S == DOMAIN ks
           D == Files(t)
           pick == [s \in SUBSET S |-> Max(s)]
           step == [p \in S \X D |-> SST!add_entry(p[2], ks[p[1]], t[ks[p[1]]])]
<1>1. Len(ks) \in Nat /\ S = 1..Len(ks) /\ \A i \in S : ks[i] \in KeysOf(t)
  OBVIOUS
<1>2. IsFiniteSet(S)
  BY <1>1, FS_Interval
<1>3. ASSUME NEW s \in SUBSET S, s # {}
      PROVE  Max(s) \in s
  <2>1. s \in SUBSET Nat /\ \A x \in s : x <= Len(ks)
    BY <1>1
  <2> QED BY <1>1, <1>3, <2>1, MaxOfBounded
<1>4. \A s \in SUBSET S : s # {} => pick[s] \in s
  BY <1>3
<1>5. step \in [S \X D -> D]
  <2>1. \A p \in S \X D : SST!add_entry(p[2], ks[p[1]], t[ks[p[1]]]) \in D
    BY <1>1, AddEntryType
  <2> HIDE DEF D, S
  <2> QED BY <2>1
<1>6. SST!EmptyFile \in D
  BY EmptyFileLaid DEF Laid
<1>7. PICK it \in [SUBSET S -> D] : IsFold(it, SUBSET S, SST!EmptyFile, pick, step)
  <2> HIDE DEF S, D, pick, step
  <2> QED BY <1>2, <1>4, <1>5, <1>6, FoldExists
<1>8. ASSUME NEW s \in SUBSET S
      PROVE  it[s] = IF s = {} THEN SST!EmptyFile
                     ELSE SST!add_entry(it[s \ {Max(s)}], ks[Max(s)], t[ks[Max(s)]])
  <2>1. CASE s = {}
    BY <1>7, <2>1 DEF IsFold
  <2>2. CASE s # {}
    <3>1. it[s] = step[<<pick[s], it[s \ {pick[s]}]>>]
      <4> HIDE DEF pick, step, S, D
      <4> QED BY <1>7, <2>2 DEF IsFold
    <3>2. pick[s] = Max(s) /\ Max(s) \in S /\ s \ {Max(s)} \in SUBSET S
      BY <1>3, <2>2
    <3>3. it[s \ {Max(s)}] \in D
      <4> HIDE DEF D, S
      <4> QED BY <1>7, <3>2
    <3>4. <<Max(s), it[s \ {Max(s)}]>> \in S \X D
      <4> HIDE DEF D, S
      <4> QED BY <3>2, <3>3
    <3> HIDE DEF D, S, pick
    <3> QED BY <2>2, <3>1, <3>2, <3>4
  <2> QED BY <2>1, <2>2
<1>9. it = [s \in SUBSET S |-> IF s = {} THEN SST!EmptyFile
                     ELSE SST!add_entry(it[s \ {Max(s)}], ks[Max(s)], t[ks[Max(s)]])]
  <2> HIDE DEF D, S
  <2> QED BY <1>7, <1>8
<1>10. FoldSteps(it, t, ks)
  BY <1>9 DEF FoldSteps
<1> QED BY <1>10

\* After j keys the file has been laid out for these.
LEMMA FoldLaid ==
    ASSUME NEW t \in Table, NEW it, FoldSteps(it, t, Ascending(KeysOf(t))),
           NEW j \in 0..Len(Ascending(KeysOf(t)))
    PROVE  Laid(t, it[1..j], {Ascending(KeysOf(t))[i] : i \in 1..j})
<1> DEFINE ks == Ascending(KeysOf(t))
           n == Len(ks)
           P(m) == {ks[i] : i \in 1..m}
           Bad == {m \in 0..n : ~Laid(t, it[1..m], P(m))}
<1>1. /\ ks \in Seq(KeysOf(t)) /\ n \in Nat
      /\ \A i, m \in 1..n : i < m => ks[i] < ks[m]
      /\ \A i \in 1..n : ks[i] \in KeysOf(t) /\ ks[i] \in Nat
  BY KeysOfFinite, AscendingSorts
<1> HIDE DEF ks
<1>2. DOMAIN ks = 1..n
  BY <1>1
<1>3. \A s \in SUBSET (1..n) :
         it[s] = IF s = {} THEN SST!EmptyFile
                 ELSE SST!add_entry(it[s \ {Max(s)}], ks[Max(s)], t[ks[Max(s)]])
  BY <1>2 DEF FoldSteps, ks
<1>4. SUFFICES ASSUME Bad # {} PROVE FALSE
  BY DEF ks
<1>5. PICK m \in Bad : \A l \in Bad : m <= l
  <2>1. Bad \in SUBSET Nat
    BY <1>1
  <2> HIDE DEF Bad
  <2> QED BY <1>4, <2>1, NatMin
<1>6. m \in 0..n /\ ~Laid(t, it[1..m], P(m))
  BY <1>5
<1>7. CASE m = 0
  <2>1. 1..m = {} /\ P(m) = {}
    BY <1>7
  <2>2. it[1..m] = SST!EmptyFile
    BY <1>3, <2>1
  <2> QED BY <1>6, <2>1, <2>2, EmptyFileLaid
<1>8. CASE m # 0
  <2>1. m - 1 \in 0..n /\ m \in 1..n /\ m - 1 < m /\ m \in Nat
    BY <1>1, <1>6, <1>8
  <2>2. Laid(t, it[1..(m - 1)], P(m - 1))
    <3>1. m - 1 \notin Bad
      <4> HIDE DEF Bad
      <4> QED BY <1>1, <1>5, <1>6, <2>1
    <3> QED BY <2>1, <3>1
  <2>3. 1..m \in SUBSET (1..n) /\ 1..m # {} /\ (1..m) \ {m} = 1..(m - 1)
    BY <1>1, <2>1
  <2>4. Max(1..m) = m
    <3> DEFINE U == 1..m
    <3>1. m \in U /\ \A x \in U : x \in Nat /\ x <= m
      BY <2>1
    <3> HIDE DEF U
    <3>2. U \in SUBSET Nat /\ U # {}
      BY <3>1
    <3>3. Max(U) \in U /\ \A y \in U : Max(U) >= y
      BY <2>1, <3>1, <3>2, MaxOfBounded
    <3>4. Max(U) \in Nat /\ Max(U) <= m
      BY <3>1, <3>3
    <3>5. Max(U) >= m
      BY <3>1, <3>3
    <3> DEFINE z == Max(U)
    <3> HIDE DEF z
    <3>6. z = m
      <4>1. z \in Nat /\ z <= m /\ z >= m
        BY <3>4, <3>5 DEF z
      <4> QED BY <2>1, <4>1
    <3> QED BY <3>6 DEF z, U
  <2>5. it[1..m] = SST!add_entry(it[1..(m - 1)], ks[m], t[ks[m]])
    BY <1>3, <2>3, <2>4
  <2>6. P(m) = P(m - 1) \cup {ks[m]}
    <3>1. \A i \in 1..m : i \in 1..(m - 1) \/ i = m
      BY <1>1, <2>1
    <3>2. \A i \in 1..(m - 1) : i \in 1..m
      BY <1>1, <2>1
    <3>3. m \in 1..m
      BY <1>1, <2>1
    <3> QED BY <3>1, <3>2, <3>3
  <2>7. P(m - 1) \in SUBSET Nat /\ \A s \in P(m - 1) : s < ks[m]
    <3>1. \A i \in 1..(m - 1) : i \in 1..n /\ i < m
      BY <1>1, <2>1
    <3>2. \A i \in 1..(m - 1) : ks[i] \in Nat /\ ks[i] < ks[m]
      BY <1>1, <2>1, <3>1
    <3> QED BY <3>2
  <2>8. ks[m] \in KeysOf(t)
    BY <1>1, <2>1
  <2> HIDE DEF P
  <2>9. Laid(t, SST!add_entry(it[1..(m - 1)], ks[m], t[ks[m]]), P(m - 1) \cup {ks[m]})
    BY <2>2, <2>7, <2>8, AddEntryLaid
  <2> QED BY <1>6, <2>5, <2>6, <2>9
<1> QED BY <1>7, <1>8

\* What SsTable::flush writes: every entry of the table is in a block.
LEMMA FlushLaid ==
    ASSUME NEW t \in Table
    PROVE  \E f : /\ Laid(t, f, KeysOf(t)) /\ f.block = << >>
                  /\ SST!flush(t) = SstOf(t, f)
<1> DEFINE ks == Ascending(KeysOf(t))
           it == CHOOSE x : FoldSteps(x, t, ks)
           g == it[DOMAIN ks]
           f == SST!with_partial_block(g)
<1>1. /\ ks \in Seq(KeysOf(t)) /\ Len(ks) \in Nat /\ DOMAIN ks = 1..Len(ks)
      /\ \A k \in KeysOf(t) : \E i \in 1..Len(ks) : ks[i] = k
  BY KeysOfFinite, AscendingSorts
<1>2. FoldSteps(it, t, ks)
  <2> HIDE DEF ks
  <2> QED BY <1>1, FoldStepsExist
<1>3. {ks[i] : i \in 1..Len(ks)} = KeysOf(t)
  <2> HIDE DEF ks
  <2> QED BY <1>1
<1>4. Laid(t, g, KeysOf(t))
  <2>1. Len(ks) \in 0..Len(ks)
    BY <1>1
  <2> HIDE DEF it
  <2>2. Laid(t, it[1..Len(ks)], {ks[i] : i \in 1..Len(ks)})
    BY <1>2, <2>1, FoldLaid
  <2> HIDE DEF ks
  <2> QED BY <1>1, <1>3, <2>2
<1>5. SST!flush(t) = SstOf(t, f)
  BY FlushFolds
<1>6. Laid(t, f, KeysOf(t)) /\ f.block = << >>
  <2> HIDE DEF g
  <2>1. CASE g.block = << >>
    BY <1>4, <2>1 DEF SST!with_partial_block
  <2>2. CASE g.block # << >>
    BY <1>4, <2>2, KeysOfFinite, FinalizeLaid DEF SST!with_partial_block
  <2> QED BY <2>1, <2>2
<1> QED BY <1>5, <1>6

-----------------------------------------------------------------------------
(***************************************************************************)
(* SsTable::get finds exactly what flush has written.                      *)
(***************************************************************************)
LEMMA BlockPosIs ==
    ASSUME NEW s, s.index \in Seq(IndexEntries), NEW k \in Keys
    PROVE  LET p == SST!block_pos(s, k)
           IN  \/ /\ p = 0
                  /\ \A i \in 1..Len(s.index) : ~(s.index[i].first_key <= k)
               \/ /\ p \in 1..Len(s.index) /\ s.index[p].first_key <= k
                  /\ \A i \in 1..Len(s.index) : s.index[i].first_key <= k => i <= p
<1> DEFINE I == {i \in 1..Len(s.index) : s.index[i].first_key <= k}
           p == SST!block_pos(s, k)
<1>1. \A S : SST!Max(S) = Max(S)
  BY SstOperators
<1>2. p = IF I # {} THEN Max(I) ELSE 0
  BY <1>1 DEF SST!block_pos, SST!SelectLastInSeq
<1>3. Len(s.index) \in Nat
  OBVIOUS
<1>4. I \in SUBSET Nat /\ \A x \in I : x <= Len(s.index)
  BY <1>3
<1> HIDE DEF p
<1>5. CASE I = {}
  BY <1>2, <1>5 DEF p
<1>6. CASE I # {}
  <2>1. p \in I /\ \A j \in I : p >= j
    <3> HIDE DEF I
    <3> QED BY <1>2, <1>3, <1>4, <1>6, MaxOfBounded
  <2>2. p \in 1..Len(s.index) /\ s.index[p].first_key <= k
    BY <2>1
  <2>3. \A i \in 1..Len(s.index) : s.index[i].first_key <= k => i <= p
    BY <1>3, <2>1
  <2> QED BY <2>2, <2>3 DEF p
<1> QED BY <1>5, <1>6

\* The Bloom filter has no false negatives, and the key range is the table's.
LEMMA NotFiltered ==
    ASSUME NEW t \in Table, NEW k \in KeysOf(t)
    PROVE  /\ SST!maybe_contains(SST!new_bloom(KeysOf(t)), k)
           /\ ~(k < Min(KeysOf(t))) /\ ~(k > Max(KeysOf(t)))
<1>1. SST!maybe_contains(SST!new_bloom(KeysOf(t)), k)
  BY DEF SST!maybe_contains, SST!new_bloom
<1>2. KeysOf(t) \in SUBSET Nat /\ IsFiniteSet(KeysOf(t)) /\ KeysOf(t) # {} /\ k \in Nat
  BY KeysOfFinite
<1>3. Min(KeysOf(t)) \in KeysOf(t) /\ Min(KeysOf(t)) <= k
  BY <1>2, MinOfNats
<1>4. Max(KeysOf(t)) \in KeysOf(t) /\ Max(KeysOf(t)) >= k
  BY <1>2, MaxOfFinite
<1>5. Min(KeysOf(t)) \in Nat /\ Max(KeysOf(t)) \in Nat
  BY <1>2, <1>3, <1>4
<1> QED BY <1>1, <1>2, <1>3, <1>4, <1>5

\* Block b has an entry for key k.
HasKey(b, k) == \E x \in 1..Len(b) : b[x].key = k

\* What flush promises to get and to read_all_entries.
LEMMA FlushServes ==
    ASSUME NEW t \in Table
    PROVE  LET s == SST!flush(t)
           IN  /\ s.index \in Seq(IndexEntries)
               /\ DOMAIN s.file = {s.index[i].block_offset : i \in 1..Len(s.index)}
               /\ \A o \in DOMAIN s.file : s.file[o] \in Seq(Records(t)) /\ Sorted(s.file[o])
               /\ \A k \in KeysOf(t) : /\ SST!reads_block(s, k)
                                       /\ HasKey(s.file[SST!block_of(s, k)], k)
               /\ \A k \in Keys : SST!reads_block(s, k) => SST!block_of(s, k) \in DOMAIN s.file
<1> DEFINE s == SST!flush(t)
<1>1. PICK f : /\ Laid(t, f, KeysOf(t)) /\ f.block = << >>
               /\ s = SstOf(t, f)
  BY FlushLaid
<1>2. /\ s.index = f.index /\ s.file = f.file
      /\ s.min_key = Min(KeysOf(t)) /\ s.max_key = Max(KeysOf(t))
      /\ s.bloom = SST!new_bloom(KeysOf(t))
  BY <1>1 DEF SstOf
<1> HIDE DEF s
<1>3. /\ f \in Files(t) /\ Indexed(f) /\ Placed(f, KeysOf(t))
      /\ f.index \in Seq(IndexEntries) /\ Len(f.index) \in Nat /\ Len(f.block) = 0
  BY <1>1 DEF Laid, Files
<1>4. DOMAIN f.file = {f.index[i].block_offset : i \in 1..Len(f.index)}
  BY <1>3 DEF Indexed
<1>5. ASSUME NEW o \in DOMAIN f.file
      PROVE  f.file[o] \in Seq(Records(t)) /\ Sorted(f.file[o])
  <2>1. PICK i \in 1..Len(f.index) : o = f.index[i].block_offset
    BY <1>4
  <2>2. BlockAt(f, i) \in Seq(Records(t)) /\ Sorted(BlockAt(f, i))
    BY <1>3, BlockAtType DEF Indexed
  <2> QED BY <2>1, <2>2 DEF BlockAt
<1>6. ASSUME NEW k \in KeysOf(t)
      PROVE  SST!reads_block(s, k) /\ HasKey(f.file[SST!block_of(s, k)], k)
  <2> DEFINE p == SST!block_pos(s, k)
  <2>1. PICK i \in 1..Len(f.index) : \E x \in 1..Len(BlockAt(f, i)) : BlockAt(f, i)[x].key = k
    BY <1>3 DEF Placed
  <2>2. PICK x \in 1..Len(BlockAt(f, i)) : BlockAt(f, i)[x].key = k
    BY <2>1
  <2>3. /\ BlockAt(f, i) \in Seq(Records(t)) /\ Len(BlockAt(f, i)) \in Nat
        /\ \A y \in 1..Len(BlockAt(f, i)) : BlockAt(f, i)[y].key \in Nat
    <3>1. BlockAt(f, i) \in Seq(Records(t))
      BY <1>3, BlockAtType
    <3> QED BY <3>1, RecordsAre
  <2>4. /\ BlockAt(f, i)[1].key = f.index[i].first_key /\ Sorted(BlockAt(f, i))
        /\ \A j \in 1..Len(f.index) : i < j => k < f.index[j].first_key
    BY <1>3, <2>2 DEF Indexed
  <2>5. f.index[i].first_key <= k
    <3>1. 1 \in 1..Len(BlockAt(f, i))
      BY <2>2, <2>3
    <3>2. x = 1 \/ 1 < x
      BY <2>2, <2>3
    <3>3. BlockAt(f, i)[1].key \in Nat /\ k \in Nat
      BY <2>2, <2>3, <3>1
    <3>4. 1 < x => BlockAt(f, i)[1].key < k
      BY <2>2, <2>4, <3>1 DEF Sorted
    <3> QED BY <2>2, <2>4, <3>2, <3>3, <3>4
  <2>6. \A j \in 1..Len(f.index) : f.index[j].first_key \in Nat
    BY <1>3, BlockAtType, KeysAssumption
  <2>7. k \in Keys /\ k \in Nat
    BY KeysOfFinite
  <2>8. p = i
    <3>1. p \in 1..Len(f.index) /\ f.index[p].first_key <= k /\ i <= p
      BY <1>2, <1>3, <2>5, <2>7, BlockPosIs
    <3> HIDE DEF p
    <3>2. ~(i < p)
      BY <2>4, <2>6, <2>7, <3>1
    <3> QED BY <1>3, <3>1, <3>2
  <2>9. s.index # << >>
    BY <1>2, <1>3, <2>1
  <2>10. SST!reads_block(s, k)
    <3>1. p # 0
      BY <2>8
    <3>2. ~SST!skips(s, k)
      BY <1>2, <2>9, NotFiltered DEF SST!skips
    <3> QED BY <3>1, <3>2 DEF SST!reads_block
  <2>11. f.file[SST!block_of(s, k)] = BlockAt(f, i)
    BY <1>2, <2>8 DEF SST!block_of, BlockAt
  <2> QED BY <2>2, <2>10, <2>11 DEF HasKey
<1>7. ASSUME NEW k \in Keys, SST!reads_block(s, k)
      PROVE  SST!block_of(s, k) \in DOMAIN f.file
  <2>1. SST!block_pos(s, k) # 0
    BY <1>7 DEF SST!reads_block
  <2>2. SST!block_pos(s, k) \in 1..Len(f.index)
    BY <1>2, <1>3, <2>1, BlockPosIs
  <2> QED BY <1>2, <1>4, <2>2 DEF SST!block_of
<1> QED BY <1>2, <1>3, <1>4, <1>5, <1>6, <1>7 DEF s

LEMMA FindInBlock ==
    ASSUME NEW t \in Table, NEW b \in Seq(Records(t)), Sorted(b), NEW k \in Keys
    PROVE  SST!find_in_block(b, k) = IF HasKey(b, k) THEN t[k] ELSE Absent
<1> DEFINE I == {i \in 1..Len(b) : b[i].key >= k}
           p == SST!SelectInSeq(b, LAMBDA r : r.key >= k)
<1>1. \A S : SST!Min(S) = Min(S)
  BY SstOperators
<1>2. p = IF I # {} THEN Min(I) ELSE 0
  BY <1>1 DEF SST!SelectInSeq
<1>3. SST!find_in_block(b, k) = IF p # 0 /\ b[p].key = k THEN b[p].entry ELSE Absent
  BY DEF SST!find_in_block
<1>4. /\ Len(b) \in Nat
      /\ \A i \in 1..Len(b) : b[i].key \in Nat /\ b[i].entry = t[b[i].key]
  BY RecordsAre
<1>5. k \in Nat
  BY KeysAssumption
<1> HIDE DEF p
<1>6. CASE I = {}
  <2>1. ~HasKey(b, k)
    BY <1>4, <1>5, <1>6 DEF HasKey
  <2> QED BY <1>2, <1>3, <1>6, <2>1
<1>7. CASE I # {}
  <2>1. p \in I /\ \A j \in I : p <= j
    <3>1. I \in SUBSET Nat
      BY <1>4
    <3> HIDE DEF I
    <3> QED BY <1>2, <1>7, <3>1, MinOfNats
  <2>2. p \in 1..Len(b) /\ p # 0
    BY <1>4, <2>1
  <2>3. CASE b[p].key = k
    <3>1. HasKey(b, k) /\ b[p].entry = t[k]
      BY <1>4, <2>2, <2>3 DEF HasKey
    <3> QED BY <1>3, <2>2, <2>3, <3>1
  <2>4. CASE b[p].key # k
    <3>1. SUFFICES ASSUME NEW x \in 1..Len(b), b[x].key = k PROVE FALSE
      BY <1>3, <2>4 DEF HasKey
    <3>2. x \in I
      BY <1>5, <3>1
    <3>3. p < x
      BY <1>4, <2>1, <2>2, <2>4, <3>1, <3>2
    <3>4. b[p].key < k
      BY <2>2, <3>1, <3>3 DEF Sorted
    <3> QED BY <1>4, <1>5, <2>1, <2>2, <3>4
  <2> QED BY <2>3, <2>4
<1> QED BY <1>6, <1>7

IsRecord(sst) ==
    /\ sst = [index |-> sst.index, min_key |-> sst.min_key, max_key |-> sst.max_key,
              bloom |-> sst.bloom, file |-> sst.file, cache |-> sst.cache]
    /\ sst.cache = [blocks |-> sst.cache.blocks, lru |-> sst.cache.lru]

SameFooter(sst, s) ==
    /\ sst.index = s.index /\ sst.bloom = s.bloom
    /\ sst.min_key = s.min_key /\ sst.max_key = s.max_key

\* sst is the table that flush wrote for t, some blocks of which have gone bad
\* and some of which are cached.
Written(sst, t) ==
    LET s == SST!flush(t)
    IN  /\ t \in Table /\ t # EmptyTable
        /\ IsRecord(sst)
        /\ SameFooter(sst, s)
        /\ DOMAIN sst.file = DOMAIN s.file
        /\ \A o \in DOMAIN s.file : sst.file[o] = s.file[o] \/ sst.file[o] = Damaged
        /\ \A o \in DOMAIN sst.cache.blocks :
               o \in DOMAIN s.file /\ sst.cache.blocks[o] = s.file[o]

LEMMA SameLookup ==
    ASSUME NEW sst, NEW s, SameFooter(sst, s), NEW k
    PROVE  /\ SST!reads_block(sst, k) <=> SST!reads_block(s, k)
           /\ SST!block_of(sst, k) = SST!block_of(s, k)
<1>1. SST!block_pos(sst, k) = SST!block_pos(s, k)
  BY DEF SameFooter, SST!block_pos
<1>2. SST!skips(sst, k) <=> SST!skips(s, k)
  BY DEF SameFooter, SST!skips
<1> QED BY <1>1, <1>2 DEF SameFooter, SST!reads_block, SST!block_of

\* A block is no error.
LEMMA BlockIsNoError ==
    ASSUME NEW t \in Table
    PROVE  Err \notin Seq(Records(t))
<1>1. ASSUME NEW r \in Records(t)
      PROVE  r \in [key : Keys, entry : Entry]
  <2>1. PICK k \in KeysOf(t) : r = [key |-> k, entry |-> t[k]]
    BY DEF Records
  <2>2. k \in Keys /\ t[k] \in Entry
    BY DEF KeysOf, Table
  <2> QED BY <2>1, <2>2
<1>2. ASSUME NEW b \in Seq(Records(t))
      PROVE  b \in Seq([key : Keys, entry : Entry])
  <2> DEFINE R == [key : Keys, entry : Entry]
  <2>1. \A r \in Records(t) : r \in R
    BY <1>1
  <2> HIDE DEF R
  <2>2. Len(b) \in Nat /\ b \in [1..Len(b) -> R]
    BY <2>1
  <2>3. b \in Seq(R)
    BY <2>2
  <2> QED BY <2>3 DEF R
<1> QED BY <1>2, OutcomesAssumption

\* Putting a block into the cache keeps what it already has, or drops it.
LEMMA CachePut ==
    ASSUME NEW c, NEW o, NEW b, c = [blocks |-> c.blocks, lru |-> c.lru]
    PROVE  LET d == SST!Cache!put(c, o, b)
           IN  /\ d = [blocks |-> d.blocks, lru |-> d.lru]
               /\ \A x \in DOMAIN d.blocks :
                      \/ x = o /\ d.blocks[x] = b
                      \/ x \in DOMAIN c.blocks /\ d.blocks[x] = c.blocks[x]
<1>1. CASE BLOCK_CACHE_CAP = 0
  BY <1>1 DEF SST!Cache!put
<1>2. CASE BLOCK_CACHE_CAP # 0
  <2> DEFINE out == SST!Cache!evict(c, o)
             kept == DOMAIN c.blocks \ out
             lru == SST!Cache!touch(IF out = {} THEN c.lru ELSE Tail(c.lru), o)
             blocks == [x \in kept \cup {o} |-> IF x = o THEN b ELSE c.blocks[x]]
  <2>1. SST!Cache!put(c, o, b) = [blocks |-> blocks, lru |-> lru]
    BY <1>2 DEF SST!Cache!put
  <2>2. \A x \in DOMAIN blocks : \/ x = o /\ blocks[x] = b
                                 \/ x \in DOMAIN c.blocks /\ blocks[x] = c.blocks[x]
    OBVIOUS
  <2> HIDE DEF blocks, lru
  <2> QED BY <2>1, <2>2
<1> QED BY <1>1, <1>2

LEMMA WrittenCache ==
    ASSUME NEW sst, NEW t, Written(sst, t), NEW c,
           c = [blocks |-> c.blocks, lru |-> c.lru],
           \A x \in DOMAIN c.blocks :
               x \in DOMAIN SST!flush(t).file /\ c.blocks[x] = SST!flush(t).file[x]
    PROVE  Written([sst EXCEPT !.cache = c], t)
<1> DEFINE r == [sst EXCEPT !.cache = c]
           s == SST!flush(t)
<1> HIDE DEF s
<1>1. /\ t \in Table /\ t # EmptyTable /\ IsRecord(sst) /\ SameFooter(sst, s)
      /\ DOMAIN sst.file = DOMAIN s.file
      /\ \A x \in DOMAIN s.file : sst.file[x] = s.file[x] \/ sst.file[x] = Damaged
  BY DEF Written, s
<1>2. r = [index |-> sst.index, min_key |-> sst.min_key, max_key |-> sst.max_key,
           bloom |-> sst.bloom, file |-> sst.file, cache |-> c]
  BY <1>1 DEF IsRecord
<1>3. /\ r.index = sst.index /\ r.min_key = sst.min_key /\ r.max_key = sst.max_key
      /\ r.bloom = sst.bloom /\ r.file = sst.file /\ r.cache = c
  BY <1>2
<1> HIDE DEF r
<1>4. IsRecord(r)
  BY <1>2, <1>3 DEF IsRecord
<1>5. SameFooter(r, s)
  BY <1>1, <1>3 DEF SameFooter
<1>6. Written(r, t)
  BY <1>1, <1>3, <1>4, <1>5 DEF Written, s
<1> QED BY <1>6 DEF r

LEMMA GetExact ==
    ASSUME NEW sst, NEW t, Written(sst, t), NEW k \in Keys
    PROVE  LET g == SST!get(sst, k)
           IN  /\ Written([sst EXCEPT !.cache = g.cache], t)
               /\ \/ g.entry = t[k]
                  \/ /\ g.entry = Err
                     /\ SST!reads_block(sst, k)
                     /\ sst.file[SST!block_of(sst, k)] = Damaged
                     /\ SST!block_of(sst, k) \notin DOMAIN sst.cache.blocks
<1> DEFINE s == SST!flush(t)
           g == SST!get(sst, k)
           o == SST!block_of(sst, k)
           b == SST!cached_block(sst, o)
<1>1. /\ t \in Table /\ IsRecord(sst) /\ SameFooter(sst, s) /\ DOMAIN sst.file = DOMAIN s.file
      /\ \A x \in DOMAIN s.file : sst.file[x] = s.file[x] \/ sst.file[x] = Damaged
      /\ \A x \in DOMAIN sst.cache.blocks :
               x \in DOMAIN s.file /\ sst.cache.blocks[x] = s.file[x]
  BY DEF Written
<1>2. /\ SST!reads_block(sst, k) <=> SST!reads_block(s, k)
      /\ o = SST!block_of(s, k)
  <2> HIDE DEF s
  <2> QED BY <1>1, SameLookup
<1>3. /\ \A x \in DOMAIN s.file : s.file[x] \in Seq(Records(t)) /\ Sorted(s.file[x])
      /\ k \in KeysOf(t) => SST!reads_block(s, k) /\ HasKey(s.file[o], k)
      /\ SST!reads_block(s, k) => o \in DOMAIN s.file
  BY <1>1, <1>2, FlushServes
<1> HIDE DEF s, o
<1>4. SUFFICES /\ /\ g.cache = [blocks |-> g.cache.blocks, lru |-> g.cache.lru]
                  /\ \A x \in DOMAIN g.cache.blocks :
                         x \in DOMAIN s.file /\ g.cache.blocks[x] = s.file[x]
               /\ \/ g.entry = t[k]
                  \/ /\ g.entry = Err
                     /\ SST!reads_block(sst, k)
                     /\ sst.file[o] = Damaged
                     /\ o \notin DOMAIN sst.cache.blocks
  <2> HIDE DEF g
  <2> QED BY WrittenCache DEF o, g, s
<1>5. CASE ~SST!reads_block(sst, k)
  <2>1. g = [entry |-> Absent, cache |-> sst.cache]
    BY <1>5 DEF SST!get
  <2>2. t[k] = Absent
    BY <1>2, <1>3, <1>5 DEF KeysOf
  <2>3. sst.cache = [blocks |-> sst.cache.blocks, lru |-> sst.cache.lru]
    BY <1>1 DEF IsRecord
  <2> HIDE DEF g
  <2> QED BY <1>1, <2>1, <2>2, <2>3
<1>6. CASE SST!reads_block(sst, k)
  <2>1. g = [entry |-> IF b.records = Err THEN Err ELSE SST!find_in_block(b.records, k),
             cache |-> b.cache]
    BY <1>6 DEF SST!get, o
  <2>2. o \in DOMAIN s.file /\ s.file[o] \in Seq(Records(t)) /\ Sorted(s.file[o])
    BY <1>2, <1>3, <1>6
  <2>3. SST!find_in_block(s.file[o], k) = t[k]
    <3>1. SST!find_in_block(s.file[o], k) = IF HasKey(s.file[o], k) THEN t[k] ELSE Absent
      BY <1>1, <2>2, FindInBlock
    <3>2. ~HasKey(s.file[o], k) => t[k] = Absent
      BY <1>3 DEF KeysOf
    <3> QED BY <3>1, <3>2
  <2>4. s.file[o] # Err
    BY <1>1, <2>2, BlockIsNoError
  <2>5. sst.cache = [blocks |-> sst.cache.blocks, lru |-> sst.cache.lru]
    BY <1>1 DEF IsRecord
  <2>6. CASE o \in DOMAIN sst.cache.blocks
    <3>1. b = [records |-> sst.cache.blocks[o], cache |-> SST!Cache!get(sst.cache, o)]
      BY <2>6 DEF SST!cached_block, SST!Cache!has
    <3>2. sst.cache.blocks[o] = s.file[o]
      BY <1>1, <2>6
    <3>3. SST!Cache!get(sst.cache, o) =
              [blocks |-> sst.cache.blocks, lru |-> SST!Cache!touch(sst.cache.lru, o)]
      BY <2>5 DEF SST!Cache!get
    <3>4. b.records = s.file[o] /\ b.cache.blocks = sst.cache.blocks
          /\ b.cache = [blocks |-> b.cache.blocks, lru |-> b.cache.lru]
      BY <3>1, <3>2, <3>3
    <3> HIDE DEF b
    <3>5. g.entry = t[k] /\ g.cache = b.cache
      BY <2>1, <2>3, <2>4, <3>4
    <3> HIDE DEF g
    <3> QED BY <1>1, <3>4, <3>5
  <2>7. CASE o \notin DOMAIN sst.cache.blocks
    <3> DEFINE rs == SST!read_block_from_disk(sst, o)
    <3>1. b = [records |-> rs, cache |-> IF rs = Err THEN sst.cache
                                         ELSE SST!Cache!put(sst.cache, o, rs)]
      BY <2>7 DEF SST!cached_block, SST!Cache!has
    <3>2. \/ rs = Err /\ sst.file[o] = Damaged
          \/ rs = s.file[o]
      BY <1>1, <2>2 DEF SST!read_block_from_disk
    <3> HIDE DEF rs
    <3>3. CASE rs = Err /\ sst.file[o] = Damaged
      <4>1. b.records = Err /\ b.cache = sst.cache
        BY <3>1, <3>3
      <4> HIDE DEF b
      <4>2. g.entry = Err /\ g.cache = sst.cache
        BY <2>1, <4>1
      <4> HIDE DEF g
      <4> QED BY <1>1, <1>6, <2>5, <2>7, <3>3, <4>2
    <3>4. CASE rs = s.file[o]
      <4> DEFINE d == SST!Cache!put(sst.cache, o, rs)
      <4>1. b.records = s.file[o] /\ b.cache = d
        BY <2>4, <3>1, <3>4
      <4> HIDE DEF b
      <4>2. g.entry = t[k] /\ g.cache = d
        BY <2>1, <2>3, <2>4, <4>1
      <4>3. /\ d = [blocks |-> d.blocks, lru |-> d.lru]
            /\ \A x \in DOMAIN d.blocks :
                      \/ x = o /\ d.blocks[x] = rs
                      \/ x \in DOMAIN sst.cache.blocks /\ d.blocks[x] = sst.cache.blocks[x]
        BY <2>5, CachePut
      <4> HIDE DEF d, g
      <4> QED BY <1>1, <2>2, <3>4, <4>2, <4>3
    <3> QED BY <3>2, <3>3, <3>4
  <2> QED BY <2>6, <2>7
<1> QED BY <1>5, <1>6

LEMMA FlushWritten ==
    ASSUME NEW t \in Table, t # EmptyTable
    PROVE  Written(SST!flush(t), t)
<1> DEFINE s == SST!flush(t)
<1>1. PICK f : s = SstOf(t, f)
  BY FlushLaid
<1>2. s.cache = [blocks |-> << >>, lru |-> << >>]
  BY <1>1 DEF SstOf, SST!Cache!new
<1>3. IsRecord(s)
  <2>1. s = [index |-> s.index, min_key |-> s.min_key, max_key |-> s.max_key,
              bloom |-> s.bloom, file |-> s.file, cache |-> s.cache]
    BY <1>1 DEF SstOf
  <2>2. s.cache = [blocks |-> s.cache.blocks, lru |-> s.cache.lru]
    BY <1>2
  <2> HIDE DEF s
  <2> QED BY <2>1, <2>2 DEF IsRecord
<1>4. DOMAIN s.cache.blocks = {}
  BY <1>2
<1> HIDE DEF s
<1> QED BY <1>3, <1>4 DEF Written, SameFooter, s

\* Opening the file again.
LEMMA OpenWritten ==
    ASSUME NEW sst, NEW t, Written(sst, t)
    PROVE  Written(SST!open(sst), t)
<1> DEFINE c == SST!Cache!new
<1>1. c = [blocks |-> << >>, lru |-> << >>]
  BY DEF SST!Cache!new
<1>2. c = [blocks |-> c.blocks, lru |-> c.lru] /\ DOMAIN c.blocks = {}
  BY <1>1
<1> HIDE DEF c
<1>3. Written([sst EXCEPT !.cache = c], t)
  BY <1>2, WrittenCache
<1> QED BY <1>3 DEF c, SST!open

\* A block on disk goes bad.
LEMMA DamageWritten ==
    ASSUME NEW sst, NEW t, Written(sst, t), NEW o \in DOMAIN sst.file
    PROVE  Written([sst EXCEPT !.file[o] = Damaged], t)
<1> DEFINE file == [sst.file EXCEPT ![o] = Damaged]
           r == [sst EXCEPT !.file[o] = Damaged]
           s == SST!flush(t)
<1>1. /\ t \in Table /\ t # EmptyTable /\ IsRecord(sst) /\ SameFooter(sst, s)
      /\ DOMAIN sst.file = DOMAIN s.file
      /\ \A x \in DOMAIN s.file : sst.file[x] = s.file[x] \/ sst.file[x] = Damaged
      /\ \A x \in DOMAIN sst.cache.blocks :
               x \in DOMAIN s.file /\ sst.cache.blocks[x] = s.file[x]
  BY DEF Written
<1> HIDE DEF s
<1>2. r = [index |-> sst.index, min_key |-> sst.min_key, max_key |-> sst.max_key,
           bloom |-> sst.bloom, file |-> file, cache |-> sst.cache]
  BY <1>1 DEF IsRecord
<1>3. /\ r.index = sst.index /\ r.min_key = sst.min_key /\ r.max_key = sst.max_key
      /\ r.bloom = sst.bloom /\ r.file = file /\ r.cache = sst.cache
  BY <1>2
<1>4. /\ DOMAIN file = DOMAIN s.file
      /\ \A x \in DOMAIN s.file : file[x] = s.file[x] \/ file[x] = Damaged
  BY <1>1
<1> HIDE DEF r, file
<1>5. IsRecord(r)
  BY <1>1, <1>2, <1>3 DEF IsRecord
<1>6. SameFooter(r, s)
  BY <1>1, <1>3 DEF SameFooter
<1>7. Written(r, t)
  BY <1>1, <1>3, <1>4, <1>5, <1>6 DEF Written, s
<1> QED BY <1>7 DEF r

\* read_all_entries gives back the table, or fails on a bad block.
LEMMA ReadAllExact ==
    ASSUME NEW sst, NEW t, Written(sst, t)
    PROVE  \/ SST!read_all_entries(sst) = t
           \/ /\ SST!read_all_entries(sst) = Err
              /\ \E o \in DOMAIN sst.file : sst.file[o] = Damaged
<1> DEFINE s == SST!flush(t)
           blocks == {SST!read_block_from_disk(sst, e.block_offset) : e \in ToSet(sst.index)}
           records == UNION {ToSet(b) : b \in blocks}
           all == [k \in Keys |-> IF \E r \in records : r.key = k
                                 THEN (CHOOSE r \in records : r.key = k).entry
                                 ELSE Absent]
<1>1. /\ t \in Table /\ sst.index = s.index /\ DOMAIN sst.file = DOMAIN s.file
      /\ \A x \in DOMAIN s.file : sst.file[x] = s.file[x] \/ sst.file[x] = Damaged
  BY DEF Written, SameFooter
<1>2. /\ s.index \in Seq(IndexEntries)
      /\ DOMAIN s.file = {s.index[i].block_offset : i \in 1..Len(s.index)}
      /\ \A o \in DOMAIN s.file : s.file[o] \in Seq(Records(t)) /\ Sorted(s.file[o])
      /\ \A k \in KeysOf(t) : SST!reads_block(s, k) /\ HasKey(s.file[SST!block_of(s, k)], k)
      /\ \A k \in Keys : SST!reads_block(s, k) => SST!block_of(s, k) \in DOMAIN s.file
  BY <1>1, FlushServes
<1>3. SST!read_all_entries(sst) = IF Err \in blocks THEN Err ELSE all
  BY SstOperators DEF SST!read_all_entries
<1> HIDE DEF s
<1>4. blocks = {SST!read_block_from_disk(sst, o) : o \in DOMAIN s.file}
  <2>1. ToSet(sst.index) = {s.index[i] : i \in 1..Len(s.index)}
    BY <1>1, <1>2 DEF ToSet
  <2> QED BY <1>2, <2>1
<1> HIDE DEF blocks
<1>5. \A o \in DOMAIN s.file : s.file[o] # Err
  BY <1>1, <1>2, BlockIsNoError
<1>6. CASE Err \in blocks
  <2>1. PICK o \in DOMAIN s.file : SST!read_block_from_disk(sst, o) = Err
    BY <1>4, <1>6
  <2>2. sst.file[o] = Damaged
    BY <1>1, <1>5, <2>1 DEF SST!read_block_from_disk
  <2> HIDE DEF all
  <2> QED BY <1>1, <1>3, <1>6, <2>2
<1>7. CASE Err \notin blocks
  <2>1. blocks = {s.file[o] : o \in DOMAIN s.file}
    <3>1. \A o \in DOMAIN s.file : SST!read_block_from_disk(sst, o) = s.file[o]
      BY <1>1, <1>4, <1>7 DEF SST!read_block_from_disk
    <3> QED BY <1>4, <3>1
  <2>2. ASSUME NEW r \in records
        PROVE  r \in Records(t)
    <3>1. PICK o \in DOMAIN s.file : r \in ToSet(s.file[o])
      BY <2>1, <2>2
    <3>2. s.file[o] \in Seq(Records(t))
      BY <1>2
    <3> QED BY <3>1, <3>2 DEF ToSet
  <2>3. ASSUME NEW k \in KeysOf(t)
        PROVE  \E r \in records : r.key = k
    <3> DEFINE b == s.file[SST!block_of(s, k)]
    <3>1. k \in Keys
      BY DEF KeysOf
    <3>2. HasKey(b, k) /\ b \in blocks /\ b \in Seq(Records(t))
      BY <1>2, <2>1, <3>1
    <3> HIDE DEF b
    <3>3. PICK x \in 1..Len(b) : b[x].key = k
      BY <3>2 DEF HasKey
    <3>4. b[x] \in ToSet(b)
      BY <3>2, <3>3 DEF ToSet
    <3>5. b[x] \in records
      BY <3>2, <3>4
    <3> QED BY <3>3, <3>5
  <2> HIDE DEF records
  <2>4. \A r \in records : r.key \in KeysOf(t) /\ r.entry = t[r.key]
    BY <1>1, <2>2, RecordsAre
  <2>5. ASSUME NEW k \in Keys
        PROVE  t[k] = IF \E r \in records : r.key = k
                                 THEN (CHOOSE r \in records : r.key = k).entry
                                 ELSE Absent
    <3>1. CASE k \in KeysOf(t)
      <4>1. \E r \in records : r.key = k
        BY <2>3, <3>1
      <4> DEFINE r == CHOOSE q \in records : q.key = k
      <4>2. r \in records /\ r.key = k
        BY <4>1
      <4> HIDE DEF r
      <4>3. r.entry = t[k]
        BY <2>4, <4>2
      <4> QED BY <4>1, <4>3 DEF r
    <3>2. CASE k \notin KeysOf(t)
      <4>1. t[k] = Absent /\ ~\E r \in records : r.key = k
        BY <2>4, <3>2 DEF KeysOf
      <4> QED BY <4>1
    <3> QED BY <3>1, <3>2
  <2>6. t = all
    BY <1>1, <2>5 DEF Table
  <2> HIDE DEF all
  <2> QED BY <1>3, <1>7, <2>6
<1> QED BY <1>6, <1>7

-----------------------------------------------------------------------------
(***************************************************************************)
(* The layers of a table: the first that has a key wins.                   *)
(***************************************************************************)
Layers(ts) == Merge(ts, [i \in 1..Len(ts) |-> i])

\* e is what the first of the tables ts that has k has for it.
IsFirst(ts, k, e) ==
    \/ e = Absent /\ \A i \in 1..Len(ts) : ts[i][k] = Absent
    \/ \E i \in 1..Len(ts) :
           e = ts[i][k] /\ e # Absent /\ \A j \in 1..(i - 1) : ts[j][k] = Absent

LEMMA FirstUnique ==
    ASSUME NEW ts, Len(ts) \in Nat, NEW k, NEW d, NEW e, IsFirst(ts, k, d), IsFirst(ts, k, e)
    PROVE  d = e
<1>1. ASSUME NEW i \in 1..Len(ts), NEW j \in 1..Len(ts), ts[i][k] # Absent, ts[j][k] # Absent,
             \A l \in 1..(i - 1) : ts[l][k] = Absent, \A l \in 1..(j - 1) : ts[l][k] = Absent
      PROVE  i = j
  <2>1. ~(i < j) /\ ~(j < i)
    BY <1>1
  <2> QED BY <2>1
<1> QED BY <1>1 DEF IsFirst

LEMMA LayersFirst ==
    ASSUME NEW ts, Len(ts) \in Nat, NEW k \in Keys
    PROVE  IsFirst(ts, k, Layers(ts)[k])
<1> DEFINE ids == [i \in 1..Len(ts) |-> i]
           h == {i \in 1..Len(ts) : ts[i][k] # Absent}
<1>1. Len(ids) = Len(ts)
  OBVIOUS
<1>2. Holding(ts, ids, k) = h
  <2>1. \A i \in 1..Len(ts) : ids[i] = i
    OBVIOUS
  <2> HIDE DEF ids
  <2> QED BY <1>1, <2>1 DEF Holding
<1>3. Layers(ts)[k] = IF h = {} THEN Absent ELSE ts[ids[Min(h)]][k]
  <2>1. Layers(ts) = Merge(ts, ids)
    BY DEF Layers
  <2> HIDE DEF ids, h
  <2> QED BY <1>2, <2>1 DEF Merge
<1>4. CASE h = {}
  BY <1>3, <1>4 DEF IsFirst
<1>5. CASE h # {}
  <2>1. Min(h) \in h /\ \A j \in h : Min(h) <= j
    <3>1. h \in SUBSET Nat
      OBVIOUS
    <3> HIDE DEF h
    <3> QED BY <1>5, <3>1, MinOfNats
  <2> DEFINE m == Min(h)
  <2>2. m \in 1..Len(ts) /\ ts[m][k] # Absent /\ ids[m] = m
    BY <2>1
  <2>3. \A j \in 1..(m - 1) : ts[j][k] = Absent
    <3> TAKE j \in 1..(m - 1)
    <3>1. j \in 1..Len(ts) /\ ~(m <= j)
      BY <2>2
    <3>2. j \notin h
      <4> HIDE DEF h
      <4> QED BY <2>1, <3>1
    <3> QED BY <3>1, <3>2
  <2>4. Layers(ts)[k] = ts[m][k]
    <3> HIDE DEF h, ids
    <3> QED BY <1>3, <1>5, <2>2
  <2> HIDE DEF m
  <2> QED BY <2>2, <2>3, <2>4 DEF IsFirst
<1> QED BY <1>4, <1>5

LEMMA LayersAre ==
    ASSUME NEW ts, Len(ts) \in Nat, NEW k \in Keys, NEW e, IsFirst(ts, k, e)
    PROVE  Layers(ts)[k] = e
BY LayersFirst, FirstUnique

LEMMA LayersType ==
    ASSUME NEW ts \in Seq(Table)
    PROVE  Layers(ts) \in Table
<1>1. Len(ts) \in Nat /\ \A i \in 1..Len(ts) : ts[i] \in Table
  OBVIOUS
<1>2. ASSUME NEW k \in Keys
      PROVE  Layers(ts)[k] \in Entry \cup {Absent}
  <2>1. IsFirst(ts, k, Layers(ts)[k])
    BY <1>1, LayersFirst
  <2> QED BY <1>1, <2>1 DEF IsFirst, Table
<1> QED BY <1>2 DEF Layers, Merge, Table

\* A new layer on top.
LEMMA LayersWithFirst ==
    ASSUME NEW d \in Table, NEW ts \in Seq(Table)
    PROVE  /\ <<d>> \o ts \in Seq(Table)
           /\ Layers(<<d>> \o ts) = Overlay(Layers(ts), d)
<1> DEFINE us == <<d>> \o ts
<1>1. /\ us \in Seq(Table) /\ Len(us) = Len(ts) + 1 /\ us[1] = d
      /\ Len(ts) \in Nat
      /\ \A i \in 1..Len(ts) : us[i + 1] = ts[i]
  OBVIOUS
<1> HIDE DEF us
<1>2. ASSUME NEW k \in Keys
      PROVE  Layers(us)[k] = Overlay(Layers(ts), d)[k]
  <2>1. Overlay(Layers(ts), d)[k] = IF d[k] # Absent THEN d[k] ELSE Layers(ts)[k]
    BY DEF Overlay
  <2>2. CASE d[k] # Absent
    <3>1. 1 \in 1..Len(us) /\ 1..(1 - 1) = {}
      BY <1>1
    <3>2. IsFirst(us, k, d[k])
      BY <1>1, <2>2, <3>1 DEF IsFirst
    <3> QED BY <1>1, <2>1, <2>2, <3>2, LayersAre
  <2>3. CASE d[k] = Absent
    <3> DEFINE e == Layers(ts)[k]
    <3>1. IsFirst(ts, k, e)
      BY <1>1, LayersFirst
    <3> HIDE DEF e
    <3>2. IsFirst(us, k, e)
      <4>1. CASE e = Absent /\ \A i \in 1..Len(ts) : ts[i][k] = Absent
        <5>1. \A i \in 1..Len(us) : i = 1 \/ (i - 1 \in 1..Len(ts) /\ us[i] = ts[i - 1])
          BY <1>1
        <5> QED BY <1>1, <2>3, <4>1, <5>1 DEF IsFirst
      <4>2. CASE \E i \in 1..Len(ts) :
           e = ts[i][k] /\ e # Absent /\ \A j \in 1..(i - 1) : ts[j][k] = Absent
        <5>1. PICK i \in 1..Len(ts) :
           e = ts[i][k] /\ e # Absent /\ \A j \in 1..(i - 1) : ts[j][k] = Absent
          BY <4>2
        <5>2. i + 1 \in 1..Len(us) /\ us[i + 1] = ts[i]
          BY <1>1
        <5>3. \A j \in 1..((i + 1) - 1) : us[j][k] = Absent
          <6> TAKE j \in 1..((i + 1) - 1)
          <6>1. j = 1 \/ (j - 1 \in 1..(i - 1) /\ j - 1 \in 1..Len(ts) /\ us[j] = ts[j - 1])
            BY <1>1
          <6> QED BY <1>1, <2>3, <5>1, <6>1
        <5> QED BY <5>1, <5>2, <5>3 DEF IsFirst
      <4> QED BY <3>1, <4>1, <4>2 DEF IsFirst
    <3> QED BY <1>1, <2>1, <2>3, <3>2, LayersAre DEF e
  <2> QED BY <2>2, <2>3
<1>3. Layers(us) = Overlay(Layers(ts), d)
  <2>1. Layers(us) \in Table /\ Overlay(Layers(ts), d) \in Table
    BY <1>1, LayersType, OverlayType
  <2> QED BY <1>2, <2>1 DEF Table
<1> QED BY <1>1, <1>3 DEF us

\* What a reader of live entries sees.
LEMMA LiveOverlay ==
    ASSUME NEW a \in Table, NEW b \in Table, NEW c \in Table
    PROVE  /\ Live(Overlay(Live(a), b)) = Live(Overlay(a, b))
           /\ Live(Overlay(Live(Overlay(a, b)), c)) = Live(Overlay(a, Overlay(b, c)))
           /\ Overlay(Overlay(a, b), EmptyTable) = Overlay(a, b)
           /\ Overlay(EmptyTable, b) = b
<1>1. \A k \in Keys : Live(Overlay(Live(a), b))[k] = Live(Overlay(a, b))[k]
  BY DEF Live, Overlay
<1>2. \A k \in Keys : Live(Overlay(Live(Overlay(a, b)), c))[k]
                        = Live(Overlay(a, Overlay(b, c)))[k]
  BY DEF Live, Overlay
<1>3. \A k \in Keys : Overlay(Overlay(a, b), EmptyTable)[k] = Overlay(a, b)[k]
  BY DEF Overlay, EmptyTable
<1>4. \A k \in Keys : Overlay(EmptyTable, b)[k] = b[k]
  BY DEF Overlay, EmptyTable
<1>5. /\ Live(Overlay(Live(a), b)) = Live(Overlay(a, b))
      /\ Live(Overlay(Live(Overlay(a, b)), c)) = Live(Overlay(a, Overlay(b, c)))
  BY <1>1, <1>2 DEF Live
<1>6. Overlay(Overlay(a, b), EmptyTable) = Overlay(a, b)
  BY <1>3 DEF Overlay
<1>7. Overlay(EmptyTable, b) = b
  BY <1>4, OverlayType, EmptyTableType DEF Table
<1> QED BY <1>5, <1>6, <1>7

-----------------------------------------------------------------------------
(***************************************************************************)
(* Flushing and compacting change no read.                                 *)
(***************************************************************************)

\* The open SSTables ssts were written for the tables ts.
Opened(ssts, ts) ==
    /\ ts \in Seq(Table) /\ ssts \in Seq(ToSet(ssts)) /\ Len(ssts) = Len(ts)
    /\ \A i \in 1..Len(ts) : Written(ssts[i], ts[i])

\* A reader of the store s is to see K.
Serves(s, K) ==
    /\ s = [data |-> s.data, sstables |-> s.sstables]
    /\ s.data \in Table
    /\ \E ts : Opened(s.sstables, ts) /\ K = Live(Overlay(Layers(ts), s.data))

LEMMA NothingOpened ==
    /\ Opened(<< >>, << >>) /\ Layers(<< >>) = EmptyTable
<1>1. << >> \in Seq(Table) /\ << >> \in Seq(ToSet(<< >>)) /\ Len(<< >>) = 0
  OBVIOUS
<1>2. Opened(<< >>, << >>)
  BY <1>1 DEF Opened
<1>3. ASSUME NEW k \in Keys
      PROVE  Layers(<< >>)[k] = EmptyTable[k]
  <2>1. IsFirst(<< >>, k, Absent)
    BY <1>1 DEF IsFirst
  <2> QED BY <1>1, <2>1, LayersAre DEF EmptyTable
<1>4. Layers(<< >>) = EmptyTable
  <2> DEFINE l == Layers(<< >>)
  <2>1. l \in Table /\ EmptyTable \in Table
    BY <1>1, LayersType, EmptyTableType
  <2>2. \A k \in Keys : l[k] = EmptyTable[k]
    BY <1>3
  <2> HIDE DEF l
  <2>3. l = EmptyTable
    BY <2>1, <2>2 DEF Table
  <2> QED BY <2>3 DEF l
<1> QED BY <1>2, <1>4

LEMMA OpenedWithFirst ==
    ASSUME NEW ssts, NEW ts, Opened(ssts, ts), NEW sst, NEW t, Written(sst, t)
    PROVE  Opened(<<sst>> \o ssts, <<t>> \o ts)
<1> DEFINE a == <<sst>> \o ssts
           b == <<t>> \o ts
           U == ToSet(ssts) \cup {sst}
<1>1. /\ ts \in Seq(Table) /\ ssts \in Seq(ToSet(ssts)) /\ Len(ssts) = Len(ts)
      /\ \A i \in 1..Len(ts) : Written(ssts[i], ts[i])
      /\ t \in Table
  BY DEF Opened, Written
<1>2. ssts \in Seq(U)
  BY <1>1
<1>3. sst \in U
  OBVIOUS
<1> HIDE DEF U
<1>4. /\ a \in Seq(U) /\ Len(a) = Len(ssts) + 1 /\ a[1] = sst /\ Len(ssts) \in Nat
      /\ \A i \in 1..Len(ssts) : a[i + 1] = ssts[i]
  BY <1>2, <1>3
<1>5. /\ b \in Seq(Table) /\ Len(b) = Len(ts) + 1 /\ b[1] = t
      /\ \A i \in 1..Len(ts) : b[i + 1] = ts[i]
  BY <1>1
<1> HIDE DEF a, b
<1>6. a \in Seq(ToSet(a))
  <2>1. Len(a) \in Nat /\ DOMAIN a = 1..Len(a) /\ a = [i \in 1..Len(a) |-> a[i]]
    BY <1>4
  <2>2. \A i \in 1..Len(a) : a[i] \in ToSet(a)
    BY <2>1 DEF ToSet
  <2> QED BY <2>1, <2>2
<1>7. ASSUME NEW i \in 1..Len(b)
      PROVE  Written(a[i], b[i])
  <2>1. CASE i = 1
    BY <1>4, <1>5, <2>1
  <2>2. CASE i # 1
    <3>1. i - 1 \in 1..Len(ts) /\ (i - 1) + 1 = i
      BY <1>1, <1>4, <1>5, <2>2
    <3>2. a[i] = ssts[i - 1] /\ b[i] = ts[i - 1]
      BY <1>1, <1>4, <1>5, <3>1
    <3> QED BY <1>1, <3>1, <3>2
  <2> QED BY <2>1, <2>2
<1> QED BY <1>1, <1>4, <1>5, <1>6, <1>7 DEF Opened, a, b

\* Reading every table of the list back.
LEMMA ReadBack ==
    ASSUME NEW ssts, NEW ts, Opened(ssts, ts)
    PROVE  LET tables == [i \in 1..Len(ssts) |-> SST!read_all_entries(ssts[i])]
           IN  \/ tables = ts /\ Err \notin ToSet(tables)
               \/ /\ Err \in ToSet(tables)
                  /\ \E i \in 1..Len(ssts) :
                         \E o \in DOMAIN ssts[i].file : ssts[i].file[o] = Damaged
<1> DEFINE tables == [i \in 1..Len(ssts) |-> SST!read_all_entries(ssts[i])]
<1>1. /\ ts \in Seq(Table) /\ Len(ssts) = Len(ts) /\ Len(ts) \in Nat
      /\ \A i \in 1..Len(ts) : Written(ssts[i], ts[i]) /\ ts[i] \in Table
  BY DEF Opened
<1>2. \A i \in 1..Len(ts) :
          \/ tables[i] = ts[i]
          \/ tables[i] = Err /\ \E o \in DOMAIN ssts[i].file : ssts[i].file[o] = Damaged
  BY <1>1, ReadAllExact
<1>3. DOMAIN tables = 1..Len(ts) /\ ToSet(tables) = {tables[i] : i \in 1..Len(ts)}
  BY <1>1 DEF ToSet
<1>4. CASE \A i \in 1..Len(ts) : tables[i] = ts[i]
  <2>1. tables = ts
    <3>1. tables = [i \in 1..Len(ts) |-> tables[i]]
      BY <1>1
    <3>2. ts = [i \in 1..Len(ts) |-> ts[i]]
      BY <1>1
    <3> HIDE DEF tables
    <3> QED BY <1>4, <3>1, <3>2
  <2> HIDE DEF tables
  <2>2. Err \notin ToSet(tables)
    BY <1>1, <1>3, <1>4, OutcomesAssumption
  <2> QED BY <2>1, <2>2 DEF tables
<1>5. CASE \E i \in 1..Len(ts) : tables[i] # ts[i]
  <2> HIDE DEF tables
  <2> QED BY <1>1, <1>2, <1>3, <1>5 DEF tables
<1> QED BY <1>4, <1>5

LEMMA CompactServes ==
    ASSUME NEW s, NEW K, Serves(s, K)
    PROVE  Serves(compact(s), K)
<1> DEFINE tables == [i \in 1..Len(s.sstables) |-> SST!read_all_entries(s.sstables[i])]
           merged == Live(Layers(tables))
           ssts == IF merged = EmptyTable THEN << >> ELSE <<SST!flush(merged)>>
<1>1. /\ s = [data |-> s.data, sstables |-> s.sstables] /\ s.data \in Table
      /\ \E ts : Opened(s.sstables, ts) /\ K = Live(Overlay(Layers(ts), s.data))
  BY DEF Serves
<1>2. PICK ts : Opened(s.sstables, ts) /\ K = Live(Overlay(Layers(ts), s.data))
  BY <1>1
<1>3. CASE Len(s.sstables) < 2 \/ Err \in ToSet(tables)
  <2>1. compact(s) = s
    BY <1>3 DEF compact
  <2> QED BY <2>1
<1>4. CASE ~(Len(s.sstables) < 2 \/ Err \in ToSet(tables))
  <2>1. tables = ts
    BY <1>2, <1>4, ReadBack
  <2>2. compact(s) = [s EXCEPT !.sstables = ssts]
    BY <1>4 DEF compact, Layers
  <2> HIDE DEF ssts, tables
  <2>3. compact(s) = [data |-> s.data, sstables |-> ssts]
    BY <1>1, <2>2
  <2>4. ts \in Seq(Table) /\ Layers(ts) \in Table /\ merged \in Table
    BY <1>2, <2>1, LayersType, LiveType DEF Opened
  <2>5. K = Live(Overlay(merged, s.data))
    BY <1>1, <1>2, <2>1, <2>4, LiveOverlay
  <2> HIDE DEF merged
  <2>6. \E us : Opened(ssts, us) /\ Layers(us) = merged
    <3>1. CASE merged = EmptyTable
      BY <3>1, NothingOpened DEF ssts
    <3>2. CASE merged # EmptyTable
      <4>1. Written(SST!flush(merged), merged)
        BY <2>4, <3>2, FlushWritten
      <4>2. Opened(<<SST!flush(merged)>> \o << >>, <<merged>> \o << >>)
        BY <4>1, NothingOpened, OpenedWithFirst
      <4>3. <<SST!flush(merged)>> \o << >> = <<SST!flush(merged)>>
        OBVIOUS
      <4>4. Layers(<<merged>> \o << >>) = merged
        <5>1. << >> \in Seq(Table)
          OBVIOUS
        <5>2. Layers(<<merged>> \o << >>) = Overlay(Layers(<< >>), merged)
          BY <2>4, <5>1, LayersWithFirst
        <5> QED BY <2>4, <5>2, NothingOpened, LiveOverlay
      <4> QED BY <3>2, <4>2, <4>3, <4>4 DEF ssts
    <3> QED BY <3>1, <3>2
  <2> QED BY <1>1, <2>3, <2>5, <2>6 DEF Serves
<1> QED BY <1>3, <1>4

LEMMA FlushServesSame ==
    ASSUME NEW s, NEW K, Serves(s, K)
    PROVE  Serves(flush(s), K)
<1>1. /\ s = [data |-> s.data, sstables |-> s.sstables] /\ s.data \in Table
      /\ \E ts : Opened(s.sstables, ts) /\ K = Live(Overlay(Layers(ts), s.data))
  BY DEF Serves
<1>2. CASE s.data = EmptyTable
  BY <1>2 DEF flush
<1>3. CASE s.data # EmptyTable
  <2>1. PICK ts : Opened(s.sstables, ts) /\ K = Live(Overlay(Layers(ts), s.data))
    BY <1>1
  <2> DEFINE us == <<s.data>> \o ts
             r == [data |-> EmptyTable, sstables |-> <<SST!flush(s.data)>> \o s.sstables]
  <2>2. ts \in Seq(Table) /\ Layers(ts) \in Table
    BY <2>1, LayersType DEF Opened
  <2>3. Layers(us) = Overlay(Layers(ts), s.data) /\ Layers(us) \in Table
    BY <1>1, <2>2, LayersWithFirst, OverlayType
  <2>4. Opened(<<SST!flush(s.data)>> \o s.sstables, us)
    BY <1>1, <1>3, <2>1, FlushWritten, OpenedWithFirst
  <2>5. K = Live(Overlay(Layers(us), EmptyTable))
    BY <1>1, <2>1, <2>2, <2>3, LiveOverlay
  <2> HIDE DEF us
  <2>6. Serves(r, K)
    <3>1. /\ r.data = EmptyTable /\ r.sstables = <<SST!flush(s.data)>> \o s.sstables
          /\ r = [data |-> r.data, sstables |-> r.sstables]
      OBVIOUS
    <3> HIDE DEF r
    <3> QED BY <2>4, <2>5, <3>1, EmptyTableType DEF Serves
  <2>7. flush(s) = maybe_compact(r)
    BY <1>3 DEF flush
  <2> HIDE DEF r
  <2> QED BY <2>6, <2>7, CompactServes DEF maybe_compact
<1> QED BY <1>2, <1>3

LEMMA WriteServes ==
    ASSUME NEW s, NEW K, Serves(s, K), NEW b \in Table
    PROVE  Serves(maybe_flush([s EXCEPT !.data = Overlay(@, b)]), Live(Overlay(K, b)))
<1> DEFINE r == [s EXCEPT !.data = Overlay(@, b)]
<1>1. /\ s = [data |-> s.data, sstables |-> s.sstables] /\ s.data \in Table
      /\ \E ts : Opened(s.sstables, ts) /\ K = Live(Overlay(Layers(ts), s.data))
  BY DEF Serves
<1>2. PICK ts : Opened(s.sstables, ts) /\ K = Live(Overlay(Layers(ts), s.data))
  BY <1>1
<1>3. r = [data |-> Overlay(s.data, b), sstables |-> s.sstables]
  BY <1>1
<1>4. Layers(ts) \in Table
  BY <1>2, LayersType DEF Opened
<1>5. Live(Overlay(K, b)) = Live(Overlay(Layers(ts), Overlay(s.data, b)))
  BY <1>1, <1>2, <1>4, LiveOverlay
<1>6. r.data = Overlay(s.data, b) /\ r.sstables = s.sstables
  BY <1>3
<1> HIDE DEF r
<1>7. Serves(r, Live(Overlay(K, b)))
  BY <1>1, <1>2, <1>3, <1>5, <1>6, OverlayType DEF Serves
<1>8. Serves(maybe_flush(r), Live(Overlay(K, b)))
  BY <1>7, FlushServesSame DEF maybe_flush
<1> QED BY <1>8 DEF r

-----------------------------------------------------------------------------
(***************************************************************************)
(* Store::get_value.                                                       *)
(***************************************************************************)

\* A function on 1..n is a list of its values.
LEMMA ListOf ==
    ASSUME NEW n \in Nat, NEW f, f = [i \in 1..n |-> f[i]]
    PROVE  f \in Seq(ToSet(f)) /\ Len(f) = n
<1>1. DOMAIN f = 1..n
  OBVIOUS
<1>2. \A i \in 1..n : f[i] \in ToSet(f)
  BY <1>1 DEF ToSet
<1>3. f \in [1..n -> ToSet(f)]
  BY <1>2
<1> QED BY <1>3

\* What get_value finds: the memtable's entry, or the first answer of a table.
LEMMA FoundIs ==
    ASSUME NEW s, Len(s.sstables) \in Nat, NEW k
    PROVE  LET n == Len(s.sstables)
               e(i) == SST!get(s.sstables[i], k).entry
           IN  \/ s.data[k] # Absent /\ found(s, k) = s.data[k]
               \/ /\ s.data[k] = Absent /\ found(s, k) = Absent
                  /\ \A i \in 1..n : e(i) = Absent
               \/ /\ s.data[k] = Absent
                  /\ \E m \in 1..n : /\ found(s, k) = e(m) /\ e(m) # Absent
                                     /\ \A j \in 1..(m - 1) : e(j) = Absent
<1> DEFINE n == Len(s.sstables)
           e(i) == SST!get(s.sstables[i], k).entry
           ps == probes(s, k)
           I == {i \in 1..n : e(i) # Absent}
           hit == SelectInSeq(ps, LAMBDA p : p.entry # Absent)
<1>1. ps = [i \in 1..n |-> SST!get(s.sstables[i], k)]
  BY DEF probes
<1>2. Len(ps) = n /\ \A i \in 1..n : ps[i].entry = e(i)
  BY <1>1
<1> HIDE DEF ps, e
<1>3. hit = IF I # {} THEN Min(I) ELSE 0
  <2>1. {i \in 1..Len(ps) : ps[i].entry # Absent} = I
    BY <1>2
  <2> QED BY <2>1 DEF SelectInSeq
<1>4. CASE s.data[k] # Absent
  BY <1>4 DEF found, e
<1>5. CASE s.data[k] = Absent
  <2>1. asked(s, k) = IF hit = 0 THEN n ELSE hit
    BY <1>5 DEF asked, ps
  <2>2. found(s, k) = IF asked(s, k) = 0 THEN Absent ELSE ps[asked(s, k)].entry
    BY <1>5 DEF found, ps
  <2> HIDE DEF hit
  <2>3. CASE I = {}
    <3>1. asked(s, k) = n /\ \A i \in 1..n : e(i) = Absent
      BY <1>3, <2>1, <2>3
    <3>2. found(s, k) = Absent
      BY <1>2, <2>2, <3>1
    <3> QED BY <1>5, <3>1, <3>2 DEF e
  <2>4. CASE I # {}
    <3>1. hit \in I /\ \A j \in I : hit <= j
      <4>1. I \in SUBSET Nat
        OBVIOUS
      <4> HIDE DEF I
      <4> QED BY <1>3, <2>4, <4>1, MinOfNats
    <3>2. hit \in 1..n /\ e(hit) # Absent
      BY <3>1
    <3>3. found(s, k) = e(hit)
      BY <1>2, <2>1, <2>2, <3>2
    <3>4. \A j \in 1..(hit - 1) : e(j) = Absent
      <4> TAKE j \in 1..(hit - 1)
      <4>1. j \in 1..n /\ ~(hit <= j)
        BY <3>2
      <4>2. j \notin I
        <5> HIDE DEF I
        <5> QED BY <3>1, <4>1
      <4> QED BY <4>1, <4>2
    <3> QED BY <1>5, <3>2, <3>3, <3>4 DEF e
  <2> QED BY <2>3, <2>4
<1> QED BY <1>4, <1>5

LEMMA GetValueExact ==
    ASSUME Serves(store, kv), NEW k \in Keys
    PROVE  \/ get_value(store, k) = kv[k]
           \/ get_value(store, k) = Err /\ Unreadable(k)
<1>1. store.data = data /\ store.sstables = sstables
  BY DEF store
<1>2. PICK ts : Opened(sstables, ts) /\ kv = Live(Overlay(Layers(ts), data))
  BY <1>1 DEF Serves
<1> DEFINE n == Len(sstables)
           e(i) == SST!get(sstables[i], k).entry
<1>3. /\ n \in Nat /\ Len(ts) = n
      /\ \A i \in 1..n : Written(sstables[i], ts[i])
  BY <1>2 DEF Opened
<1>4. \A i \in 1..n : \/ e(i) = ts[i][k]
                      \/ e(i) = Err /\ Unreadable(k)
  <2> TAKE i \in 1..n
  <2>1. \/ e(i) = ts[i][k]
        \/ /\ e(i) = Err
           /\ SST!reads_block(sstables[i], k)
           /\ sstables[i].file[SST!block_of(sstables[i], k)] = Damaged
           /\ SST!block_of(sstables[i], k) \notin DOMAIN sstables[i].cache.blocks
    BY <1>3, GetExact
  <2> QED BY <2>1 DEF Unreadable
<1>5. Err # Absent /\ Err # Tombstone
  BY OutcomesAssumption DEF Entry
<1>6. kv[k] = IF data[k] # Absent
                THEN (IF data[k] = Tombstone THEN Absent ELSE data[k])
                ELSE (IF Layers(ts)[k] = Tombstone THEN Absent ELSE Layers(ts)[k])
  BY <1>2 DEF Live, Overlay
<1>7. get_value(store, k) = IF found(store, k) = Tombstone THEN Absent ELSE found(store, k)
  BY DEF get_value
<1>8. \/ data[k] # Absent /\ found(store, k) = data[k]
      \/ /\ data[k] = Absent /\ found(store, k) = Absent
         /\ \A i \in 1..n : e(i) = Absent
      \/ /\ data[k] = Absent
         /\ \E m \in 1..n : /\ found(store, k) = e(m) /\ e(m) # Absent
                            /\ \A j \in 1..(m - 1) : e(j) = Absent
  <2>1. Len(store.sstables) \in Nat
    BY <1>1, <1>3
  <2> QED BY <1>1, <2>1, FoundIs
<1> HIDE DEF e
<1>9. CASE data[k] # Absent /\ found(store, k) = data[k]
  BY <1>6, <1>7, <1>9
<1>10. CASE data[k] = Absent /\ found(store, k) = Absent /\ \A i \in 1..n : e(i) = Absent
  <2>1. \A i \in 1..n : ts[i][k] = Absent
    BY <1>4, <1>5, <1>10
  <2>2. Layers(ts)[k] = Absent
    BY <1>3, <2>1, LayersAre DEF IsFirst
  <2> QED BY <1>6, <1>7, <1>10, <2>2, MarkersAssumption
<1>11. ASSUME data[k] = Absent, NEW m \in 1..n, found(store, k) = e(m), e(m) # Absent,
              \A j \in 1..(m - 1) : e(j) = Absent
       PROVE  \/ get_value(store, k) = kv[k]
              \/ get_value(store, k) = Err /\ Unreadable(k)
  <2>1. CASE e(m) = Err /\ Unreadable(k)
    BY <1>5, <1>7, <1>11, <2>1
  <2>2. CASE e(m) = ts[m][k]
    <3>1. \A j \in 1..(m - 1) : ts[j][k] = Absent
      BY <1>3, <1>4, <1>5, <1>11
    <3>2. IsFirst(ts, k, e(m))
      BY <1>3, <1>11, <2>2, <3>1 DEF IsFirst
    <3>3. Layers(ts)[k] = e(m)
      BY <1>3, <3>2, LayersAre
    <3> QED BY <1>6, <1>7, <1>11, <3>3
  <2> QED BY <1>4, <2>1, <2>2
<1> QED BY <1>8, <1>9, <1>10, <1>11

\* Lookups leave the tables as they are, but for their caches.
LEMMA AfterGet ==
    ASSUME NEW s, NEW ts, Opened(s.sstables, ts), NEW k \in Keys
    PROVE  Opened(after_get(s, k), ts)
<1> DEFINE n == Len(s.sstables)
           a == after_get(s, k)
           x(i) == [s.sstables[i] EXCEPT !.cache = probes(s, k)[i].cache]
<1>1. /\ n \in Nat /\ Len(ts) = n /\ ts \in Seq(Table)
      /\ \A i \in 1..n : Written(s.sstables[i], ts[i])
  BY DEF Opened
<1>2. \A i \in 1..n : Written(x(i), ts[i])
  <2> TAKE i \in 1..n
  <2>1. probes(s, k)[i] = SST!get(s.sstables[i], k)
    BY DEF probes
  <2> QED BY <1>1, <2>1, GetExact
<1> HIDE DEF x
<1>3. a = [i \in 1..n |-> IF i <= asked(s, k) THEN x(i) ELSE s.sstables[i]]
  BY DEF after_get, x
<1> HIDE DEF a
<1>4. \A i \in 1..n : Written(a[i], ts[i])
  BY <1>1, <1>2, <1>3
<1>5. a \in Seq(ToSet(a)) /\ Len(a) = n
  <2>1. a = [i \in 1..n |-> a[i]]
    BY <1>3
  <2> QED BY <1>1, <2>1, ListOf
<1> QED BY <1>1, <1>4, <1>5 DEF Opened, a

-----------------------------------------------------------------------------
(***************************************************************************)
(* The inductive invariant: the SSTables were written for some tables, and *)
(* these, below the memtable, are what has been written.                   *)
(***************************************************************************)
ReadInv == Serves(store, kv) /\ pending \in Table

LEMMA StoreIs ==
    ASSUME NEW s, NEW K, Serves(s, K), data' = s.data, sstables' = s.sstables, kv' = K
    PROVE  Serves(store', kv')
<1>1. s = [data |-> s.data, sstables |-> s.sstables]
  BY DEF Serves
<1>2. store' = s
  BY <1>1 DEF store
<1> QED BY <1>2

LEMMA InitReadInv == Init => ReadInv
<1> SUFFICES ASSUME Init PROVE ReadInv
  OBVIOUS
<1>1. /\ data = EmptyTable /\ sstables = << >> /\ pending = EmptyTable /\ kv = EmptyTable
  BY DEF Init
<1>2. store.data = EmptyTable /\ store.sstables = << >>
      /\ store = [data |-> store.data, sstables |-> store.sstables]
  BY <1>1 DEF store
<1>3. EmptyTable = Live(Overlay(Layers(<< >>), EmptyTable))
  <2>1. \A k \in Keys : EmptyTable[k] = Live(Overlay(EmptyTable, EmptyTable))[k]
    BY MarkersAssumption DEF EmptyTable, Live, Overlay
  <2>2. EmptyTable = Live(Overlay(EmptyTable, EmptyTable))
    BY <2>1 DEF EmptyTable, Live
  <2> QED BY <2>2, NothingOpened
<1> QED BY <1>1, <1>2, <1>3, NothingOpened, EmptyTableType DEF ReadInv, Serves

LEMMA OneType ==
    ASSUME NEW k \in Keys, NEW e \in Entry
    PROVE  One(k, e) \in Table
BY DEF One, EmptyTable, Table

LEMMA NextReadInv == ReadInv /\ [Next]_vars => ReadInv'
<1> SUFFICES ASSUME ReadInv, [Next]_vars PROVE ReadInv'
  OBVIOUS
<1>1. /\ Serves(store, kv) /\ pending \in Table
      /\ store.data = data /\ store.sstables = sstables
  BY DEF ReadInv, store
<1>2. SUFFICES Serves(store', kv') /\ pending' \in Table
  BY DEF ReadInv
<1>3. PICK ts : Opened(sstables, ts) /\ kv = Live(Overlay(Layers(ts), data)) /\ data \in Table
  BY <1>1 DEF Serves
<1>4. /\ Len(ts) = Len(sstables) /\ Len(ts) \in Nat /\ ts \in Seq(Table)
      /\ \A i \in 1..Len(ts) : Written(sstables[i], ts[i])
      /\ sstables = [i \in 1..Len(ts) |-> sstables[i]]
  BY <1>3 DEF Opened
<1>5. ASSUME NEW b \in Table, Write(b)
      PROVE  Serves(store', kv')
  <2>1. Serves(maybe_flush([store EXCEPT !.data = Overlay(@, b)]), Live(Overlay(kv, b)))
    BY <1>1, WriteServes
  <2> QED BY <1>5, <2>1, StoreIs DEF Write, Become
<1>6. ASSUME data' = data, kv' = kv, NEW a, Opened(a, ts), sstables' = a
      PROVE  Serves(store', kv')
  <2>1. store'.data = data /\ store'.sstables = a
        /\ store' = [data |-> store'.data, sstables |-> store'.sstables]
    BY <1>6 DEF store
  <2> QED BY <1>3, <1>6, <2>1 DEF Serves
<1>7. CASE write
  <2>1. PICK k \in Keys, e \in Entry : Write(One(k, e))
    BY <1>7 DEF write
  <2> QED BY <1>1, <1>5, <1>7, <2>1, OneType DEF write
<1>8. CASE txn_write
  <2>1. pending' \in Table
    BY <1>1, <1>8 DEF txn_write, Table
  <2> QED BY <1>3, <1>6, <1>8, <2>1 DEF txn_write
<1>9. CASE txn_commit
  BY <1>1, <1>5, <1>9, EmptyTableType DEF txn_commit
<1>10. CASE rollback
  BY <1>3, <1>6, <1>10, EmptyTableType DEF rollback
<1>11. CASE call_flush
  <2>1. Serves(flush(store), kv)
    BY <1>1, FlushServesSame
  <2> QED BY <1>1, <1>11, <2>1, StoreIs DEF call_flush, Become
<1>12. CASE call_compact
  <2>1. Serves(compact(store), kv)
    BY <1>1, CompactServes
  <2> QED BY <1>1, <1>12, <2>1, StoreIs DEF call_compact, Become
<1>13. CASE get
  <2>1. PICK k \in Keys : sstables' = after_get(store, k)
    BY <1>13 DEF get
  <2>2. Opened(after_get(store, k), ts)
    BY <1>1, <1>3, AfterGet
  <2>3. data' = data /\ kv' = kv /\ pending' = pending
    BY <1>13 DEF get
  <2> QED BY <1>1, <1>6, <2>1, <2>2, <2>3
<1>14. CASE reopen
  <2> DEFINE a == [i \in 1..Len(sstables) |-> SST!open(sstables[i])]
  <2>1. \A i \in 1..Len(ts) : Written(a[i], ts[i])
    BY <1>4, OpenWritten
  <2>2. a = [i \in 1..Len(ts) |-> a[i]]
    BY <1>4
  <2> HIDE DEF a
  <2>3. Opened(a, ts)
    BY <1>4, <2>1, <2>2, ListOf DEF Opened
  <2> QED BY <1>6, <1>14, <2>3, EmptyTableType DEF reopen, a
<1>15. CASE damage
  <2>1. PICK i \in 1..Len(sstables) : \E o \in DOMAIN sstables[i].file :
               sstables' = [sstables EXCEPT ![i].file[o] = Damaged]
    BY <1>15 DEF damage
  <2>2. PICK o \in DOMAIN sstables[i].file :
               sstables' = [sstables EXCEPT ![i].file[o] = Damaged]
    BY <2>1
  <2> DEFINE x == [sstables[i] EXCEPT !.file[o] = Damaged]
             a == [sstables EXCEPT ![i] = x]
  <2>3. sstables' = a
    BY <2>2
  <2>4. Written(x, ts[i])
    BY <1>4, DamageWritten
  <2> HIDE DEF x
  <2>5. \A j \in 1..Len(ts) : Written(a[j], ts[j])
    BY <1>4, <2>4
  <2>6. a = [j \in 1..Len(ts) |-> a[j]]
    BY <1>4
  <2> HIDE DEF a
  <2>7. Opened(a, ts)
    BY <1>4, <2>5, <2>6, ListOf DEF Opened
  <2> QED BY <1>1, <1>6, <1>15, <2>3, <2>7 DEF damage
<1>16. CASE UNCHANGED vars
  BY <1>1, <1>3, <1>6, <1>16 DEF vars
<1> QED BY <1>7, <1>8, <1>9, <1>10, <1>11, <1>12, <1>13, <1>14, <1>15, <1>16 DEF Next

(***************************************************************************)
(* get_value returns what was last written, or fails because of a damaged  *)
(* block: for every set of keys, every block size, hash function and       *)
(* cache capacity, after any number of writes, flushes, compactions,       *)
(* lookups and reopenings (Store::get_value, SsTable::get).                *)
(***************************************************************************)
THEOREM ReadsExact == Spec => []ReadsAreExact
<1>1. ReadInv => ReadsAreExact
  BY GetValueExact DEF ReadInv, ReadsAreExact
<1> QED BY <1>1, InitReadInv, NextReadInv, PTL DEF Spec

LEMMA CommitStep ==
    ASSUME ReadInv, txn_commit, NEW k \in Keys
    PROVE  txn_get_value(k) \in {kv'[k], Err}
<1>1. kv' = Live(Overlay(kv, pending)) /\ pending \in Table
  BY DEF txn_commit, Write, ReadInv
<1>2. kv'[k] = IF pending[k] # Absent
                 THEN (IF pending[k] = Tombstone THEN Absent ELSE pending[k])
                 ELSE (IF kv[k] = Tombstone THEN Absent ELSE kv[k])
  BY <1>1 DEF Live, Overlay
<1>3. kv[k] # Tombstone
  <2>1. PICK ts : kv = Live(Overlay(Layers(ts), store.data))
    BY DEF ReadInv, Serves
  <2> DEFINE o == Overlay(Layers(ts), store.data)
  <2> HIDE DEF o
  <2>2. kv[k] = IF o[k] = Tombstone THEN Absent ELSE o[k]
    BY <2>1 DEF Live, o
  <2> QED BY <2>2, MarkersAssumption
<1>4. get_value(store, k) \in {kv[k], Err}
  BY GetValueExact DEF ReadInv
<1>5. CASE pending[k] = Absent
  <2>1. txn_get_value(k) = get_value(store, k)
    BY <1>5, MarkersAssumption DEF txn_get_value
  <2> QED BY <1>2, <1>3, <1>4, <1>5, <2>1
<1>6. CASE pending[k] = Tombstone
  <2>1. pending[k] # Absent
    BY <1>6, MarkersAssumption
  <2>2. txn_get_value(k) = Absent
    BY <1>6, <2>1 DEF txn_get_value
  <2> QED BY <1>2, <1>6, <2>1, <2>2
<1>7. CASE pending[k] # Absent /\ pending[k] # Tombstone
  BY <1>2, <1>7 DEF txn_get_value
<1> QED BY <1>5, <1>6, <1>7

(***************************************************************************)
(* What a transaction has read, its own writes included, is what the table *)
(* holds once it has committed (Transaction::get_value, commit).           *)
(***************************************************************************)
THEOREM CommitPublishes == Spec => CommitPublishesReads
<1> DEFINE Pub == txn_commit => \A k \in Keys : txn_get_value(k) \in {kv'[k], Err}
<1>1. ReadInv /\ [Next]_vars => [Pub]_vars
  BY CommitStep
<1>2. CommitPublishesReads <=> [][Pub]_vars
  BY DEF CommitPublishesReads
<1> QED BY <1>1, <1>2, InitReadInv, NextReadInv, PTL DEF Spec

-----------------------------------------------------------------------------
(***************************************************************************)
(* Scans.                                                                  *)
(***************************************************************************)
IsBound(b) == b.kind \in {"unbounded", "included", "excluded"} /\ b.at \in Text

LEMMA KeyTextType ==
    ASSUME NEW k \in Keys
    PROVE  KeyText[k] \in Text
BY KeyTextAssumption DEF Text

\* The list of a table's live entries depends on these alone.
LEMMA PairsOfLive ==
    ASSUME NEW a \in Table, NEW b \in Table, Live(a) = Live(b)
    PROVE  pairs(a) = pairs(b)
<1> DEFINE l == Live(a)
           ks == Ascending(KeysOf(l))
<1>1. ks \in Seq(KeysOf(l)) /\ Len(ks) \in Nat
  BY KeysOfFinite, AscendingSorts
<1>2. ASSUME NEW k \in KeysOf(l)
      PROVE  a[k] = l[k] /\ b[k] = l[k]
  <2>1. k \in Keys /\ Live(a)[k] # Absent /\ Live(b)[k] # Absent
    BY DEF KeysOf
  <2>2. /\ Live(a)[k] = IF a[k] = Tombstone THEN Absent ELSE a[k]
        /\ Live(b)[k] = IF b[k] = Tombstone THEN Absent ELSE b[k]
    BY <2>1 DEF Live
  <2> QED BY <2>1, <2>2
<1>3. /\ pairs(a) = [i \in 1..Len(ks) |-> <<ks[i], a[ks[i]]>>]
      /\ pairs(b) = [i \in 1..Len(ks) |-> <<ks[i], b[ks[i]]>>]
  BY DEF pairs
<1> HIDE DEF ks, l
<1>4. \A i \in 1..Len(ks) : a[ks[i]] = b[ks[i]]
  BY <1>1, <1>2
<1> QED BY <1>3, <1>4

\* The key range of an SSTable has all its keys, as byte strings too.
LEMMA KeysWithinRange ==
    ASSUME NEW sst, NEW t, Written(sst, t), NEW k \in KeysOf(t)
    PROVE  /\ sst.min_key \in Keys /\ sst.max_key \in Keys /\ k \in Keys
           /\ ~Less(KeyText[k], KeyText[sst.min_key])
           /\ ~Less(KeyText[sst.max_key], KeyText[k])
<1>1. t \in Table /\ SameFooter(sst, SST!flush(t))
  BY DEF Written
<1>2. PICK f : SST!flush(t) = SstOf(t, f)
  BY <1>1, FlushLaid
<1>3. sst.min_key = Min(KeysOf(t)) /\ sst.max_key = Max(KeysOf(t))
  BY <1>1, <1>2 DEF SameFooter, SstOf
<1>4. /\ KeysOf(t) \in SUBSET Nat /\ IsFiniteSet(KeysOf(t)) /\ KeysOf(t) # {}
      /\ KeysOf(t) \subseteq Keys
  BY KeysOfFinite
<1>5. Min(KeysOf(t)) \in KeysOf(t) /\ Max(KeysOf(t)) \in KeysOf(t)
  BY <1>4, MinOfNats, MaxOfFinite
<1>6. ~(k < Min(KeysOf(t))) /\ ~(Max(KeysOf(t)) < k)
  <2>1. ~(k > Max(KeysOf(t)))
    BY <1>1, NotFiltered
  <2>2. k \in Nat /\ Max(KeysOf(t)) \in Nat
    BY <1>4, <1>5
  <2> QED BY <1>1, <2>1, <2>2, NotFiltered
<1> QED BY <1>3, <1>4, <1>5, <1>6, KeyTextAssumption

\* What a scan takes from an SSTable is right for every key within the bounds.
LEMMA ScannedExact ==
    ASSUME NEW sst, NEW t, Written(sst, t), NEW lo, NEW hi, IsBound(lo), IsBound(hi)
    PROVE  \/ /\ scanned(sst, lo, hi) \in Table
              /\ \A k \in Keys : in_bounds(KeyText[k], lo, hi) =>
                                     scanned(sst, lo, hi)[k] = t[k]
           \/ /\ scanned(sst, lo, hi) = Err
              /\ \E o \in DOMAIN sst.file : sst.file[o] = Damaged
<1>1. t \in Table
  BY DEF Written
<1>2. CASE range_overlaps(KeyText[sst.min_key], KeyText[sst.max_key], lo, hi)
  <2>1. scanned(sst, lo, hi) = SST!read_all_entries(sst)
    BY <1>2 DEF scanned
  <2> QED BY <1>1, <2>1, ReadAllExact
<1>3. CASE ~range_overlaps(KeyText[sst.min_key], KeyText[sst.max_key], lo, hi)
  <2>1. scanned(sst, lo, hi) = EmptyTable
    BY <1>3 DEF scanned
  <2>2. ASSUME NEW k \in Keys, in_bounds(KeyText[k], lo, hi)
        PROVE  t[k] = Absent
    <3>1. SUFFICES ASSUME k \in KeysOf(t) PROVE FALSE
      BY DEF KeysOf
    <3>2. /\ sst.min_key \in Keys /\ sst.max_key \in Keys
          /\ ~Less(KeyText[k], KeyText[sst.min_key])
          /\ ~Less(KeyText[sst.max_key], KeyText[k])
      BY <3>1, KeysWithinRange
    <3>3. /\ KeyText[k] \in Text /\ KeyText[sst.min_key] \in Text
          /\ KeyText[sst.max_key] \in Text
      BY <3>2, KeyTextType
    <3> QED BY <1>3, <2>2, <3>2, <3>3, OverlapCovers DEF IsBound
  <2> QED BY <2>1, <2>2, EmptyTableType DEF EmptyTable
<1> QED BY <1>2, <1>3

LEMMA ScanExact ==
    ASSUME Serves(store, kv), NEW lo, NEW hi, IsBound(lo), IsBound(hi)
    PROVE  LET r == scan_range(store, lo, hi)
           IN  \/ r = Expected({k \in Keys : in_bounds(KeyText[k], lo, hi)})
               \/ r = Err /\ SomeDamage
               \/ r = Panic /\ data # EmptyTable /\ Inverted(lo, hi)
<1> DEFINE r == scan_range(store, lo, hi)
           ls == [i \in 1..Len(sstables) |-> scanned(sstables[i], lo, hi)]
           S == {k \in Keys : in_bounds(KeyText[k], lo, hi)}
<1>1. store.data = data /\ store.sstables = sstables
  BY DEF store
<1>2. PICK ts : Opened(sstables, ts) /\ kv = Live(Overlay(Layers(ts), data)) /\ data \in Table
  BY <1>1 DEF Serves
<1>3. /\ Len(ts) = Len(sstables) /\ Len(ts) \in Nat /\ ts \in Seq(Table)
      /\ \A i \in 1..Len(ts) : Written(sstables[i], ts[i])
  BY <1>2 DEF Opened
<1>4. r = IF Err \in ToSet(ls) THEN Err
          ELSE IF range_panics(data, lo, hi) THEN Panic
          ELSE pairs(merged_range(<<data>> \o ls, lo, hi))
  BY <1>1 DEF scan_range
<1>5. /\ Len(ls) = Len(ts) /\ ToSet(ls) = {ls[i] : i \in 1..Len(ts)}
      /\ \A i \in 1..Len(ts) : ls[i] = scanned(sstables[i], lo, hi)
  BY <1>3 DEF ToSet
<1>6. ls = [i \in 1..Len(ts) |-> ls[i]]
  BY <1>3
<1>7. \A i \in 1..Len(ts) :
          \/ ls[i] \in Table /\ \A k \in S : ls[i][k] = ts[i][k]
          \/ ls[i] = Err /\ \E o \in DOMAIN sstables[i].file : sstables[i].file[o] = Damaged
  BY <1>3, <1>5, ScannedExact
<1> HIDE DEF ls, r
<1>8. CASE Err \in ToSet(ls)
  <2>1. PICK i \in 1..Len(ts) : ls[i] = Err
    BY <1>5, <1>8
  <2>2. SomeDamage
    BY <1>3, <1>7, <2>1, OutcomesAssumption DEF SomeDamage
  <2> QED BY <1>4, <1>8, <2>2 DEF r
<1>9. CASE Err \notin ToSet(ls) /\ range_panics(data, lo, hi)
  BY <1>4, <1>9 DEF range_panics, r
<1>10. CASE Err \notin ToSet(ls) /\ ~range_panics(data, lo, hi)
  <2> DEFINE m == merged_range(<<data>> \o ls, lo, hi)
             U == Overlay(Layers(ts), data)
             x == [k \in Keys |-> IF k \in S THEN kv[k] ELSE Absent]
  <2>1. \A i \in 1..Len(ts) : ls[i] \in Table /\ \A k \in S : ls[i][k] = ts[i][k]
    BY <1>5, <1>7, <1>10
  <2>2. ls \in Seq(Table)
    <3>1. ls \in [1..Len(ts) -> Table]
      BY <1>6, <2>1
    <3> QED BY <1>3, <3>1
  <2>3. Layers(<<data>> \o ls) = Overlay(Layers(ls), data)
    BY <1>2, <2>2, LayersWithFirst
  <2>4. ASSUME NEW k \in S
        PROVE  Layers(ls)[k] = Layers(ts)[k]
    <3>1. k \in Keys /\ \A i \in 1..Len(ts) : ls[i][k] = ts[i][k]
      BY <2>1
    <3> DEFINE e == Layers(ts)[k]
    <3>2. IsFirst(ts, k, e)
      BY <1>3, <3>1, LayersFirst
    <3> HIDE DEF e, S
    <3>3. IsFirst(ls, k, e)
      <4>1. CASE e = Absent /\ \A i \in 1..Len(ts) : ts[i][k] = Absent
        BY <1>5, <3>1, <4>1 DEF IsFirst
      <4>2. CASE \E i \in 1..Len(ts) :
                    e = ts[i][k] /\ e # Absent /\ \A j \in 1..(i - 1) : ts[j][k] = Absent
        <5>1. PICK i \in 1..Len(ts) :
                    e = ts[i][k] /\ e # Absent /\ \A j \in 1..(i - 1) : ts[j][k] = Absent
          BY <4>2
        <5>2. \A j \in 1..(i - 1) : ls[j][k] = Absent
          BY <1>3, <3>1, <5>1
        <5> QED BY <1>5, <3>1, <5>1, <5>2 DEF IsFirst
      <4> QED BY <3>2, <4>1, <4>2 DEF IsFirst
    <3> QED BY <1>3, <1>5, <3>1, <3>3, LayersAre DEF e
  <2>5. Layers(ls) \in Table /\ Layers(ts) \in Table /\ U \in Table
    BY <1>2, <1>3, <2>2, LayersType, OverlayType
  <2>6. m = [k \in Keys |-> IF k \in S THEN Overlay(Layers(ls), data)[k] ELSE Absent]
    <3>1. m = [k \in Keys |-> IF in_bounds(KeyText[k], lo, hi)
                                THEN Layers(<<data>> \o ls)[k] ELSE Absent]
      BY DEF merged_range, Layers
    <3> QED BY <2>3, <3>1
  <2>7. m = [k \in Keys |-> IF k \in S THEN U[k] ELSE Absent]
    <3>1. \A k \in S : Overlay(Layers(ls), data)[k] = U[k]
      BY <2>4 DEF Overlay
    <3> HIDE DEF S, U, m
    <3> QED BY <2>6, <3>1
  <2>8. m \in Table
    <3> HIDE DEF S, U, m
    <3> QED BY <2>5, <2>7 DEF Table
  <2>9. kv = Live(U) /\ kv \in Table
    BY <1>2, <2>5, LiveType
  <2>10. x \in Table
    <3> HIDE DEF S
    <3> QED BY <2>9 DEF Table
  <2>11. Live(m) = Live(x)
    <3> HIDE DEF S, U, m
    <3>1. \A k \in Keys : Live(m)[k] = Live(x)[k]
      BY <2>7, <2>9, MarkersAssumption DEF Live
    <3> QED BY <3>1 DEF Live
  <2> HIDE DEF m, x
  <2>12. pairs(m) = pairs(x)
    BY <2>8, <2>10, <2>11, PairsOfLive
  <2>13. r = pairs(m) /\ Expected(S) = pairs(x)
    BY <1>4, <1>10 DEF m, x, Expected
  <2> QED BY <2>12, <2>13 DEF r
<1> QED BY <1>8, <1>9, <1>10

(***************************************************************************)
(* scan_range returns exactly the live keys within any bounds, in order,   *)
(* with the newest value of each, and fails or panics only as              *)
(* ScansAreExact allows (Store::scan_range, range_overlaps).               *)
(***************************************************************************)
THEOREM ScansExact == Spec => []ScansAreExact
<1>1. \A b \in Bounds : IsBound(b)
  <2>1. ScanTexts \subseteq Text /\ << >> \in Text
    BY LimitsAssumption DEF Text
  <2> QED BY <2>1 DEF Bounds, IsBound, Unbounded, Included, Excluded
<1>2. ReadInv => ScansAreExact
  BY <1>1, ScanExact DEF ReadInv, ScansAreExact
<1> QED BY <1>2, InitReadInv, NextReadInv, PTL DEF Spec

\* The bounds of a prefix scan are bounds, and never inverted.
LEMMA PrefixBounds ==
    ASSUME NEW p \in Text
    PROVE  /\ IsBound(Included(p)) /\ IsBound(prefix_upper_bound(p))
           /\ ~Inverted(Included(p), prefix_upper_bound(p))
<1> DEFINE hi == prefix_upper_bound(p)
<1>1. IsBound(Included(p)) /\ Included(p).kind = "included" /\ Included(p).at = p
  BY DEF IsBound, Included
<1>2. CASE hi = Unbounded
  <2>1. IsBound(Unbounded) /\ Unbounded.kind = "unbounded"
    <3>1. << >> \in Text
      BY DEF Text
    <3> QED BY <3>1 DEF IsBound, Unbounded
  <2> HIDE DEF hi
  <2>2. IsBound(hi) /\ ~Inverted(Included(p), hi)
    BY <1>2, <2>1 DEF Inverted
  <2> QED BY <1>1, <2>2 DEF hi
<1>3. ASSUME NEW i \in 1..Len(p), hi = Excluded(Append(SubSeq(p, 1, i - 1), p[i] + 1)),
             p[i] < MaxByte
      PROVE  IsBound(hi) /\ ~Inverted(Included(p), hi)
  <2> DEFINE u == Append(SubSeq(p, 1, i - 1), p[i] + 1)
  <2>1. u \in Text
    <3>1. /\ Len(p) \in Nat /\ MaxByte \in Nat
          /\ \A j \in 1..Len(p) : p[j] \in Nat /\ p[j] <= MaxByte
      BY TextBytes, LimitsAssumption
    <3>2. p[i] + 1 \in 0..MaxByte
      BY <1>3, <3>1
    <3>3. SubSeq(p, 1, i - 1) \in Seq(0..MaxByte)
      BY <3>1 DEF Text
    <3> QED BY <3>2, <3>3 DEF Text
  <2>2. hi.kind = "excluded" /\ hi.at = u
    BY <1>3 DEF Excluded
  <2> HIDE DEF u
  <2>3. IsPrefix(p, p)
    <3>1. Len(p) \in Nat
      BY TextBytes
    <3> QED BY <3>1, PrefixIs
  <2>4. Less(p, u)
    <3>1. in_bounds(p, Included(p), hi)
      BY <2>3, PrefixBoundsExact
    <3> HIDE DEF hi
    <3> QED BY <2>2, <3>1 DEF in_bounds
  <2>5. ~Less(u, p) /\ u # p
    BY <2>1, <2>4, LessTransitive, LessIrreflexive
  <2> HIDE DEF hi
  <2> QED BY <1>1, <2>1, <2>2, <2>5 DEF IsBound, Inverted
<1> QED
  <2> HIDE DEF hi
  <2>1. hi = Unbounded \/ \E i \in 1..Len(p) :
            hi = Excluded(Append(SubSeq(p, 1, i - 1), p[i] + 1)) /\ p[i] < MaxByte
    BY UpperBoundIs DEF hi
  <2> QED BY <1>1, <1>2, <1>3, <2>1 DEF hi

\* The empty prefix excludes nothing.
LEMMA EmptyPrefix == scan_prefix(store, << >>) = scan(store)
<1> DEFINE lo == Included(<< >>)
<1>1. << >> \in Text /\ Len(<< >>) = 0
  BY DEF Text
<1>2. prefix_upper_bound(<< >>) = Unbounded
  BY <1>1, UpperBoundIs
<1>3. \A a : ~Less(a, << >>)
  BY <1>1 DEF Less
<1>4. /\ lo.kind = "included" /\ lo.at = << >>
      /\ Unbounded.kind = "unbounded"
  BY DEF Included, Unbounded
<1> HIDE DEF lo
<1>5. \A a : in_bounds(a, lo, Unbounded) /\ in_bounds(a, Unbounded, Unbounded)
  BY <1>3, <1>4 DEF in_bounds
<1>6. \A a, b : range_overlaps(a, b, lo, Unbounded) /\ range_overlaps(a, b, Unbounded, Unbounded)
  BY <1>3, <1>4 DEF range_overlaps
<1>7. \A t : ~range_panics(t, lo, Unbounded) /\ ~range_panics(t, Unbounded, Unbounded)
  BY <1>4 DEF range_panics, Inverted
<1>8. \A x : scanned(x, lo, Unbounded) = scanned(x, Unbounded, Unbounded)
  BY <1>6 DEF scanned
<1>9. \A x : merged_range(x, lo, Unbounded) = merged_range(x, Unbounded, Unbounded)
  BY <1>5 DEF merged_range
<1>10. scan_range(store, lo, Unbounded) = scan_range(store, Unbounded, Unbounded)
  BY <1>7, <1>8, <1>9 DEF scan_range
<1> QED BY <1>2, <1>10 DEF scan_prefix, scan, lo

(***************************************************************************)
(* scan_prefix returns exactly the live keys that begin with the prefix    *)
(* and never panics (Table::scan_prefix).                                  *)
(***************************************************************************)
THEOREM PrefixesExact == Spec => []PrefixScansExact
<1>1. ASSUME ReadInv, NEW p \in ScanPrefixes
      PROVE  LET r == scan_prefix(store, p)
             IN  \/ r = Expected({k \in Keys : IsPrefix(p, KeyText[k])})
                 \/ r = Err /\ SomeDamage
  <2> DEFINE lo == Included(p)
             hi == prefix_upper_bound(p)
  <2>1. p \in Text
    BY LimitsAssumption DEF Text
  <2>2. IsBound(lo) /\ IsBound(hi) /\ ~Inverted(lo, hi)
    BY <2>1, PrefixBounds
  <2>3. {k \in Keys : in_bounds(KeyText[k], lo, hi)} = {k \in Keys : IsPrefix(p, KeyText[k])}
    BY <2>1, KeyTextType, PrefixBoundsExact
  <2>4. scan_prefix(store, p) = scan_range(store, lo, hi)
    BY DEF scan_prefix
  <2> HIDE DEF lo, hi
  <2> QED BY <1>1, <2>2, <2>3, <2>4, ScanExact DEF ReadInv
<1>2. ReadInv => PrefixScansExact
  BY <1>1, EmptyPrefix DEF PrefixScansExact
<1> QED BY <1>2, InitReadInv, NextReadInv, PTL DEF Spec

-----------------------------------------------------------------------------
(***************************************************************************)
(* The block cache: its queue is the end of the list of the blocks used.   *)
(***************************************************************************)
Distinct(s) == \A x, y \in 1..Len(s) : s[x] = s[y] => x = y

\* s without its element at position p.
Without(s, p) == [x \in 1..(Len(s) - 1) |-> IF x < p THEN s[x] ELSE s[x + 1]]

\* The blocks of r that a cache keeps.
Window(r) ==
    SubSeq(r, (IF Len(r) > BLOCK_CACHE_CAP THEN Len(r) - BLOCK_CACHE_CAP ELSE 0) + 1, Len(r))

LEMMA RemoveAtIs ==
    ASSUME NEW s \in Seq(Nat), NEW p \in 1..Len(s)
    PROVE  SubSeq(s, 1, p - 1) \o SubSeq(s, p + 1, Len(s)) = Without(s, p)
<1> DEFINE a == SubSeq(s, 1, p - 1)
           b == SubSeq(s, p + 1, Len(s))
           n == Len(s)
<1>1. n \in Nat /\ p \in 1..n /\ \A i \in 1..n : s[i] \in Nat
  OBVIOUS
<1>2. a \in Seq(Nat) /\ Len(a) = p - 1 /\ \A i \in 1..(p - 1) : a[i] = s[i]
  <2>1. \A i \in 1..(p - 1) : s[i] \in Nat
    BY <1>1
  <2>2. /\ a \in Seq(Nat)
        /\ Len(a) = IF 1 <= p - 1 THEN (p - 1) - 1 + 1 ELSE 0
        /\ \A i \in 1..((p - 1) - 1 + 1) : a[i] = s[1 + i - 1]
    <3> HIDE DEF n
    <3> QED BY <1>1, <2>1, SubSeqProperties
  <2> HIDE DEF a
  <2> QED BY <1>1, <2>2
<1>3. b \in Seq(Nat) /\ Len(b) = n - p /\ \A i \in 1..(n - p) : b[i] = s[p + i]
  <2>1. \A i \in (p + 1)..n : s[i] \in Nat
    BY <1>1
  <2>2. /\ b \in Seq(Nat)
        /\ Len(b) = IF p + 1 <= n THEN n - (p + 1) + 1 ELSE 0
        /\ \A i \in 1..(n - (p + 1) + 1) : b[i] = s[(p + 1) + i - 1]
    BY <1>1, <2>1, SubSeqProperties
  <2> HIDE DEF b, n
  <2>3. Len(b) = n - p
    BY <1>1, <2>2
  <2>4. ASSUME NEW i \in 1..(n - p) PROVE b[i] = s[p + i]
    <3>1. i \in 1..(n - (p + 1) + 1) /\ (p + 1) + i - 1 = p + i
      BY <1>1
    <3>2. b[i] = s[(p + 1) + i - 1]
      BY <2>2, <3>1
    <3> QED BY <3>1, <3>2
  <2> QED BY <2>2, <2>3, <2>4
<1> HIDE DEF a, b, n
<1>4. /\ a \o b \in Seq(Nat) /\ Len(a \o b) = Len(a) + Len(b)
      /\ \A x \in 1..(Len(a) + Len(b)) :
             (a \o b)[x] = IF x <= Len(a) THEN a[x] ELSE b[x - Len(a)]
  BY <1>2, <1>3, ConcatProperties
<1>5. Len(a) + Len(b) = n - 1
  BY <1>1, <1>2, <1>3
<1>6. \A x \in 1..(n - 1) : (a \o b)[x] = Without(s, p)[x]
  <2> TAKE x \in 1..(n - 1)
  <2>1. (a \o b)[x] = IF x <= p - 1 THEN a[x] ELSE b[x - (p - 1)]
    BY <1>2, <1>4, <1>5
  <2>2. CASE x < p
    <3>1. x <= p - 1 /\ x \in 1..(p - 1)
      BY <1>1, <2>2
    <3> QED BY <1>2, <2>1, <2>2, <3>1 DEF Without, n
  <2>3. CASE ~(x < p)
    <3>1. ~(x <= p - 1) /\ x - (p - 1) \in 1..(n - p) /\ p + (x - (p - 1)) = x + 1
      BY <1>1, <2>3
    <3> QED BY <1>3, <2>1, <2>3, <3>1 DEF Without, n
  <2> QED BY <2>2, <2>3
<1>7. a \o b = [x \in 1..(n - 1) |-> (a \o b)[x]]
  <2> DEFINE c == a \o b
  <2>1. c \in Seq(Nat) /\ Len(c) = n - 1
    BY <1>4, <1>5
  <2> HIDE DEF c
  <2>2. c = [x \in 1..Len(c) |-> c[x]]
    BY <2>1
  <2> QED BY <2>1, <2>2 DEF c
<1> QED BY <1>6, <1>7 DEF Without, n, a, b

LEMMA RemoveFirstIs ==
    ASSUME NEW s \in Seq(Nat), Distinct(s), NEW o \in Nat
    PROVE  /\ \A p \in 1..Len(s) : s[p] = o => RemoveFirst(s, o) = Without(s, p)
           /\ o \notin ToSet(s) => RemoveFirst(s, o) = s
<1>1. o \notin ToSet(s) => RemoveFirst(s, o) = s
  BY DEF RemoveFirst, ToSet
<1>2. ASSUME NEW p \in 1..Len(s), s[p] = o
      PROVE  RemoveFirst(s, o) = Without(s, p)
  <2> DEFINE I == {i \in 1..Len(s) : s[i] = o}
  <2>1. SelectInSeq(s, LAMBDA v : v = o) = IF I # {} THEN Min(I) ELSE 0
    BY DEF SelectInSeq
  <2>2. I = {p}
    BY <1>2 DEF Distinct
  <2>3. p \in Nat /\ I \in SUBSET Nat /\ I # {}
    BY <2>2
  <2> HIDE DEF I
  <2>4. Min(I) = p
    BY <2>2, <2>3, MinOfNats
  <2>5. RemoveFirst(s, o) = RemoveAt(s, SelectInSeq(s, LAMBDA v : v = o))
    BY <1>2 DEF RemoveFirst
  <2>6. RemoveFirst(s, o) = RemoveAt(s, p)
    BY <2>1, <2>3, <2>4, <2>5
  <2> QED BY <2>6, RemoveAtIs DEF RemoveAt
<1> QED BY <1>1, <1>2

LEMMA WithoutIs ==
    ASSUME NEW s \in Seq(Nat), Distinct(s), NEW p \in 1..Len(s)
    PROVE  /\ Without(s, p) \in Seq(Nat) /\ Len(Without(s, p)) = Len(s) - 1
           /\ Distinct(Without(s, p))
           /\ ToSet(Without(s, p)) = ToSet(s) \ {s[p]}
<1> DEFINE w == Without(s, p)
           n == Len(s)
<1>1. n \in Nat /\ n - 1 \in Nat /\ p \in 1..n /\ \A i \in 1..n : s[i] \in Nat
  OBVIOUS
<1>2. w = [x \in 1..(n - 1) |-> IF x < p THEN s[x] ELSE s[x + 1]]
  BY DEF Without
<1>3. \A x, y \in 1..n : s[x] = s[y] => x = y
  BY DEF Distinct
<1>a. ToSet(s) = {s[x] : x \in 1..n}
  BY DEF ToSet
<1> HIDE DEF w, n
<1>4. \A x \in 1..(n - 1) : x \in 1..n /\ x + 1 \in 1..n
  BY <1>1
<1>5. \A x \in 1..(n - 1) : w[x] \in Nat
  BY <1>1, <1>2, <1>4
<1>6. w \in Seq(Nat) /\ Len(w) = n - 1
  BY <1>1, <1>2, <1>5
<1>7. Distinct(w)
  <2>1. SUFFICES ASSUME NEW x \in 1..(n - 1), NEW y \in 1..(n - 1), w[x] = w[y]
                 PROVE  x = y
    BY <1>6 DEF Distinct
  <2>2. (IF x < p THEN x ELSE x + 1) = (IF y < p THEN y ELSE y + 1)
    BY <1>2, <1>3, <1>4, <2>1
  <2> QED BY <1>1, <2>2
<1>8. ToSet(w) = {w[x] : x \in 1..(n - 1)}
  BY <1>2, <1>6 DEF ToSet
<1>9. ASSUME NEW x \in 1..(n - 1) PROVE w[x] \in ToSet(s) /\ w[x] # s[p]
  BY <1>1, <1>2, <1>3, <1>4, <1>a
<1>10. ASSUME NEW x \in 1..n, x # p PROVE s[x] \in {w[y] : y \in 1..(n - 1)}
  <2>1. CASE x < p
    <3>1. x \in 1..(n - 1) /\ w[x] = s[x]
      BY <1>1, <1>2, <2>1
    <3> QED BY <3>1
  <2>2. CASE x > p
    <3>1. x - 1 \in 1..(n - 1) /\ ~(x - 1 < p) /\ (x - 1) + 1 = x
      BY <1>1, <2>2
    <3>2. w[x - 1] = s[x]
      BY <1>2, <3>1
    <3> QED BY <3>1, <3>2
  <2> QED BY <1>1, <1>10, <2>1, <2>2
<1>11. ToSet(w) \subseteq ToSet(s) \ {s[p]}
  BY <1>8, <1>9
<1>12. ToSet(s) \ {s[p]} \subseteq ToSet(w)
  BY <1>8, <1>10, <1>a
<1> QED BY <1>6, <1>7, <1>11, <1>12 DEF w, n

\* The list after a use: the element moves to, or comes in at, the end.
LEMMA UsedIs ==
    ASSUME NEW r \in Seq(Nat), Distinct(r), NEW o \in Nat
    PROVE  /\ Used(r, o) \in Seq(Nat) /\ Distinct(Used(r, o))
           /\ ToSet(Used(r, o)) = ToSet(r) \cup {o}
           /\ o \notin ToSet(r) => Used(r, o) = Append(r, o)
           /\ \A p \in 1..Len(r) : r[p] = o => Used(r, o) = Append(Without(r, p), o)
<1> DEFINE w == RemoveFirst(r, o)
<1>1. w \in Seq(Nat) /\ Distinct(w) /\ o \notin ToSet(w) /\ ToSet(w) \cup {o} = ToSet(r) \cup {o}
  <2>1. CASE o \notin ToSet(r)
    BY <2>1, RemoveFirstIs
  <2>2. CASE o \in ToSet(r)
    <3>1. PICK p \in 1..Len(r) : r[p] = o
      BY <2>2 DEF ToSet
    <3>2. w = Without(r, p)
      BY <3>1, RemoveFirstIs
    <3> HIDE DEF w
    <3> QED BY <2>2, <3>1, <3>2, WithoutIs
  <2> QED BY <2>1, <2>2
<1>2. Used(r, o) = Append(w, o)
  BY DEF Used
<1> HIDE DEF w
<1> DEFINE u == Append(w, o)
<1>3. u \in Seq(Nat) /\ Len(w) \in Nat /\ Len(u) = Len(w) + 1 /\ u[Len(u)] = o
      /\ \A x \in 1..Len(w) : u[x] = w[x]
  BY <1>1
<1>4. \A x \in 1..Len(w) : w[x] # o
  BY <1>1 DEF ToSet
<1> HIDE DEF u
<1>5. Distinct(u)
  <2>1. \A x, y \in 1..Len(w) : w[x] = w[y] => x = y
    BY <1>1 DEF Distinct
  <2>2. \A x \in 1..Len(u) : x \in 1..Len(w) \/ x = Len(u)
    BY <1>3
  <2> QED BY <1>3, <1>4, <2>1, <2>2 DEF Distinct
<1>6. ToSet(u) = ToSet(w) \cup {o}
  <2>1. ToSet(u) = {u[x] : x \in 1..Len(u)}
    BY DEF ToSet
  <2>4. ToSet(w) = {w[x] : x \in 1..Len(w)}
    BY DEF ToSet
  <2>2. \A x \in 1..Len(u) : x \in 1..Len(w) \/ x = Len(u)
    BY <1>3
  <2>3. Len(u) \in 1..Len(u) /\ \A x \in 1..Len(w) : x \in 1..Len(u)
    BY <1>3
  <2> QED BY <1>3, <2>1, <2>2, <2>3, <2>4
<1>7. Used(r, o) \in Seq(Nat) /\ Distinct(Used(r, o)) /\ ToSet(Used(r, o)) = ToSet(r) \cup {o}
  BY <1>1, <1>2, <1>3, <1>5, <1>6 DEF u
<1> QED BY <1>2, <1>7, RemoveFirstIs DEF w

\* The position in r before the first block of the window.
Before(r) == IF Len(r) > BLOCK_CACHE_CAP THEN Len(r) - BLOCK_CACHE_CAP ELSE 0

LEMMA WindowIs ==
    ASSUME NEW r \in Seq(Nat)
    PROVE  /\ Before(r) \in 0..Len(r)
           /\ Window(r) \in Seq(Nat) /\ Len(Window(r)) = Len(r) - Before(r)
           /\ \A x \in 1..(Len(r) - Before(r)) : Window(r)[x] = r[Before(r) + x]
           /\ Distinct(r) => Distinct(Window(r))
<1> DEFINE m == Before(r)
           n == Len(r)
           w == Window(r)
<1>1. n \in Nat /\ m \in 0..n
  BY LimitsAssumption DEF Before
<1>2. w = SubSeq(r, m + 1, n)
  BY DEF Window, Before
<1>3. \A i \in (m + 1)..n : r[i] \in Nat
  BY <1>1
<1> HIDE DEF w, m
<1>4. /\ w \in Seq(Nat)
      /\ Len(w) = IF m + 1 <= n THEN n - (m + 1) + 1 ELSE 0
      /\ \A i \in 1..(n - (m + 1) + 1) : w[i] = r[(m + 1) + i - 1]
  BY <1>1, <1>2, <1>3, SubSeqProperties
<1> HIDE DEF n
<1>5. Len(w) = n - m
  BY <1>1, <1>4
<1>6. ASSUME NEW i \in 1..(n - m) PROVE w[i] = r[m + i]
  <2>1. i \in 1..(n - (m + 1) + 1) /\ (m + 1) + i - 1 = m + i
    BY <1>1
  <2>2. w[i] = r[(m + 1) + i - 1]
    BY <1>4, <2>1
  <2> QED BY <2>1, <2>2
<1>7. ASSUME Distinct(r) PROVE Distinct(w)
  <2>1. SUFFICES ASSUME NEW x \in 1..(n - m), NEW y \in 1..(n - m), w[x] = w[y]
                 PROVE  x = y
    BY <1>5 DEF Distinct
  <2>2. m + x \in 1..n /\ m + y \in 1..n
    BY <1>1
  <2>3. m + x = m + y
    BY <1>6, <1>7, <2>1, <2>2 DEF Distinct, n
  <2> QED BY <1>1, <2>3
<1> QED BY <1>1, <1>4, <1>5, <1>6, <1>7 DEF w, m, n

LEMMA WindowIsFor ==
    ASSUME NEW r \in Seq(Nat), NEW w \in Seq(Nat), Len(w) = Len(r) - Before(r),
           \A x \in 1..Len(w) : w[x] = r[Before(r) + x]
    PROVE  Window(r) = w
<1>1. /\ Window(r) \in Seq(Nat) /\ Len(Window(r)) = Len(w)
      /\ \A x \in 1..Len(w) : Window(r)[x] = w[x]
  BY WindowIs
<1> QED BY <1>1, SeqEqual

LEMMA DistinctCount ==
    ASSUME NEW s \in Seq(Nat), Distinct(s)
    PROVE  Cardinality(ToSet(s)) = Len(s)
<1>1. ToSet(s) = {s[x] : x \in 1..Len(s)}
  BY DEF ToSet
<1>2. s \in Bijection(1..Len(s), ToSet(s))
  <2>1. s \in [1..Len(s) -> ToSet(s)]
    BY <1>1
  <2>2. DOMAIN s = 1..Len(s)
    OBVIOUS
  <2>3. IsInjective(s)
    BY <2>2 DEF IsInjective, Distinct
  <2>4. \A t \in ToSet(s) : \E x \in 1..Len(s) : s[x] = t
    BY <1>1
  <2> QED BY <2>1, <2>3, <2>4 DEF Bijection, Injection, Surjection
<1>3. ExistsBijection(1..Len(s), ToSet(s))
  BY <1>2 DEF ExistsBijection
<1> QED BY <1>3, FS_CountingElements

LEMMA CacheOperators ==
    /\ \A s, o : SST!Cache!touch(s, o) = Used(s, o)
    /\ \A S : SST!Cache!Cardinality(S) = Cardinality(S)
<1>1. \A S : SST!Cache!Min(S) = Min(S)
  BY DEF SST!Cache!Min, Min
<1>2. \A s, o : SST!Cache!RemoveFirst(s, o) = RemoveFirst(s, o)
  BY <1>1 DEF SST!Cache!RemoveFirst, RemoveFirst, SST!Cache!RemoveAt, RemoveAt,
         SST!Cache!SelectInSeq, SelectInSeq
<1>3. \A S : SST!Cache!Cardinality(S) = Cardinality(S)
  BY DEF SST!Cache!Cardinality, Cardinality
<1> QED BY <1>2, <1>3 DEF SST!Cache!touch, Used

\* The cache c has the blocks of r that were used last.
Keeps(c, r) ==
    /\ r \in Seq(Nat) /\ Distinct(r)
    /\ c.lru = Window(r)
    /\ DOMAIN c.blocks = ToSet(c.lru)

LEMMA NewKeeps == Keeps(SST!Cache!new, << >>)
<1> DEFINE r == << >>
<1>1. r \in Seq(Nat) /\ Len(r) = 0 /\ Distinct(r)
  BY DEF Distinct
<1>2. ToSet(r) = {}
  BY DEF ToSet
<1> HIDE DEF r
<1>3. Window(r) = r
  <2>1. Before(r) = 0
    BY <1>1, LimitsAssumption DEF Before
  <2>2. Len(r) = Len(r) - Before(r) /\ \A x \in 1..Len(r) : r[x] = r[Before(r) + x]
    BY <1>1, <2>1
  <2> QED BY <1>1, <2>2, WindowIsFor
<1>4. SST!Cache!new.lru = r /\ DOMAIN SST!Cache!new.blocks = {}
  BY DEF SST!Cache!new, r
<1> QED BY <1>1, <1>2, <1>3, <1>4 DEF Keeps, r

\* Moving a block of the window to the end of the list and of the window.
LEMMA WindowHit ==
    ASSUME NEW r \in Seq(Nat), Distinct(r), NEW o \in ToSet(Window(r))
    PROVE  Used(Window(r), o) = Window(Used(r, o))
<1> DEFINE w == Window(r)
           n == Len(r)
           m == Before(r)
<1>0. n \in Nat
  OBVIOUS
<1>1. /\ m \in 0..n
      /\ w \in Seq(Nat) /\ Len(w) = n - m /\ \A x \in 1..(n - m) : w[x] = r[m + x]
      /\ Distinct(w)
  BY WindowIs
<1>2. PICK q \in 1..Len(w) : w[q] = o
  BY DEF ToSet
<1> HIDE DEF w
<1> DEFINE p == m + q
           u == Used(r, o)
           v == Used(w, o)
<1>3. p \in 1..n /\ r[p] = o /\ q \in 1..(n - m) /\ o \in Nat
  BY <1>0, <1>1, <1>2
<1>4. u = Append(Without(r, p), o) /\ u \in Seq(Nat)
  BY <1>3, UsedIs
<1>5. v = Append(Without(w, q), o) /\ v \in Seq(Nat)
  BY <1>0, <1>1, <1>2, <1>3, UsedIs
<1>6. /\ Without(r, p) \in Seq(Nat) /\ Len(Without(r, p)) = n - 1
      /\ \A x \in 1..(n - 1) : Without(r, p)[x] = IF x < p THEN r[x] ELSE r[x + 1]
  BY <1>3, WithoutIs DEF Without
<1>7. /\ Without(w, q) \in Seq(Nat) /\ Len(Without(w, q)) = n - m - 1
      /\ \A x \in 1..(n - m - 1) : Without(w, q)[x] = IF x < q THEN w[x] ELSE w[x + 1]
  BY <1>0, <1>1, <1>2, WithoutIs DEF Without
<1> HIDE DEF u, v, p
<1>8. /\ Len(u) = n /\ u[n] = o
      /\ \A x \in 1..(n - 1) : u[x] = IF x < p THEN r[x] ELSE r[x + 1]
  BY <1>0, <1>1, <1>3, <1>4, <1>6
<1>9. /\ Len(v) = n - m /\ v[n - m] = o
      /\ \A x \in 1..(n - m - 1) : v[x] = IF x < q THEN w[x] ELSE w[x + 1]
  <2> DEFINE z == Without(w, q)
  <2>1. z \in Seq(Nat) /\ v = Append(z, o) /\ Len(z) = n - m - 1
    BY <1>5, <1>7
  <2> HIDE DEF z
  <2>2. Len(v) = Len(z) + 1 /\ v[Len(z) + 1] = o /\ \A x \in 1..Len(z) : v[x] = z[x]
    BY <2>1
  <2>3. Len(z) + 1 = n - m
    BY <1>0, <1>1, <2>1
  <2> QED BY <1>7, <2>1, <2>2, <2>3 DEF z
<1>10. Before(u) = m
  BY <1>8 DEF Before
<1> HIDE DEF m, n
<1>11. ASSUME NEW x \in 1..(n - m) PROVE v[x] = u[m + x]
  <2>1. CASE x = n - m
    <3>1. m + x = n
      BY <1>0, <1>1, <2>1
    <3> QED BY <1>8, <1>9, <2>1, <3>1
  <2>2. CASE x # n - m
    <3>1. /\ x \in 1..(n - m - 1) /\ m + x \in 1..(n - 1) /\ (x < q <=> m + x < p)
          /\ x + 1 \in 1..(n - m) /\ m + (x + 1) = (m + x) + 1
      BY <1>0, <1>1, <1>3, <2>2 DEF p
    <3>2. v[x] = IF x < q THEN w[x] ELSE w[x + 1]
      BY <1>9, <3>1
    <3>3. u[m + x] = IF m + x < p THEN r[m + x] ELSE r[(m + x) + 1]
      BY <1>8, <3>1
    <3>4. w[x] = r[m + x] /\ w[x + 1] = r[m + (x + 1)]
      BY <1>0, <1>1, <3>1
    <3> QED BY <1>0, <1>1, <3>1, <3>2, <3>3, <3>4
  <2> QED BY <2>1, <2>2
<1>12. Len(v) = Len(u) - Before(u) /\ \A x \in 1..Len(v) : v[x] = u[Before(u) + x]
  BY <1>8, <1>9, <1>10, <1>11
<1>13. Window(u) = v
  BY <1>4, <1>5, <1>12, WindowIsFor
<1> QED BY <1>13 DEF u, v, w

\* A block from outside a full window pushes out the first one.
LEMMA WindowMissFull ==
    ASSUME NEW r \in Seq(Nat), Distinct(r), NEW o \in Nat, o \notin ToSet(Window(r)),
           BLOCK_CACHE_CAP > 0, Len(Window(r)) >= BLOCK_CACHE_CAP
    PROVE  /\ Window(r) # << >>
           /\ Append(Tail(Window(r)), o) = Window(Used(r, o))
<1> DEFINE w == Window(r)
           n == Len(r)
           m == Before(r)
           u == Used(r, o)
<1>0. n \in Nat
  OBVIOUS
<1>1. /\ m \in 0..n
      /\ w \in Seq(Nat) /\ Len(w) = n - m /\ \A x \in 1..(n - m) : w[x] = r[m + x]
      /\ Distinct(w)
  BY WindowIs
<1>a. Len(w) >= BLOCK_CACHE_CAP /\ o \notin ToSet(w)
  OBVIOUS
<1> DEFINE v == Append(Tail(w), o)
<1> HIDE DEF w
<1>2. n >= BLOCK_CACHE_CAP /\ m = n - BLOCK_CACHE_CAP /\ BLOCK_CACHE_CAP \in Nat
  <2>1. BLOCK_CACHE_CAP \in Nat
    BY LimitsAssumption
  <2>2. n - m >= BLOCK_CACHE_CAP
    BY <1>1, <1>a
  <2> QED BY <1>0, <1>1, <2>1, <2>2 DEF Before
<1>3. \A x \in 1..(n - m) : r[m + x] # o
  <2>0. ToSet(w) = {w[x] : x \in 1..Len(w)}
    <3>1. DOMAIN w = 1..Len(w)
      BY <1>1
    <3> QED BY <3>1, Zenon DEF ToSet
  <2>1. \A x \in 1..Len(w) : w[x] # o
    BY <1>a, <2>0
  <2> QED BY <1>1, <2>1
<1>4. Len(w) > 0 /\ w # << >>
  BY <1>0, <1>1, <1>2
<1>5. /\ Tail(w) \in Seq(Nat) /\ Len(Tail(w)) = n - m - 1
      /\ \A x \in 1..(n - m - 1) : Tail(w)[x] = w[x + 1]
  BY <1>0, <1>1, <1>4, HeadTailProperties
<1>6. /\ v \in Seq(Nat) /\ Len(v) = n - m /\ v[n - m] = o
      /\ \A x \in 1..(n - m - 1) : v[x] = r[m + (x + 1)]
  <2>1. /\ v \in Seq(Nat) /\ Len(v) = n - m /\ v[n - m] = o
        /\ \A x \in 1..(n - m - 1) : v[x] = Tail(w)[x]
    BY <1>0, <1>1, <1>2, <1>5
  <2>2. \A x \in 1..(n - m - 1) : x + 1 \in 1..(n - m)
    BY <1>1
  <2> QED BY <1>0, <1>1, <1>5, <2>1, <2>2
<1>7. u \in Seq(Nat)
  BY UsedIs
<1>8. CASE o \notin ToSet(r)
  <2>1. u = Append(r, o)
    BY <1>8, UsedIs
  <2> HIDE DEF u, v
  <2>2. Len(u) = n + 1 /\ u[n + 1] = o /\ \A x \in 1..n : u[x] = r[x]
    BY <2>1
  <2>3. Before(u) = m + 1
    BY <1>0, <1>1, <1>2, <2>2 DEF Before
  <2> HIDE DEF m, n
  <2>4. ASSUME NEW x \in 1..(n - m) PROVE v[x] = u[(m + 1) + x]
    <3>1. CASE x = n - m
      <4>1. (m + 1) + x = n + 1
        BY <1>0, <1>1, <3>1
      <4> QED BY <1>6, <2>2, <3>1, <4>1
    <3>2. CASE x # n - m
      <4>1. x \in 1..(n - m - 1) /\ (m + 1) + x \in 1..n /\ (m + 1) + x = m + (x + 1)
        BY <1>0, <1>1, <3>2
      <4> QED BY <1>6, <2>2, <4>1
    <3> QED BY <3>1, <3>2
  <2>5. Len(v) = Len(u) - Before(u)
    BY <1>0, <1>1, <1>6, <2>2, <2>3
  <2>6. \A x \in 1..Len(v) : v[x] = u[Before(u) + x]
    BY <1>6, <2>3, <2>4
  <2>7. Window(u) = v
    BY <1>6, <1>7, <2>5, <2>6, WindowIsFor
  <2> QED BY <1>4, <2>7 DEF u, v, w
<1>9. CASE o \in ToSet(r)
  <2>1. PICK p \in 1..n : r[p] = o
    BY <1>9 DEF ToSet
  <2>2. p <= m
    <3>1. CASE p > m
      <4>1. p - m \in 1..(n - m) /\ m + (p - m) = p
        BY <1>0, <1>1, <3>1
      <4> QED BY <1>3, <2>1, <4>1
    <3> QED BY <1>0, <1>1, <3>1
  <2>3. u = Append(Without(r, p), o)
    BY <2>1, UsedIs
  <2>4. /\ Without(r, p) \in Seq(Nat) /\ Len(Without(r, p)) = n - 1
        /\ \A x \in 1..(n - 1) : Without(r, p)[x] = IF x < p THEN r[x] ELSE r[x + 1]
    BY WithoutIs DEF Without
  <2> HIDE DEF u, v
  <2>5. /\ Len(u) = n /\ u[n] = o
        /\ \A x \in 1..(n - 1) : u[x] = IF x < p THEN r[x] ELSE r[x + 1]
    BY <1>0, <1>1, <2>3, <2>4
  <2>6. Before(u) = m
    BY <2>5 DEF Before
  <2> HIDE DEF m, n
  <2>7. ASSUME NEW x \in 1..(n - m) PROVE v[x] = u[m + x]
    <3>1. CASE x = n - m
      <4>1. m + x = n
        BY <1>0, <1>1, <3>1
      <4> QED BY <1>6, <2>5, <3>1, <4>1
    <3>2. CASE x # n - m
      <4>1. /\ x \in 1..(n - m - 1) /\ m + x \in 1..(n - 1) /\ ~(m + x < p)
            /\ (m + x) + 1 = m + (x + 1)
        BY <1>0, <1>1, <2>2, <3>2
      <4>2. u[m + x] = r[(m + x) + 1]
        BY <2>5, <4>1
      <4> QED BY <1>6, <4>1, <4>2
    <3> QED BY <3>1, <3>2
  <2>8. Len(v) = Len(u) - Before(u) /\ \A x \in 1..Len(v) : v[x] = u[Before(u) + x]
    BY <1>6, <2>5, <2>6, <2>7
  <2>9. Window(u) = v
    BY <1>6, <1>7, <2>8, WindowIsFor
  <2> QED BY <1>4, <2>9 DEF u, v, w
<1> QED BY <1>8, <1>9

\* A window that is not full is the whole list.
LEMMA WindowMissFree ==
    ASSUME NEW r \in Seq(Nat), Distinct(r), NEW o \in Nat, o \notin ToSet(Window(r)),
           Len(Window(r)) < BLOCK_CACHE_CAP
    PROVE  Used(Window(r), o) = Window(Used(r, o))
<1> DEFINE u == Used(r, o)
<1>0. Len(r) \in Nat
  OBVIOUS
<1>1. /\ Before(r) \in 0..Len(r) /\ Window(r) \in Seq(Nat)
      /\ Len(Window(r)) = Len(r) - Before(r)
      /\ \A x \in 1..(Len(r) - Before(r)) : Window(r)[x] = r[Before(r) + x]
  BY WindowIs
<1>2. BLOCK_CACHE_CAP \in Nat
  BY LimitsAssumption
<1>3. Len(r) < BLOCK_CACHE_CAP /\ Before(r) = 0
  BY <1>0, <1>1, <1>2 DEF Before
<1>4. Window(r) = r
  <2>1. Len(r) = Len(r) - Before(r) /\ \A x \in 1..Len(r) : r[x] = r[Before(r) + x]
    BY <1>0, <1>3
  <2> QED BY <2>1, WindowIsFor
<1>5. u = Append(r, o) /\ u \in Seq(Nat)
  BY <1>4, UsedIs
<1>6. Len(u) <= BLOCK_CACHE_CAP
  BY <1>0, <1>1, <1>2, <1>3, <1>5
<1> HIDE DEF u
<1>7. Before(u) = 0 /\ Len(u) \in Nat
  BY <1>2, <1>5, <1>6 DEF Before
<1>8. Window(u) = u
  <2>1. Len(u) = Len(u) - Before(u) /\ \A x \in 1..Len(u) : u[x] = u[Before(u) + x]
    BY <1>7
  <2> QED BY <1>5, <2>1, WindowIsFor
<1> QED BY <1>4, <1>8 DEF u

\* A hit.
LEMMA GetKeeps ==
    ASSUME NEW c, c = [blocks |-> c.blocks, lru |-> c.lru], NEW r, Keeps(c, r),
           NEW o \in DOMAIN c.blocks
    PROVE  Keeps(SST!Cache!get(c, o), Used(r, o))
<1> DEFINE w == c.lru
           d == SST!Cache!get(c, o)
<1>1. r \in Seq(Nat) /\ Distinct(r) /\ w = Window(r) /\ o \in ToSet(w)
  BY DEF Keeps
<1>2. w \in Seq(Nat) /\ Distinct(w)
  BY <1>1, WindowIs
<1>3. o \in Nat
  BY <1>1, <1>2 DEF ToSet
<1>4. d = [blocks |-> c.blocks, lru |-> Used(w, o)]
  BY CacheOperators DEF SST!Cache!get
<1>5. d.lru = Used(w, o) /\ d.blocks = c.blocks
  BY <1>4
<1> HIDE DEF w, d
<1>6. Used(w, o) = Window(Used(r, o))
  BY <1>1, WindowHit
<1>7. DOMAIN c.blocks = ToSet(Used(w, o))
  <2>1. ToSet(Used(w, o)) = ToSet(w) \cup {o}
    BY <1>2, <1>3, UsedIs
  <2>2. DOMAIN c.blocks = ToSet(w)
    BY DEF Keeps, w
  <2> QED BY <1>1, <2>1, <2>2
<1>8. Used(r, o) \in Seq(Nat) /\ Distinct(Used(r, o))
  BY <1>1, <1>3, UsedIs
<1> QED BY <1>5, <1>6, <1>7, <1>8 DEF Keeps, d

\* A miss.
LEMMA PutKeeps ==
    ASSUME NEW c, c = [blocks |-> c.blocks, lru |-> c.lru], NEW r, Keeps(c, r),
           NEW o \in Nat, o \notin DOMAIN c.blocks, NEW b
    PROVE  Keeps(SST!Cache!put(c, o, b), Used(r, o))
<1> DEFINE w == c.lru
           d == SST!Cache!put(c, o, b)
           out == SST!Cache!evict(c, o)
           kept == DOMAIN c.blocks \ out
           blocks == [x \in kept \cup {o} |-> IF x = o THEN b ELSE c.blocks[x]]
           v == IF out = {} THEN w ELSE Tail(w)
<1>1. r \in Seq(Nat) /\ Distinct(r) /\ w = Window(r) /\ DOMAIN c.blocks = ToSet(w)
  BY DEF Keeps
<1>2. w \in Seq(Nat) /\ Distinct(w) /\ Len(w) = Len(r) - Before(r)
  BY <1>1, WindowIs
<1>3. Used(r, o) \in Seq(Nat) /\ Distinct(Used(r, o))
  BY <1>1, UsedIs
<1>4. BLOCK_CACHE_CAP \in Nat
  BY LimitsAssumption
<1>5. out = IF Len(w) >= BLOCK_CACHE_CAP /\ w # << >> THEN {Head(w)} ELSE {}
  <2>1. Cardinality(DOMAIN c.blocks) = Len(w)
    BY <1>1, <1>2, DistinctCount
  <2> QED BY <2>1, CacheOperators DEF SST!Cache!evict, SST!Cache!has
<1>6. CASE BLOCK_CACHE_CAP = 0
  <2>1. d = c
    BY <1>6 DEF SST!Cache!put
  <2>2. ASSUME NEW s \in Seq(Nat) PROVE Window(s) = << >>
    <3>1. Before(s) = Len(s)
      BY <1>6 DEF Before
    <3>2. Window(s) \in Seq(Nat) /\ Len(Window(s)) = 0
      BY <3>1, WindowIs
    <3> QED BY <3>2
  <2>3. Window(r) = << >> /\ Window(Used(r, o)) = << >>
    BY <1>1, <1>3, <2>2
  <2> QED BY <1>1, <1>3, <2>1, <2>3 DEF Keeps
<1>7. CASE BLOCK_CACHE_CAP # 0
  <2>1. d = [blocks |-> blocks, lru |-> SST!Cache!touch(v, o)]
    BY <1>7 DEF SST!Cache!put
  <2>2. d.lru = Used(v, o) /\ DOMAIN d.blocks = kept \cup {o}
    BY <2>1, CacheOperators
  <2>3. o \notin ToSet(w)
    BY <1>1
  <2> HIDE DEF d, w, out
  <2>4. CASE Len(w) >= BLOCK_CACHE_CAP
    <3>1. w # << >> /\ Append(Tail(w), o) = Window(Used(r, o))
      BY <1>1, <1>4, <1>7, <2>3, <2>4, WindowMissFull
    <3>2. out = {Head(w)} /\ v = Tail(w)
      BY <1>5, <2>4, <3>1
    <3>3. /\ Tail(w) \in Seq(Nat) /\ Distinct(Tail(w))
          /\ ToSet(Tail(w)) = ToSet(w) \ {Head(w)}
      <4>1. 1 \in 1..Len(w) /\ Head(w) = w[1] /\ Tail(w) = Without(w, 1)
        <5>1. /\ Tail(w) \in Seq(Nat) /\ Len(Tail(w)) = Len(w) - 1
              /\ \A x \in 1..Len(Tail(w)) : Tail(w)[x] = w[x + 1]
          BY <1>2, <3>1, HeadTailProperties
        <5> DEFINE tl == Tail(w)
        <5>a. /\ tl \in Seq(Nat) /\ Len(tl) = Len(w) - 1
              /\ \A x \in 1..Len(tl) : tl[x] = w[x + 1]
          BY <5>1
        <5>2. Tail(w) = [x \in 1..(Len(w) - 1) |-> w[x + 1]]
          <6> HIDE DEF tl
          <6>1. tl = [x \in 1..Len(tl) |-> tl[x]]
            BY <5>a
          <6> QED BY <5>a, <6>1 DEF tl
        <5>3. 1 \in 1..Len(w) /\ Head(w) = w[1] /\ Len(w) \in Nat
          BY <1>2, <3>1
        <5>4. Without(w, 1) = [x \in 1..(Len(w) - 1) |-> w[x + 1]]
          BY <5>3 DEF Without
        <5> QED BY <5>2, <5>3, <5>4
      <4> QED BY <1>2, <4>1, WithoutIs
    <3>4. o \notin ToSet(Tail(w))
      BY <2>3, <3>3
    <3>5. Used(v, o) = Append(Tail(w), o) /\ ToSet(Used(v, o)) = ToSet(Tail(w)) \cup {o}
      BY <3>2, <3>3, <3>4, UsedIs
    <3> QED BY <1>1, <1>3, <2>2, <3>1, <3>2, <3>3, <3>5 DEF Keeps, d
  <2>5. CASE ~(Len(w) >= BLOCK_CACHE_CAP)
    <3>1. out = {} /\ v = w
      BY <1>5, <2>5
    <3>2. Len(w) < BLOCK_CACHE_CAP
      BY <1>2, <1>4, <2>5
    <3>3. Used(w, o) = Window(Used(r, o))
      BY <1>1, <2>3, <3>2, WindowMissFree
    <3>4. ToSet(Used(w, o)) = ToSet(w) \cup {o}
      BY <1>2, UsedIs
    <3> QED BY <1>1, <1>3, <2>2, <3>1, <3>3, <3>4 DEF Keeps, d
  <2> QED BY <2>4, <2>5
<1> QED BY <1>6, <1>7

\* A lookup uses a block exactly if it reads one.
LEMMA LookupKeeps ==
    ASSUME NEW sst, NEW t, Written(sst, t), NEW k \in Keys, NEW r, Keeps(sst.cache, r)
    PROVE  LET g == SST!get(sst, k)
           IN  Keeps(g.cache, IF SST!reads_block(sst, k) /\ g.entry # Err
                                THEN Used(r, SST!block_of(sst, k)) ELSE r)
<1> DEFINE s == SST!flush(t)
           g == SST!get(sst, k)
           o == SST!block_of(sst, k)
           b == SST!cached_block(sst, o)
           rs == SST!read_block_from_disk(sst, o)
<1>1. /\ t \in Table /\ IsRecord(sst) /\ SameFooter(sst, s)
      /\ \A x \in DOMAIN sst.cache.blocks :
             x \in DOMAIN s.file /\ sst.cache.blocks[x] = s.file[x]
  BY DEF Written
<1>2. sst.cache = [blocks |-> sst.cache.blocks, lru |-> sst.cache.lru]
  BY <1>1 DEF IsRecord
<1>3. CASE ~SST!reads_block(sst, k)
  <2>1. g = [entry |-> Absent, cache |-> sst.cache]
    BY <1>3 DEF SST!get
  <2> QED BY <1>3, <2>1
<1>4. CASE SST!reads_block(sst, k)
  <2>1. g = [entry |-> IF b.records = Err THEN Err ELSE SST!find_in_block(b.records, k),
             cache |-> b.cache]
    BY <1>4 DEF SST!get
  <2>2. \/ g.entry = t[k]
        \/ g.entry = Err /\ sst.file[o] = Damaged /\ o \notin DOMAIN sst.cache.blocks
    BY GetExact
  <2>3. t[k] # Err
    BY <1>1, OutcomesAssumption DEF Table
  <2>4. o \in Nat
    <3>1. SST!reads_block(s, k) /\ o = SST!block_of(s, k)
      <4> HIDE DEF s
      <4> QED BY <1>1, <1>4, SameLookup
    <3>2. o \in DOMAIN s.file
      BY <1>1, <3>1, FlushServes
    <3>3. PICK i \in 1..Len(s.index) : o = s.index[i].block_offset
      BY <1>1, <3>2, FlushServes
    <3>4. s.index \in Seq(IndexEntries)
      BY <1>1, FlushServes
    <3> HIDE DEF s
    <3>5. s.index[i] \in IndexEntries
      BY <3>4
    <3> QED BY <3>3, <3>5 DEF IndexEntries
  <2> HIDE DEF o
  <2>5. CASE o \in DOMAIN sst.cache.blocks
    <3>1. b.cache = SST!Cache!get(sst.cache, o)
      BY <2>5 DEF SST!cached_block, SST!Cache!has
    <3> HIDE DEF b
    <3>2. g.cache = SST!Cache!get(sst.cache, o)
      BY <2>1, <3>1
    <3> HIDE DEF g
    <3>3. Keeps(g.cache, Used(r, o))
      BY <1>2, <2>5, <3>2, GetKeeps
    <3> QED BY <1>4, <2>2, <2>3, <2>5, <3>3 DEF g, o
  <2>6. CASE o \notin DOMAIN sst.cache.blocks
    <3>a. rs # Err => sst.file[o] # Damaged
      BY DEF SST!read_block_from_disk
    <3>1. b = [records |-> rs, cache |-> IF rs = Err THEN sst.cache
                                         ELSE SST!Cache!put(sst.cache, o, rs)]
      BY <2>6 DEF SST!cached_block, SST!Cache!has
    <3> HIDE DEF rs
    <3>2. CASE rs = Err
      <4>1. b.records = Err /\ b.cache = sst.cache
        BY <3>1, <3>2
      <4> HIDE DEF b
      <4>2. g.entry = Err /\ g.cache = sst.cache
        BY <2>1, <4>1
      <4> HIDE DEF g
      <4> QED BY <4>2 DEF g
    <3>3. CASE rs # Err
      <4>1. b.records = rs /\ b.cache = SST!Cache!put(sst.cache, o, rs)
        BY <3>1, <3>3
      <4> HIDE DEF b
      <4>2. g.entry = SST!find_in_block(rs, k) /\ g.cache = SST!Cache!put(sst.cache, o, rs)
        BY <2>1, <3>3, <4>1
      <4>3. Keeps(g.cache, Used(r, o))
        <5> HIDE DEF g
        <5> QED BY <1>2, <2>4, <2>6, <4>2, PutKeeps
      <4>4. g.entry # Err
        BY <2>2, <2>3, <3>a, <3>3
      <4> HIDE DEF g
      <4> QED BY <1>4, <4>3, <4>4 DEF g, o
    <3> QED BY <3>2, <3>3
  <2> QED BY <2>5, <2>6
<1> QED BY <1>3, <1>4

Fresh(sst) == sst.cache = SST!Cache!new

LEMMA FlushFresh ==
    ASSUME NEW t
    PROVE  Fresh(SST!flush(t))
<1> DEFINE f == SST!with_partial_block(
                    (CHOOSE it : FoldSteps(it, t, Ascending(KeysOf(t))))[DOMAIN Ascending(KeysOf(t))])
<1>1. SST!flush(t) = SstOf(t, f)
  BY FlushFolds
<1> HIDE DEF f
<1> QED BY <1>1 DEF SstOf, Fresh

\* The SSTables new are the old ones, the old ones below a new one, or a new one.
Reshaped(new, old) ==
    \/ new = old
    \/ \E sst : new = <<sst>> \o old /\ Fresh(sst)
    \/ new = << >>
    \/ \E sst : new = <<sst>> /\ Fresh(sst)

LEMMA CompactReshapes ==
    ASSUME NEW s, s = [data |-> s.data, sstables |-> s.sstables]
    PROVE  \/ compact(s).sstables = s.sstables
           \/ compact(s).sstables = << >>
           \/ \E sst : compact(s).sstables = <<sst>> /\ Fresh(sst)
<1> DEFINE tables == [i \in 1..Len(s.sstables) |-> SST!read_all_entries(s.sstables[i])]
           merged == Live(Layers(tables))
           ssts == IF merged = EmptyTable THEN << >> ELSE <<SST!flush(merged)>>
<1>1. CASE Len(s.sstables) < 2 \/ Err \in ToSet(tables)
  <2>1. compact(s) = s
    BY <1>1 DEF compact
  <2> QED BY <2>1
<1>2. CASE ~(Len(s.sstables) < 2 \/ Err \in ToSet(tables))
  <2>1. compact(s) = [s EXCEPT !.sstables = ssts]
    BY <1>2 DEF compact, Layers
  <2> HIDE DEF ssts, tables
  <2>2. compact(s) = [data |-> s.data, sstables |-> ssts]
    BY <2>1
  <2>3. compact(s).sstables = ssts
    BY <2>2
  <2> HIDE DEF merged
  <2> QED BY <2>3, FlushFresh DEF ssts
<1> QED BY <1>1, <1>2

LEMMA FlushReshapes ==
    ASSUME NEW s, s = [data |-> s.data, sstables |-> s.sstables]
    PROVE  Reshaped(flush(s).sstables, s.sstables)
<1>1. CASE s.data = EmptyTable
  BY <1>1 DEF flush, Reshaped
<1>2. CASE s.data # EmptyTable
  <2> DEFINE r == [data |-> EmptyTable, sstables |-> <<SST!flush(s.data)>> \o s.sstables]
  <2>1. flush(s) = maybe_compact(r)
    BY <1>2 DEF flush
  <2>2. r.sstables = <<SST!flush(s.data)>> \o s.sstables
        /\ r = [data |-> r.data, sstables |-> r.sstables]
    OBVIOUS
  <2> HIDE DEF r
  <2>3. flush(s) = r \/ flush(s) = compact(r)
    BY <2>1 DEF maybe_compact
  <2> QED BY <2>2, <2>3, CompactReshapes, FlushFresh DEF Reshaped
<1> QED BY <1>1, <1>2

\* Every cache has the blocks of its table that were used last.
Caches(ssts, rs) ==
    /\ rs \in Seq(Seq(Nat)) /\ Len(rs) = Len(ssts)
    /\ \A i \in 1..Len(rs) : Keeps(ssts[i].cache, rs[i])

LEMMA NoCaches ==
    Caches(<< >>, << >>)
BY DEF Caches

LEMMA CachesWithFirst ==
    ASSUME NEW sst, Fresh(sst), NEW ssts, ssts \in Seq(ToSet(ssts)), NEW rs, Caches(ssts, rs)
    PROVE  Caches(<<sst>> \o ssts, << << >> >> \o rs)
<1> DEFINE a == <<sst>> \o ssts
           b == << << >> >> \o rs
           n == Len(rs)
<1>1. rs \in Seq(Seq(Nat)) /\ n \in Nat /\ Len(ssts) = n
  BY DEF Caches
<1>2. \A i \in 1..n : Keeps(ssts[i].cache, rs[i])
  BY DEF Caches
<1>3. Len(a) = n + 1 /\ a[1] = sst /\ \A i \in 1..n : a[i + 1] = ssts[i]
  BY <1>1
<1>4. << >> \in Seq(Nat)
  OBVIOUS
<1>5. /\ b \in Seq(Seq(Nat)) /\ Len(b) = n + 1 /\ b[1] = << >>
      /\ \A i \in 1..n : b[i + 1] = rs[i]
  BY <1>1, <1>4
<1> HIDE DEF a, b, n
<1>6. ASSUME NEW i \in 1..(n + 1) PROVE Keeps(a[i].cache, b[i])
  <2>1. CASE i = 1
    BY <1>3, <1>5, <2>1, NewKeeps DEF Fresh
  <2>2. CASE i # 1
    <3>1. PICK j \in 1..n : i = j + 1
      <4>1. i - 1 \in 1..n /\ i = (i - 1) + 1
        BY <1>1, <2>2
      <4> QED BY <4>1
    <3>2. a[i] = ssts[j] /\ b[i] = rs[j]
      BY <1>3, <1>5, <3>1
    <3> QED BY <1>2, <3>2
  <2> QED BY <2>1, <2>2
<1> QED BY <1>3, <1>5, <1>6 DEF Caches, a, b

LEMMA BecomeKeeps ==
    ASSUME NEW s, Reshaped(s.sstables, sstables), Become(s),
           sstables \in Seq(ToSet(sstables)), Caches(sstables, recent)
    PROVE  Caches(sstables', recent')
<1> DEFINE new == s.sstables
<1>1. /\ sstables' = new
      /\ recent' = CASE new = sstables -> recent
                     [] Len(new) > Len(sstables) -> << << >> >> \o recent
                     [] OTHER -> [i \in 1..Len(new) |-> << >>]
  BY DEF Become
<1>2. Reshaped(new, sstables)
  OBVIOUS
<1>3. recent \in Seq(Seq(Nat)) /\ Len(recent) = Len(sstables) /\ Len(sstables) \in Nat
  BY DEF Caches
<1> HIDE DEF new
<1>4. CASE new = sstables
  <2>1. recent' = recent
    BY <1>1, <1>4
  <2> QED BY <1>1, <1>4, <2>1
<1>5. ASSUME NEW sst, new = <<sst>> \o sstables, Fresh(sst) PROVE Caches(sstables', recent')
  <2>1. Len(new) = Len(sstables) + 1
    BY <1>5
  <2>2. Len(new) > Len(sstables) /\ new # sstables
    BY <1>3, <2>1
  <2>3. recent' = << << >> >> \o recent
    BY <1>1, <2>2
  <2> QED BY <1>1, <1>5, <2>3, CachesWithFirst
<1>6. CASE new = << >> /\ new # sstables
  <2>1. Len(new) = 0
    BY <1>6
  <2>2. ~(Len(new) > Len(sstables))
    BY <1>3, <2>1
  <2>3. recent' = [i \in 1..Len(new) |-> << >>]
    BY <1>1, <1>6, <2>2
  <2>4. recent' = << >>
    BY <2>1, <2>3
  <2> QED BY <1>1, <1>6, <2>4, NoCaches
<1>7. ASSUME NEW sst, new = <<sst>>, Fresh(sst), new # sstables
      PROVE  Caches(sstables', recent')
  <2>1. Len(new) = 1 /\ new[1] = sst
    BY <1>7
  <2>2. CASE Len(sstables) = 0
    <3>1. sstables = << >>
      BY <2>2
    <3>2. new = <<sst>> \o sstables
      BY <1>7, <3>1
    <3> QED BY <1>5, <1>7, <3>2
  <2>3. CASE Len(sstables) # 0
    <3>1. ~(Len(new) > Len(sstables))
      BY <1>3, <2>1, <2>3
    <3>2. recent' = [i \in 1..Len(new) |-> << >>]
      BY <1>1, <1>7, <3>1
    <3>3. recent' = [i \in 1..1 |-> << >>]
      BY <2>1, <3>2
    <3>4. recent' \in Seq(Seq(Nat)) /\ Len(recent') = 1 /\ recent'[1] = << >>
      BY <3>3
    <3> QED BY <1>1, <1>7, <2>1, <3>4, NewKeeps DEF Caches, Fresh
  <2> QED BY <2>2, <2>3
<1> QED BY <1>2, <1>4, <1>5, <1>6, <1>7 DEF Reshaped

LruInv == Caches(sstables, recent)

LEMMA SameCaches ==
    ASSUME NEW ssts, NEW rs, Caches(sstables, recent), rs \in Seq(Seq(Nat)),
           Len(ssts) = Len(sstables), Len(rs) = Len(sstables),
           \A i \in 1..Len(sstables) : Keeps(ssts[i].cache, rs[i])
    PROVE  Caches(ssts, rs)
BY DEF Caches

LEMMA NextLruInv == ReadInv /\ LruInv /\ [Next]_vars => LruInv'
<1> SUFFICES ASSUME ReadInv, LruInv, [Next]_vars PROVE LruInv'
  OBVIOUS
<1>1. /\ store.data = data /\ store.sstables = sstables
      /\ store = [data |-> store.data, sstables |-> store.sstables]
  BY DEF store
<1>2. PICK ts : Opened(sstables, ts)
  BY <1>1 DEF ReadInv, Serves
<1>3. /\ Len(ts) = Len(sstables) /\ Len(sstables) \in Nat
      /\ \A i \in 1..Len(sstables) : Written(sstables[i], ts[i])
      /\ sstables \in Seq(ToSet(sstables))
  BY <1>2 DEF Opened
<1> DEFINE n == Len(sstables)
<1>4. Caches(sstables, recent)
  BY DEF LruInv
<1>5. /\ recent \in Seq(Seq(Nat)) /\ Len(recent) = n
      /\ \A i \in 1..n : Keeps(sstables[i].cache, recent[i])
  BY <1>4 DEF Caches
<1>6. ASSUME NEW s, Reshaped(s.sstables, sstables), Become(s)
      PROVE  LruInv'
  BY <1>3, <1>4, <1>6, BecomeKeeps DEF LruInv
<1>7. ASSUME NEW b, Write(b) PROVE LruInv'
  <2> DEFINE r == [store EXCEPT !.data = Overlay(@, b)]
  <2>1. r = [data |-> Overlay(data, b), sstables |-> sstables]
    BY DEF store
  <2>2. r.sstables = sstables /\ r = [data |-> r.data, sstables |-> r.sstables]
    BY <2>1
  <2>3. Become(maybe_flush(r))
    BY <1>7 DEF Write
  <2> HIDE DEF r
  <2>4. maybe_flush(r) = r \/ maybe_flush(r) = flush(r)
    BY DEF maybe_flush
  <2>5. Reshaped(maybe_flush(r).sstables, sstables)
    BY <2>2, <2>4, FlushReshapes DEF Reshaped
  <2> QED BY <1>6, <2>3, <2>5
<1>8. ASSUME UNCHANGED <<sstables, recent>> PROVE LruInv'
  BY <1>8 DEF LruInv
<1>9. CASE write
  BY <1>7, <1>9 DEF write
<1>10. CASE txn_write
  BY <1>8, <1>10 DEF txn_write
<1>11. CASE txn_commit
  BY <1>7, <1>11 DEF txn_commit
<1>12. CASE rollback
  BY <1>8, <1>12 DEF rollback
<1>13. CASE call_flush
  <2>1. Reshaped(flush(store).sstables, sstables)
    BY <1>1, FlushReshapes
  <2> QED BY <1>6, <1>13, <2>1 DEF call_flush
<1>14. CASE call_compact
  <2>1. Reshaped(compact(store).sstables, sstables)
    BY <1>1, CompactReshapes DEF Reshaped
  <2> QED BY <1>6, <1>14, <2>1 DEF call_compact
<1>15. CASE get
  <2> DEFINE rs(k) == [i \in 1..Len(recent) |->
                          IF ReadsBlock(i, k)
                            THEN Used(recent[i], SST!block_of(sstables[i], k))
                            ELSE recent[i]]
  <2>1. PICK k \in Keys : sstables' = after_get(store, k) /\ recent' = rs(k)
    BY <1>15 DEF get
  <2> DEFINE a == after_get(store, k)
             g(i) == SST!get(sstables[i], k)
             u(i) == IF SST!reads_block(sstables[i], k) /\ g(i).entry # Err
                       THEN Used(recent[i], SST!block_of(sstables[i], k)) ELSE recent[i]
  <2>2. \A i \in 1..n : Keeps(g(i).cache, u(i))
    <3> TAKE i \in 1..n
    <3> QED BY <1>3, <1>5, LookupKeeps
  <2>3. \A i \in 1..n : probes(store, k)[i] = g(i)
    BY <1>1 DEF probes
  <2>4. \A i \in 1..n : rs(k)[i] = IF i <= asked(store, k) THEN u(i) ELSE recent[i]
    BY <1>5, <2>3 DEF ReadsBlock
  <2>5. \A i \in 1..n : a[i] = IF i <= asked(store, k)
                                  THEN [sstables[i] EXCEPT !.cache = g(i).cache]
                                  ELSE sstables[i]
    BY <1>1, <2>3 DEF after_get
  <2>6. Len(a) = n
    BY <1>1, <1>3 DEF after_get
  <2>7. rs(k) = [i \in 1..n |-> rs(k)[i]]
    BY <1>5
  <2>8. ASSUME NEW i \in 1..n PROVE Keeps(a[i].cache, rs(k)[i])
    <3>1. CASE i <= asked(store, k)
      <4> DEFINE sst == sstables[i]
                 c == g(i).cache
      <4>1. IsRecord(sst)
        BY <1>3 DEF Written
      <4>2. a[i] = [sst EXCEPT !.cache = c]
        BY <2>5, <3>1
      <4> HIDE DEF c, sst
      <4>3. [sst EXCEPT !.cache = c].cache = c
        BY <4>1 DEF IsRecord
      <4>4. a[i].cache = g(i).cache
        BY <4>2, <4>3 DEF c
      <4>5. rs(k)[i] = u(i)
        BY <2>4, <3>1
      <4> HIDE DEF a, u, rs, g
      <4> QED BY <2>2, <4>4, <4>5
    <3>2. CASE ~(i <= asked(store, k))
      <4> HIDE DEF a, u, rs, g
      <4>1. a[i] = sstables[i] /\ rs(k)[i] = recent[i]
        BY <2>4, <2>5, <3>2
      <4> QED BY <1>5, <4>1
    <3> QED BY <3>1, <3>2
  <2>9. rs(k) \in Seq(Seq(Nat)) /\ Len(rs(k)) = n
    <3>1. \A i \in 1..n : rs(k)[i] \in Seq(Nat)
      BY <2>8 DEF Keeps
    <3> HIDE DEF rs
    <3> QED BY <1>3, <2>7, <3>1
  <2> HIDE DEF a, rs, g, u
  <2>10. Caches(a, rs(k))
    BY <1>4, <2>6, <2>8, <2>9, SameCaches
  <2> QED BY <2>1, <2>10 DEF LruInv, a
<1>16. CASE reopen
  <2> DEFINE a == [i \in 1..n |-> SST!open(sstables[i])]
             rs == [i \in 1..n |-> << >>]
  <2>1. sstables' = a /\ recent' = rs
    BY <1>16 DEF reopen
  <2>2. Len(a) = n /\ Len(rs) = n /\ rs \in Seq(Seq(Nat))
    BY <1>3
  <2>3. ASSUME NEW i \in 1..n PROVE Keeps(a[i].cache, rs[i])
    <3> DEFINE sst == sstables[i]
               c == SST!Cache!new
    <3>1. IsRecord(sst)
      BY <1>3 DEF Written
    <3>2. a[i] = [sst EXCEPT !.cache = c]
      BY DEF SST!open
    <3> HIDE DEF c, sst
    <3>3. a[i].cache = c
      BY <3>1, <3>2 DEF IsRecord
    <3> QED BY <3>3, NewKeeps DEF c
  <2> HIDE DEF a, rs
  <2>4. Caches(a, rs)
    BY <1>4, <2>2, <2>3, SameCaches
  <2> QED BY <2>1, <2>4 DEF LruInv
<1>17. CASE damage
  <2>1. PICK i \in 1..n : \E o \in DOMAIN sstables[i].file :
               sstables' = [sstables EXCEPT ![i].file[o] = Damaged]
    BY <1>17 DEF damage
  <2>2. PICK o \in DOMAIN sstables[i].file :
               sstables' = [sstables EXCEPT ![i].file[o] = Damaged]
    BY <2>1
  <2> DEFINE sst == sstables[i]
             x == [sst EXCEPT !.file[o] = Damaged]
             a == [sstables EXCEPT ![i] = x]
  <2>3. sstables' = a /\ recent' = recent
    BY <1>17, <2>2 DEF damage
  <2>4. x.cache = sst.cache
    <3>1. IsRecord(sst)
      BY <1>3 DEF Written
    <3> HIDE DEF sst
    <3> QED BY <3>1 DEF IsRecord
  <2> HIDE DEF x
  <2>5. Len(a) = n /\ \A j \in 1..n : a[j].cache = sstables[j].cache
    BY <1>3, <2>4
  <2> HIDE DEF a
  <2>6. Caches(a, recent)
    BY <1>4, <1>5, <2>5, SameCaches
  <2> QED BY <2>3, <2>6 DEF LruInv
<1>18. CASE UNCHANGED vars
  BY <1>8, <1>18 DEF vars
<1> QED BY <1>9, <1>10, <1>11, <1>12, <1>13, <1>14, <1>15, <1>16, <1>17, <1>18 DEF Next

(***************************************************************************)
(* For every capacity, 0 and 1 included, and whatever lookups, flushes,    *)
(* compactions and reopenings come in which order, the cache of a table    *)
(* has exactly the blocks that lookups used last, in the order of use, and *)
(* its map and its queue agree (BlockCache::get, put and touch).           *)
(***************************************************************************)
THEOREM CacheStaysLru == Spec => []CacheIsLru
<1>1. Init => LruInv
  BY NoCaches DEF Init, LruInv
<1>2. LruInv => CacheIsLru
  <2> SUFFICES ASSUME LruInv PROVE CacheIsLru
    OBVIOUS
  <2>1. /\ recent \in Seq(Seq(Nat)) /\ Len(recent) = Len(sstables)
        /\ \A i \in 1..Len(sstables) : Keeps(sstables[i].cache, recent[i])
    BY DEF LruInv, Caches
  <2>2. SUFFICES ASSUME NEW i \in 1..Len(sstables)
                 PROVE  LET c == sstables[i].cache
                            n == Len(recent[i])
                        IN  /\ DOMAIN c.blocks = ToSet(c.lru)
                            /\ c.lru = SubSeq(recent[i], Max({n - BLOCK_CACHE_CAP, 0}) + 1, n)
    BY DEF CacheIsLru
  <2> DEFINE c == sstables[i].cache
             r == recent[i]
             d == Len(r) - BLOCK_CACHE_CAP
  <2>3. r \in Seq(Nat) /\ c.lru = Window(r) /\ DOMAIN c.blocks = ToSet(c.lru)
    BY <2>1 DEF Keeps
  <2> HIDE DEF r
  <2>4. Max({d, 0}) = Before(r)
    <3>1. d \in Int /\ Len(r) \in Nat /\ BLOCK_CACHE_CAP \in Nat
      BY <2>3, LimitsAssumption
    <3>2. Before(r) = IF d > 0 THEN d ELSE 0
      BY <3>1 DEF Before
    <3> HIDE DEF d
    <3> QED BY <3>1, <3>2 DEF Max
  <2>5. c.lru = SubSeq(r, Max({d, 0}) + 1, Len(r))
    BY <2>3, <2>4 DEF Window, Before
  <2> QED BY <2>3, <2>5 DEF r
<1> QED BY <1>1, <1>2, InitReadInv, NextReadInv, NextLruInv, PTL DEF Spec

=============================================================================
