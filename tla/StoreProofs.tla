---------------------------- MODULE StoreProofs ----------------------------
(***************************************************************************)
(* Proofs about Store for every set of keys, values, limits and faults.    *)
(***************************************************************************)
EXTENDS Store, LsmProofs

(***************************************************************************)
(* Recovery of the log: its results have the right types, and recovering a *)
(* recovered log changes nothing.                                          *)
(***************************************************************************)

\* A sequence of records is a function on 1..Len.
LEMMA LogIsFunction ==
    ASSUME NEW w \in Seq(Record)
    PROVE  Len(w) \in Nat /\ \A i \in 1..Len(w) : w[i] \in Record
OBVIOUS

LEMMA DecodedBound ==
    ASSUME NEW w \in Seq(Record)
    PROVE  /\ decoded(w) \in 0..Len(w)
           /\ \A i \in 1..decoded(w) : w[i].op # "torn"
<1> DEFINE cuts == At(w, {"torn"})
<1>1. Len(w) \in Nat
  OBVIOUS
<1>2. cuts \in SUBSET Nat /\ cuts \in SUBSET (1..Len(w))
  BY DEF At
<1>3. \A i \in 1..Len(w) : w[i].op = "torn" <=> i \in cuts
  BY DEF At
<1>4. decoded(w) = IF cuts = {} THEN Len(w) ELSE Min(cuts) - 1
  BY DEF decoded
<1> HIDE DEF cuts
<1>5. CASE cuts = {}
  BY <1>1, <1>3, <1>4, <1>5
<1>6. CASE cuts # {}
  <2>1. Min(cuts) \in cuts /\ \A y \in cuts : Min(cuts) <= y
    BY <1>2, <1>6, MinOfNats
  <2>2. Min(cuts) \in 1..Len(w)
    BY <1>2, <2>1
  <2>3. decoded(w) = Min(cuts) - 1
    BY <1>4, <1>6
  <2>4. ASSUME NEW i \in 1..decoded(w)
        PROVE  w[i].op # "torn"
    <3>1. i \in 1..Len(w) /\ i < Min(cuts)
      BY <1>1, <2>2, <2>3
    <3>2. i \notin cuts
      BY <2>1, <2>2, <3>1
    <3> QED BY <1>3, <3>1, <3>2
  <2> QED BY <1>1, <2>2, <2>3, <2>4
<1> QED BY <1>5, <1>6

\* The COMMIT markers parse_buffer sees.
Commits(w) == {i \in 1..decoded(w) : w[i].op = "commit"}

\* parse_buffer stops at the last COMMIT before anything torn.
LEMMA ParseBound ==
    ASSUME NEW w \in Seq(Record)
    PROVE  /\ parse_buffer(w) \in 0..decoded(w)
           /\ parse_buffer(w) \in 0..Len(w)
           /\ parse_buffer(w) # 0 => parse_buffer(w) \in Commits(w)
           /\ \A i \in Commits(w) : i <= parse_buffer(w)
<1>1. Len(w) \in Nat /\ decoded(w) \in 0..Len(w)
  BY DecodedBound
<1>2. Commits(w) \in SUBSET Nat /\ \A i \in Commits(w) : i <= decoded(w) /\ i >= 1
  BY <1>1 DEF Commits
<1>3. parse_buffer(w) = IF Commits(w) = {} THEN 0 ELSE Max(Commits(w))
  BY DEF parse_buffer, Commits
<1>4. CASE Commits(w) = {}
  BY <1>1, <1>3, <1>4
<1>5. CASE Commits(w) # {}
  <2>0. decoded(w) \in Nat /\ \A i \in Commits(w) : i <= decoded(w)
    BY <1>1, <1>2
  <2>1. Max(Commits(w)) \in Commits(w) /\ \A y \in Commits(w) : Max(Commits(w)) >= y
    BY <1>2, <1>5, <2>0, MaxOfBounded
  <2> QED BY <1>1, <1>2, <1>3, <1>5, <2>1
<1> QED BY <1>4, <1>5

\* Recovery keeps a prefix of the log.
LEMMA RecoveryIsPrefix ==
    ASSUME NEW w \in Seq(Record)
    PROVE  /\ read_for_recovery(w) \in Seq(Record)
           /\ Len(read_for_recovery(w)) = parse_buffer(w)
           /\ \A i \in 1..parse_buffer(w) : read_for_recovery(w)[i] = w[i]
<1>1. Len(w) \in Nat /\ parse_buffer(w) \in 0..Len(w)
  BY ParseBound
<1> QED BY <1>1 DEF read_for_recovery

\* The entry a replay gives a key is one the log holds.
LEMMA ReplayType ==
    ASSUME NEW w \in Seq(Record)
    PROVE  replay_wal(w) \in Table
<1> DEFINE n == parse_buffer(w)
<1>1. Len(w) \in Nat /\ n \in 0..Len(w)
  BY ParseBound
<1> HIDE DEF n
<1>2. ASSUME NEW k \in Keys
      PROVE  LastEntry(w, n, k) \in Entry \cup {Absent}
  <2> DEFINE writes == {i \in 1..n : w[i].op \in {"put", "delete"} /\ w[i].key = k}
  <2>1. LastEntry(w, n, k) = IF writes = {} THEN Absent ELSE w[Max(writes)].entry
    BY DEF LastEntry
  <2>2. n \in Nat /\ writes \in SUBSET Nat /\ \A i \in writes : i <= n /\ i \in 1..Len(w)
    BY <1>1
  <2>3. CASE writes = {}
    BY <2>1, <2>3
  <2>4. CASE writes # {}
    <3>1. Max(writes) \in writes
      <4> HIDE DEF writes
      <4> QED BY <2>2, <2>4, MaxOfBounded
    <3>2. w[Max(writes)] \in Record
      BY <2>2, <3>1
    <3>3. w[Max(writes)].entry \in Entry \cup {Absent}
      BY <3>2 DEF Record
    <3> QED BY <2>1, <2>4, <3>3
  <2> QED BY <2>3, <2>4
<1>3. replay_wal(w) = [k \in Keys |-> LastEntry(w, n, k)]
  BY DEF replay_wal, n
<1> QED BY <1>2, <1>3 DEF Table

LEMMA ReplaySequenceType ==
    ASSUME NEW w \in Seq(Record)
    PROVE  /\ replay_sequence(w) \in Nat
           /\ \A i \in 1..parse_buffer(w) : w[i].sequence <= replay_sequence(w)
<1> DEFINE n == parse_buffer(w)
           T == {w[i].sequence : i \in 1..n}
           f == [i \in 1..n |-> w[i].sequence]
<1>1. Len(w) \in Nat /\ n \in 0..Len(w)
  BY ParseBound
<1>2. T \in SUBSET Nat
  <2> HIDE DEF n
  <2>1. \A i \in 1..n : w[i].sequence \in Nat
    <3> TAKE i \in 1..n
    <3>1. w[i] \in Record
      BY <1>1
    <3> QED BY <3>1 DEF Record
  <2> QED BY <2>1
<1>3. IsFiniteSet({0} \cup T)
  <2>1. IsFiniteSet(1..n)
    BY <1>1, FS_Interval
  <2>2. f \in Surjection(1..n, T)
    <3> HIDE DEF n
    <3> QED BY DEF Surjection
  <2>3. IsFiniteSet(T)
    <3> HIDE DEF f, T, n
    <3> QED BY <2>1, <2>2, FS_Surjection
  <2>4. IsFiniteSet(T \cup {0})
    <3> HIDE DEF T
    <3> QED BY <2>3, FS_AddElement
  <2>5. T \cup {0} = {0} \cup T
    OBVIOUS
  <2> QED BY <2>4, <2>5
<1>4. /\ Max({0} \cup T) \in {0} \cup T /\ Max({0} \cup T) \in Nat
      /\ \A y \in {0} \cup T : Max({0} \cup T) >= y
  <2> HIDE DEF T
  <2>1. ({0} \cup T) \in SUBSET Nat /\ ({0} \cup T) # {}
    BY <1>2
  <2> DEFINE U == {0} \cup T
  <2> HIDE DEF U
  <2>2. Max(U) \in U /\ \A y \in U : Max(U) >= y
    BY <1>3, <2>1, MaxOfFinite DEF U
  <2>3. Max(U) \in Nat
    BY <2>1, <2>2 DEF U
  <2> QED BY <2>2, <2>3 DEF U
<1>5. replay_sequence(w) = Max({0} \cup T)
  BY DEF replay_sequence
<1>6. \A i \in 1..n : w[i].sequence \in T
  OBVIOUS
<1> HIDE DEF T, n
<1>7. \A i \in 1..n : w[i].sequence <= replay_sequence(w)
  <2> TAKE i \in 1..n
  <2>1. w[i].sequence \in T
    BY <1>6
  <2>2. Max({0} \cup T) >= w[i].sequence
    BY <1>4, <2>1
  <2>3. w[i].sequence \in Nat /\ Max({0} \cup T) \in Nat
    BY <1>2, <1>4, <2>1
  <2> QED BY <1>5, <2>2, <2>3
<1>8. replay_sequence(w) \in Nat
  BY <1>2, <1>4, <1>5
<1> QED BY <1>7, <1>8 DEF n

\* Recovering a recovered log is the identity: reopening a table that crashed
\* again right after recovery finds the same committed prefix, the same
\* memtable and the same counter (wal.rs read_for_recovery, store.rs
\* replay_wal).
THEOREM RecoveryIdempotent ==
    ASSUME NEW w \in Seq(Record)
    PROVE  /\ read_for_recovery(read_for_recovery(w)) = read_for_recovery(w)
           /\ replay_wal(read_for_recovery(w)) = replay_wal(w)
           /\ replay_sequence(read_for_recovery(w)) = replay_sequence(w)
<1> DEFINE n == parse_buffer(w)
           r == read_for_recovery(w)
<1>1. /\ Len(w) \in Nat /\ n \in 0..Len(w) /\ n \in 0..decoded(w)
      /\ decoded(w) \in 0..Len(w)
      /\ \A i \in 1..decoded(w) : w[i].op # "torn"
      /\ n # 0 => n \in Commits(w)
  BY ParseBound, DecodedBound
<1>2. r \in Seq(Record) /\ Len(r) = n /\ \A i \in 1..n : r[i] = w[i]
  BY RecoveryIsPrefix
<1>3. parse_buffer(r) = n
  <2>0. n # 0 => w[n].op = "commit"
    BY <1>1 DEF Commits
  <2> HIDE DEF r, n
  <2>1. At(r, {"torn"}) = {}
    <3>1. \A i \in 1..n : r[i].op # "torn"
      BY <1>1, <1>2
    <3> QED BY <1>2, <3>1 DEF At
  <2>2. decoded(r) = n
    BY <1>2, <2>1 DEF decoded
  <2>3. parse_buffer(r) \in 0..n
    BY <1>2, <2>2, ParseBound
  <2>4. n # 0 => n \in Commits(r)
    BY <1>1, <1>2, <2>0, <2>2 DEF Commits
  <2>5. n # 0 => n <= parse_buffer(r)
    BY <1>2, <2>4, ParseBound
  <2> QED BY <1>1, <2>3, <2>5
<1>4. read_for_recovery(r) = r
  <2> HIDE DEF r, n
  <2>1. read_for_recovery(r) \in Seq(Record) /\ Len(read_for_recovery(r)) = n
        /\ \A i \in 1..n : read_for_recovery(r)[i] = r[i]
    BY <1>2, <1>3, RecoveryIsPrefix
  <2> QED BY <1>2, <2>1
<1>5. replay_wal(r) = replay_wal(w)
  <2>1. \A k \in Keys : LastEntry(r, n, k) = LastEntry(w, n, k)
    <3> TAKE k \in Keys
    <3> HIDE DEF r, n
    <3> DEFINE wr == {i \in 1..n : r[i].op \in {"put", "delete"} /\ r[i].key = k}
               ww == {i \in 1..n : w[i].op \in {"put", "delete"} /\ w[i].key = k}
    <3>1. wr = ww
      BY <1>2
    <3>2. ww # {} => Max(ww) \in 1..n
      <4>1. n \in Nat /\ ww \in SUBSET Nat /\ \A i \in ww : i <= n /\ i \in 1..n
        BY <1>1
      <4> HIDE DEF ww
      <4>2. ww # {} => Max(ww) \in ww
        BY <4>1, MaxOfBounded
      <4> QED BY <4>1, <4>2
    <3>3. /\ LastEntry(r, n, k) = IF wr = {} THEN Absent ELSE r[Max(wr)].entry
          /\ LastEntry(w, n, k) = IF ww = {} THEN Absent ELSE w[Max(ww)].entry
      BY DEF LastEntry
    <3> HIDE DEF wr, ww
    <3> QED BY <1>2, <3>1, <3>2, <3>3
  <2>2. /\ replay_wal(r) = [k \in Keys |-> LastEntry(r, n, k)]
        /\ replay_wal(w) = [k \in Keys |-> LastEntry(w, n, k)]
    <3> HIDE DEF r
    <3> QED BY <1>3 DEF replay_wal
  <2> HIDE DEF r, n
  <2> QED BY <2>1, <2>2
<1>6. replay_sequence(r) = replay_sequence(w)
  <2>1. {r[i].sequence : i \in 1..n} = {w[i].sequence : i \in 1..n}
    <3> HIDE DEF r, n
    <3> QED BY <1>2
  <2>2. /\ replay_sequence(r) = Max({0} \cup {r[i].sequence : i \in 1..n})
        /\ replay_sequence(w) = Max({0} \cup {w[i].sequence : i \in 1..n})
    <3> HIDE DEF r
    <3> QED BY <1>3 DEF replay_sequence
  <2> HIDE DEF r, n
  <2> QED BY <2>1, <2>2
<1> QED BY <1>4, <1>5, <1>6

-----------------------------------------------------------------------------
(***************************************************************************)
(* The inductive invariant.  TypeOK is not inductive on its own: merging   *)
(* the open tables yields a table only if each of them is a file that      *)
(* exists, which is HandleOrder; and HandleOrder survives the clean-up of  *)
(* a compaction only if no doomed file is open, which is ObsoleteOnly.     *)
(***************************************************************************)
IndInv == TypeOK /\ HandleOrder /\ ObsoleteOnly

-----------------------------------------------------------------------------
\* Facts about the pieces of the actions.

LEMMA OneType ==
    ASSUME NEW k \in Keys, NEW e \in Entry
    PROVE  One(k, e) \in Table /\ KeysOf(One(k, e)) # {}
<1>1. One(k, e) = [EmptyTable EXCEPT ![k] = e]
  BY DEF One
<1>2. EmptyTable \in Table
  BY EmptyTableType
<1>3. One(k, e) \in Table
  BY <1>1, <1>2 DEF Table
<1>4. One(k, e)[k] = e /\ e # Absent
  BY <1>1, <1>2, MarkersAssumption DEF Table, Entry
<1> QED BY <1>3, <1>4 DEF KeysOf

LEMMA KeysOfNonempty ==
    ASSUME NEW t \in Table, t # EmptyTable
    PROVE  KeysOf(t) # {}
BY DEF KeysOf, Table, EmptyTable

\* Adding and removing files keeps the table set well formed.
LEMMA WithType ==
    ASSUME NEW fs, fs \in [DOMAIN fs -> Table], DOMAIN fs \subseteq Nat,
           IsFiniteSet(DOMAIN fs), NEW id \in Nat, NEW t \in Table
    PROVE  /\ DOMAIN With(fs, id, t) = DOMAIN fs \cup {id}
           /\ With(fs, id, t) \in [DOMAIN With(fs, id, t) -> Table]
           /\ DOMAIN With(fs, id, t) \subseteq Nat
           /\ IsFiniteSet(DOMAIN With(fs, id, t))
<1>1. DOMAIN With(fs, id, t) = DOMAIN fs \cup {id}
  BY DEF With
<1>2. IsFiniteSet(DOMAIN fs \cup {id})
  BY FS_AddElement
<1>3. With(fs, id, t) \in [DOMAIN fs \cup {id} -> Table]
  BY DEF With
<1> QED BY <1>1, <1>2, <1>3

LEMMA WithoutType ==
    ASSUME NEW fs, fs \in [DOMAIN fs -> Table], DOMAIN fs \subseteq Nat,
           IsFiniteSet(DOMAIN fs), NEW id
    PROVE  /\ DOMAIN Without(fs, {id}) = DOMAIN fs \ {id}
           /\ Without(fs, {id}) \in [DOMAIN Without(fs, {id}) -> Table]
           /\ DOMAIN Without(fs, {id}) \subseteq Nat
           /\ IsFiniteSet(DOMAIN Without(fs, {id}))
<1>1. DOMAIN Without(fs, {id}) = DOMAIN fs \ {id}
  BY DEF Without
<1>2. IsFiniteSet(DOMAIN fs \ {id})
  BY FS_RemoveElement
<1>3. Without(fs, {id}) \in [DOMAIN fs \ {id} -> Table]
  BY DEF Without
<1> QED BY <1>1, <1>2, <1>3

\* Compaction of the open tables of a well-formed store yields a table.
LEMMA MergedType ==
    ASSUME IndInv, pc # "closed"
    PROVE  merged \in Table
<1>1. Merge(files, sstables) \in Table
  BY MergeType DEF IndInv, TypeOK, HandleOrder
<1> QED BY <1>1, LiveType DEF merged

\* The id after every file's.
LEMMA FirstFreeId ==
    ASSUME NEW S \in SUBSET Nat, IsFiniteSet(S)
    PROVE  first_free_id(S) \in Nat \ {0} /\ \A x \in S : x < first_free_id(S)
<1> DEFINE U == {0} \cup S
<1>1. U \in SUBSET Nat /\ U # {} /\ 0 \in U
  OBVIOUS
<1>2. IsFiniteSet(U)
  <2>1. U = S \cup {0}
    OBVIOUS
  <2> QED BY <2>1, FS_AddElement
<1>3. first_free_id(S) = Max(U) + 1
  BY DEF first_free_id
<1>4. \A x \in S : x \in U
  OBVIOUS
<1> HIDE DEF U
<1>5. Max(U) \in U /\ \A y \in U : Max(U) >= y
  BY <1>1, <1>2, MaxOfFinite
<1>6. Max(U) \in Nat
  BY <1>1, <1>5
<1>7. \A x \in S : x <= Max(U)
  BY <1>1, <1>4, <1>5, <1>6
<1> QED BY <1>3, <1>6, <1>7

-----------------------------------------------------------------------------
\* Steps that leave the table set and its files alone need only keep types.
LEMMA SameTables ==
    ASSUME IndInv, TypeOK', pc # "closed", UNCHANGED <<tables, disk>>,
           doomed' \subseteq doomed
    PROVE  IndInv'
<1>1. HandleOrder'
  BY DEF IndInv, HandleOrder, tables, disk
<1>2. ObsoleteOnly'
  BY DEF IndInv, ObsoleteOnly, tables, SeqRange
<1> QED BY <1>1, <1>2 DEF IndInv

\* A session that ends leaves nothing open.
LEMMA DownKeeps ==
    ASSUME IndInv, Down, wal' \in Seq(Record), synced' \in Seq(Record),
           DOMAIN files' \subseteq Nat, IsFiniteSet(DOMAIN files'),
           files' \in [DOMAIN files' -> Table], torn' \subseteq Nat
    PROVE  IndInv'
<1>1. TypeOK'
  BY EmptyTableType, LimitsAssumption DEF IndInv, TypeOK, Down, Labels
<1>2. HandleOrder' /\ ObsoleteOnly'
  BY DEF Down, HandleOrder, ObsoleteOnly
<1> QED BY <1>1, <1>2 DEF IndInv

\* A call that starts to log a batch that is not empty.
LEMMA LogKeeps ==
    ASSUME IndInv, pc # "closed", NEW b \in Table, KeysOf(b) # {}, Log(b)
    PROVE  IndInv'
<1>1. TypeOK'
  BY DEF IndInv, TypeOK, Log, KeysOf, Labels, memtable, log, tables, disk
<1>2. UNCHANGED <<tables, disk>> /\ doomed' = doomed
  BY DEF Log
<1> QED BY <1>1, <1>2, SameTables

-----------------------------------------------------------------------------
\* Every initial state satisfies the invariant.
LEMMA InitInv == Init => IndInv
<1> SUFFICES ASSUME Init PROVE IndInv
  OBVIOUS
<1>1. DOMAIN files = {}
  BY DEF Init
<1>2. TypeOK
  BY <1>1, EmptyTableType, FS_EmptySet, LimitsAssumption DEF Init, TypeOK, Labels
<1>3. HandleOrder /\ ObsoleteOnly
  BY DEF Init, HandleOrder, ObsoleteOnly
<1> QED BY <1>2, <1>3 DEF IndInv

-----------------------------------------------------------------------------
(***************************************************************************)
(* Every step keeps the invariant: one lemma for each group of actions     *)
(* with the same frame, one step for each action.                          *)
(***************************************************************************)

\* The next key to log is a key, and the record made for it is a record.
LEMMA LogEntryType ==
    ASSUME IndInv, pc = "append", NEW n \in Nat
    PROVE  NextKey \in todo /\ log_entry(n) \in Record
<1>1. todo \in SUBSET Nat /\ todo # {} /\ todo \subseteq Keys
  BY KeysAssumption DEF IndInv, TypeOK
<1>2. NextKey \in todo
  BY <1>1, MinOfNats DEF NextKey
<1>3. pending[NextKey] \in Entry \cup {Absent}
  BY <1>1, <1>2 DEF IndInv, TypeOK, Table
<1>4. Tombstone \in Entry
  BY DEF Entry
<1> QED BY <1>1, <1>2, <1>3, <1>4 DEF log_entry, create_put_entry, create_delete_entry, Record

LEMMA MarkerTypes ==
    /\ torn_record \in Record
    /\ \A n \in Nat : commit_entry(n) \in Record
BY DEF torn_record, commit_entry, Record

\* A write_all that fails leaves a log.
LEMMA FailedWriteType ==
    ASSUME IndInv, FailedWrite
    PROVE  wal' \in Seq(Record)
<1>1. wal \in Seq(Record)
  BY DEF IndInv, TypeOK
<1>2. Append(wal, torn_record) \in Seq(Record)
  BY <1>1, MarkerTypes
<1>3. wal' = wal \/ wal' = Append(wal, torn_record)
  BY DEF FailedWrite
<1> QED BY <1>1, <1>2, <1>3

\* Logging a batch: append, write_commit, sync_all and their failures.
LEMMA LoggingKeeps ==
    ASSUME IndInv,
           \/ append \/ append_fails \/ write_commit \/ write_commit_fails
           \/ sync_commit \/ sync_commit_fails
    PROVE  IndInv'
<1>1. CASE append
  <2>1. log_entry(sequence + 1) \in Record /\ sequence + 1 \in Nat
    BY <1>1, LogEntryType DEF append, IndInv, TypeOK
  <2>2. TypeOK'
    BY <1>1, <2>1 DEF append, IndInv, TypeOK, Labels, memtable, tables, disk
  <2>3. pc # "closed" /\ UNCHANGED <<tables, disk>> /\ doomed' = doomed
    BY <1>1 DEF append
  <2> QED BY <2>2, <2>3, SameTables
<1>2. CASE append_fails
  <2>1. wal' \in Seq(Record)
    BY <1>2, FailedWriteType DEF append_fails
  <2>2. TypeOK'
    BY <1>2, <2>1, EmptyTableType
    DEF append_fails, Return, IndInv, TypeOK, Labels, memtable, tables, disk
  <2>3. pc # "closed" /\ UNCHANGED <<tables, disk>> /\ doomed' = {}
    BY <1>2 DEF append_fails, Return
  <2> QED BY <2>2, <2>3, SameTables
<1>3. CASE write_commit
  <2>1. wal' \in Seq(Record)
    BY <1>3, MarkerTypes DEF write_commit, IndInv, TypeOK
  <2>2. TypeOK'
    BY <1>3, <2>1 DEF write_commit, Goto, IndInv, TypeOK, Labels, memtable, tables, disk
  <2>3. pc # "closed" /\ UNCHANGED <<tables, disk>> /\ doomed' = doomed
    BY <1>3 DEF write_commit, Goto
  <2> QED BY <2>2, <2>3, SameTables
<1>4. CASE write_commit_fails
  <2>1. wal' \in Seq(Record)
    BY <1>4, FailedWriteType DEF write_commit_fails
  <2>2. TypeOK'
    BY <1>4, <2>1, EmptyTableType
    DEF write_commit_fails, Return, IndInv, TypeOK, Labels, memtable, tables, disk
  <2>3. pc # "closed" /\ UNCHANGED <<tables, disk>> /\ doomed' = {}
    BY <1>4 DEF write_commit_fails, Return
  <2> QED BY <2>2, <2>3, SameTables
<1>5. CASE sync_commit
  <2>1. TypeOK'
    BY <1>5 DEF sync_commit, sync_all, Goto, IndInv, TypeOK, Labels, memtable, tables, disk
  <2>2. pc # "closed" /\ UNCHANGED <<tables, disk>> /\ doomed' = doomed
    BY <1>5 DEF sync_commit, Goto
  <2> QED BY <2>1, <2>2, SameTables
<1>6. CASE sync_commit_fails
  <2>1. TypeOK'
    BY <1>6, EmptyTableType
    DEF sync_commit_fails, Return, IndInv, TypeOK, Labels, memtable, log, tables, disk
  <2>2. pc # "closed" /\ UNCHANGED <<tables, disk>> /\ doomed' = {}
    BY <1>6 DEF sync_commit_fails, Return
  <2> QED BY <2>1, <2>2, SameTables
<1> QED BY <1>1, <1>2, <1>3, <1>4, <1>5, <1>6

\* Steps of a call that only move memory and the log: apply, clear and
\* the end of a compaction.
LEMMA MemoryKeeps ==
    ASSUME IndInv, apply \/ clear \/ clear_fails \/ compacted
    PROVE  IndInv'
<1>1. CASE apply
  <2>1. data' \in Table
    BY <1>1, OverlayType DEF apply, IndInv, TypeOK
  <2>2. CASE Goto("flush")
    <3>1. TypeOK'
      BY <1>1, <2>1, <2>2 DEF apply, Goto, IndInv, TypeOK, Labels, log, tables, disk
    <3>2. pc # "closed" /\ UNCHANGED <<tables, disk>> /\ doomed' = doomed
      BY <1>1, <2>2 DEF apply, Goto
    <3> QED BY <3>1, <3>2, SameTables
  <2>3. CASE Return("ok")
    <3>1. TypeOK'
      BY <1>1, <2>1, <2>3, EmptyTableType
      DEF apply, Return, IndInv, TypeOK, Labels, log, tables, disk
    <3>2. pc # "closed" /\ UNCHANGED <<tables, disk>> /\ doomed' = {}
      BY <1>1, <2>3 DEF apply, Return
    <3> QED BY <3>1, <3>2, SameTables
  <2> QED BY <1>1, <2>2, <2>3 DEF apply
<1>2. CASE clear
  <2>1. wal' \in Seq(Record) /\ synced' \in Seq(Record)
    BY <1>2 DEF clear
  <2>2. CASE Goto("compact")
    <3>1. TypeOK'
      BY <1>2, <2>1, <2>2 DEF clear, Goto, IndInv, TypeOK, Labels, memtable, tables, disk
    <3>2. pc # "closed" /\ UNCHANGED <<tables, disk>> /\ doomed' = doomed
      BY <1>2, <2>2 DEF clear, Goto
    <3> QED BY <3>1, <3>2, SameTables
  <2>3. CASE Return("ok")
    <3>1. TypeOK'
      BY <1>2, <2>1, <2>3, EmptyTableType
      DEF clear, Return, IndInv, TypeOK, Labels, memtable, tables, disk
    <3>2. pc # "closed" /\ UNCHANGED <<tables, disk>> /\ doomed' = {}
      BY <1>2, <2>3 DEF clear, Return
    <3> QED BY <3>1, <3>2, SameTables
  <2> QED BY <1>2, <2>2, <2>3 DEF clear
<1>3. CASE clear_fails
  <2>1. wal' \in Seq(Record)
    <3>1. wal \in Seq(Record) /\ << >> \in Seq(Record)
      BY DEF IndInv, TypeOK
    <3>2. wal' = wal \/ wal' = << >>
      BY <1>3 DEF clear_fails
    <3> QED BY <3>1, <3>2
  <2>2. TypeOK'
    BY <1>3, <2>1, EmptyTableType
    DEF clear_fails, Return, IndInv, TypeOK, Labels, memtable, tables, disk
  <2>3. pc # "closed" /\ UNCHANGED <<tables, disk>> /\ doomed' = {}
    BY <1>3 DEF clear_fails, Return
  <2> QED BY <2>2, <2>3, SameTables
<1>4. CASE compacted
  <2>1. TypeOK'
    BY <1>4, EmptyTableType
    DEF compacted, Return, IndInv, TypeOK, Labels, memtable, log, tables, disk
  <2>2. pc # "closed" /\ UNCHANGED <<tables, disk>> /\ doomed' = {}
    BY <1>4 DEF compacted, Return
  <2> QED BY <2>1, <2>2, SameTables
<1> QED BY <1>1, <1>2, <1>3, <1>4

\* The id and the contents of the file being written.
LEMMA FileTypes ==
    ASSUME IndInv
    PROVE  /\ next_sstable_id \in Nat /\ data \in Table
           /\ pc # "closed" => merged \in Table
BY MergedType DEF IndInv, TypeOK

\* What starting and finishing the file of the next id does to the table set.
LEMMA StartFileKeeps ==
    ASSUME IndInv, pc # "closed", StartFile(next_sstable_id)
    PROVE  /\ DOMAIN files' = DOMAIN files \ {next_sstable_id}
           /\ DOMAIN files' \subseteq Nat /\ IsFiniteSet(DOMAIN files')
           /\ files' \in [DOMAIN files' -> Table]
           /\ torn' \subseteq Nat
           /\ \A id \in DOMAIN files' \cup torn' : id <= next_sstable_id
<1>1. /\ DOMAIN files' = DOMAIN files \ {next_sstable_id}
      /\ DOMAIN files' \subseteq Nat /\ IsFiniteSet(DOMAIN files')
      /\ files' \in [DOMAIN files' -> Table]
  BY WithoutType DEF StartFile, IndInv, TypeOK
<1>2. torn' = torn \cup {next_sstable_id} /\ next_sstable_id \in Nat
  BY DEF StartFile, IndInv, TypeOK
<1> QED BY <1>1, <1>2 DEF IndInv, TypeOK, HandleOrder

LEMMA FinishFileKeeps ==
    ASSUME IndInv, pc # "closed", NEW t \in Table, FinishFile(next_sstable_id, t)
    PROVE  /\ DOMAIN files' = DOMAIN files \cup {next_sstable_id}
           /\ DOMAIN files' \subseteq Nat /\ IsFiniteSet(DOMAIN files')
           /\ files' \in [DOMAIN files' -> Table]
           /\ torn' \subseteq Nat
           /\ \A id \in DOMAIN files' \cup torn' : id <= next_sstable_id
<1>0. next_sstable_id \in Nat
  BY FileTypes
<1>1. /\ DOMAIN files' = DOMAIN files \cup {next_sstable_id}
      /\ DOMAIN files' \subseteq Nat /\ IsFiniteSet(DOMAIN files')
      /\ files' \in [DOMAIN files' -> Table]
  BY <1>0, WithType DEF FinishFile, IndInv, TypeOK
<1>2. torn' = torn \ {next_sstable_id}
  BY DEF FinishFile
<1> QED BY <1>0, <1>1, <1>2 DEF IndInv, TypeOK, HandleOrder

\* A step that rewrites only the file of the next id keeps the invariant.
LEMMA SameHandles ==
    ASSUME IndInv, TypeOK', pc # "closed", UNCHANGED tables,
           DOMAIN files \ {next_sstable_id} \subseteq DOMAIN files',
           \A id \in DOMAIN files' \cup torn' : id <= next_sstable_id,
           doomed' \subseteq doomed
    PROVE  IndInv'
<1>1. HandleOrder'
  <2>1. /\ sstables' = sstables /\ next_sstable_id' = next_sstable_id
        /\ sstables \in Seq(Nat) /\ next_sstable_id \in Nat
    BY DEF tables, IndInv, TypeOK
  <2>2. \A i \in 1..Len(sstables) :
            sstables[i] \in DOMAIN files /\ sstables[i] < next_sstable_id
    BY DEF IndInv, HandleOrder
  <2>3. \A i \in 1..Len(sstables) : sstables[i] \in DOMAIN files'
    BY <2>1, <2>2
  <2> QED BY <2>1, <2>2, <2>3 DEF IndInv, HandleOrder
<1>2. ObsoleteOnly'
  BY DEF IndInv, ObsoleteOnly, tables, SeqRange
<1> QED BY <1>1, <1>2 DEF IndInv

\* Writing SSTable files, when it succeeds without changing the handles and
\* when it fails.
LEMMA WritingKeeps ==
    ASSUME IndInv, flush \/ flush_fails \/ compact_fails
    PROVE  IndInv'
<1>0. next_sstable_id \in Nat /\ data \in Table /\ (pc # "closed" => merged \in Table)
  BY FileTypes
<1>1. CASE flush /\ data = EmptyTable
  <2>1. TypeOK'
    BY <1>1, EmptyTableType
    DEF flush, Return, IndInv, TypeOK, Labels, memtable, log, tables, disk
  <2>2. pc # "closed" /\ UNCHANGED <<tables, disk>> /\ doomed' = {}
    BY <1>1 DEF flush, Return
  <2> QED BY <2>1, <2>2, SameTables
<1>2. CASE flush /\ data # EmptyTable
  <2>1. /\ pc # "closed" /\ StartFile(next_sstable_id) /\ Goto("flush_sync")
        /\ UNCHANGED <<memtable, log, sequence, tables>>
    BY <1>2 DEF flush
  <2>2. TypeOK'
    BY <2>1, StartFileKeeps DEF Goto, IndInv, TypeOK, Labels, memtable, log, tables
  <2>3. doomed' = doomed
    BY <2>1 DEF Goto
  <2> QED BY <2>1, <2>2, <2>3, StartFileKeeps, SameHandles
<1>3. ASSUME NEW t \in Table, pc # "closed", AbandonFile(next_sstable_id, t),
             Return("err"), UNCHANGED <<memtable, log, sequence, tables>>
      PROVE  IndInv'
  <2>0. doomed' = {}
    BY <1>3 DEF Return
  <2>1. CASE FinishFile(next_sstable_id, t)
    <3>1. TypeOK'
      BY <1>3, <2>1, FinishFileKeeps, EmptyTableType
      DEF Return, IndInv, TypeOK, Labels, memtable, log, tables
    <3> QED BY <1>3, <2>0, <2>1, <3>1, FinishFileKeeps, SameHandles
  <2>2. CASE UNCHANGED disk
    <3>1. TypeOK'
      BY <1>3, <2>2, EmptyTableType
      DEF Return, IndInv, TypeOK, Labels, memtable, log, tables, disk
    <3> QED BY <1>3, <2>0, <2>2, <3>1, SameTables
  <2> QED BY <1>3, <2>1, <2>2 DEF AbandonFile
<1>4. ASSUME pc # "closed", UNCHANGED disk, Return("err"),
             UNCHANGED <<memtable, log, sequence, tables>>
      PROVE  IndInv'
  <2>1. TypeOK'
    BY <1>4, EmptyTableType
    DEF Return, IndInv, TypeOK, Labels, memtable, log, tables, disk
  <2>2. doomed' = {}
    BY <1>4 DEF Return
  <2> QED BY <1>4, <2>1, <2>2, SameTables
<1>5. CASE flush_fails
  <2>1. pc # "closed" /\ Return("err") /\ UNCHANGED <<memtable, log, sequence, tables>>
    BY <1>5 DEF flush_fails
  <2>2. UNCHANGED disk \/ AbandonFile(next_sstable_id, data)
    BY <1>5 DEF flush_fails
  <2> QED BY <1>0, <1>3, <1>4, <2>1, <2>2
<1>6. CASE compact_fails
  <2>1. pc # "closed" /\ Return("err") /\ UNCHANGED <<memtable, log, sequence, tables>>
    BY <1>6 DEF compact_fails
  <2>2. UNCHANGED disk \/ AbandonFile(next_sstable_id, merged)
    BY <1>6 DEF compact_fails
  <2> QED BY <1>0, <1>3, <1>4, <2>1, <2>2
<1> QED BY <1>1, <1>2, <1>5, <1>6

\* The memtable's file is put in front of the open tables.
LEMMA FlushSyncKeeps ==
    ASSUME IndInv, flush_sync
    PROVE  IndInv'
<1> DEFINE n == next_sstable_id
<1>0. /\ n \in Nat /\ data \in Table /\ sstables \in Seq(Nat) /\ pc # "closed"
      /\ FinishFile(n, data)
  BY DEF flush_sync, IndInv, TypeOK
<1>1. /\ DOMAIN files' = DOMAIN files \cup {n}
      /\ DOMAIN files' \subseteq Nat /\ IsFiniteSet(DOMAIN files')
      /\ files' \in [DOMAIN files' -> Table]
      /\ torn' \subseteq Nat
      /\ \A id \in DOMAIN files' \cup torn' : id <= n
  BY <1>0, FinishFileKeeps
<1>2. /\ sstables' = <<n>> \o sstables /\ next_sstable_id' = n + 1
      /\ doomed' = doomed
  BY DEF flush_sync, Goto
<1>3. /\ sstables' \in Seq(Nat) /\ Len(sstables') = Len(sstables) + 1
      /\ sstables'[1] = n
      /\ \A i \in 2..Len(sstables') : i - 1 \in 1..Len(sstables)
                                     /\ sstables'[i] = sstables[i - 1]
  BY <1>0, <1>2
<1>4. TypeOK'
  BY <1>0, <1>1, <1>2, <1>3, EmptyTableType
  DEF flush_sync, Goto, IndInv, TypeOK, Labels, log
<1>5. /\ \A i \in 1..Len(sstables) : sstables[i] \in DOMAIN files /\ sstables[i] < n
      /\ \A i, j \in 1..Len(sstables) : i < j => sstables[i] > sstables[j]
  BY <1>0 DEF IndInv, HandleOrder
<1>6. HandleOrder'
  <2>1. \A i \in 1..Len(sstables') :
            sstables'[i] \in DOMAIN files' /\ sstables'[i] <= n
    <3> TAKE i \in 1..Len(sstables')
    <3>1. CASE i = 1
      BY <1>0, <1>1, <1>3, <3>1
    <3>2. CASE i # 1
      <4>1. i \in 2..Len(sstables')
        BY <1>0, <1>3, <3>2
      <4> QED BY <1>0, <1>1, <1>3, <1>5, <4>1
    <3> QED BY <3>1, <3>2
  <2>2. ASSUME NEW i \in 1..Len(sstables'), NEW j \in 1..Len(sstables'), i < j
        PROVE  sstables'[i] > sstables'[j]
    <3>0. j \in 2..Len(sstables')
      <4>1. Len(sstables') \in Nat
        BY <1>0, <1>3
      <4> QED BY <2>2, <4>1
    <3>1. j \in 2..Len(sstables') /\ sstables'[j] = sstables[j - 1] /\ j - 1 \in 1..Len(sstables)
      BY <1>3, <3>0
    <3>2. CASE i = 1
      BY <1>0, <1>3, <1>5, <3>1, <3>2
    <3>3. CASE i # 1
      <4>1. i \in 2..Len(sstables')
        BY <1>0, <1>3, <3>3
      <4>2. sstables'[i] = sstables[i - 1] /\ i - 1 \in 1..Len(sstables)
        BY <1>3, <4>1
      <4>3. i - 1 < j - 1
        BY <2>2, <3>1, <4>1
      <4> QED BY <1>5, <3>1, <4>2, <4>3
    <3> QED BY <3>2, <3>3
  <2>3. \A i \in 1..Len(sstables') : sstables'[i] < next_sstable_id'
    BY <1>0, <1>2, <1>3, <2>1
  <2>4. \A id \in DOMAIN files' \cup torn' : id <= next_sstable_id'
    BY <1>0, <1>1, <1>2
  <2> QED BY <2>1, <2>2, <2>3, <2>4 DEF HandleOrder
<1>7. ObsoleteOnly'
  <2>1. ASSUME NEW id \in doomed'
        PROVE  id < next_sstable_id' /\ id \notin SeqRange(sstables')
    <3>1. id \in Nat /\ id < n /\ id \notin SeqRange(sstables)
      BY <1>2, <2>1 DEF IndInv, ObsoleteOnly, TypeOK
    <3>2. \A i \in 1..Len(sstables') : sstables'[i] # id
      <4> TAKE i \in 1..Len(sstables')
      <4>1. CASE i = 1
        BY <1>0, <1>3, <3>1, <4>1
      <4>2. CASE i # 1
        <5>1. i \in 2..Len(sstables')
          BY <1>0, <1>3, <4>2
        <5> QED BY <1>3, <3>1, <5>1 DEF SeqRange
      <4> QED BY <4>1, <4>2
    <3> QED BY <1>0, <1>2, <3>1, <3>2 DEF SeqRange
  <2> QED BY <2>1 DEF ObsoleteOnly
<1> QED BY <1>4, <1>6, <1>7 DEF IndInv

\* The ids of the open tables are below the next id.
LEMMA OldPaths ==
    ASSUME IndInv, pc # "closed"
    PROVE  old_paths \subseteq Nat /\ \A id \in old_paths : id < next_sstable_id
BY DEF IndInv, TypeOK, HandleOrder, old_paths, SeqRange

\* Compaction up to the point where its inputs are obsolete.
LEMMA CompactKeeps ==
    ASSUME IndInv, compact \/ merge_sync
    PROVE  IndInv'
<1>0. next_sstable_id \in Nat /\ sstables \in Seq(Nat) /\ pc # "closed"
  BY DEF IndInv, TypeOK, compact, merge_sync
<1>1. CASE compact /\ Return("ok") /\ UNCHANGED <<tables, disk>>
  <2>1. TypeOK'
    BY <1>1, EmptyTableType
    DEF compact, Return, IndInv, TypeOK, Labels, memtable, log, tables, disk
  <2>2. doomed' = {}
    BY <1>1 DEF Return
  <2> QED BY <1>0, <1>1, <2>1, <2>2, SameTables
<1>2. CASE /\ compact /\ sstables' = << >> /\ doomed' = old_paths /\ pc' = "unlink"
           /\ UNCHANGED <<next_sstable_id, disk, pending, todo, result>>
  <2>1. TypeOK'
    BY <1>0, <1>2, OldPaths
    DEF compact, IndInv, TypeOK, Labels, memtable, log, disk
  <2>2. HandleOrder'
    BY <1>0, <1>2 DEF IndInv, HandleOrder, disk
  <2>3. ObsoleteOnly'
    BY <1>0, <1>2, OldPaths DEF ObsoleteOnly, SeqRange
  <2> QED BY <2>1, <2>2, <2>3 DEF IndInv
<1>3. CASE /\ compact /\ StartFile(next_sstable_id) /\ Goto("merge_sync")
           /\ UNCHANGED tables
  <2>1. TypeOK'
    BY <1>0, <1>3, StartFileKeeps
    DEF compact, Goto, IndInv, TypeOK, Labels, memtable, log, tables
  <2>2. doomed' = doomed
    BY <1>3 DEF Goto
  <2> QED BY <1>0, <1>3, <2>1, <2>2, StartFileKeeps, SameHandles
<1>4. CASE merge_sync
  <2> DEFINE n == next_sstable_id
  <2>1. /\ DOMAIN files' = DOMAIN files \cup {n}
        /\ DOMAIN files' \subseteq Nat /\ IsFiniteSet(DOMAIN files')
        /\ files' \in [DOMAIN files' -> Table]
        /\ torn' \subseteq Nat
        /\ \A id \in DOMAIN files' \cup torn' : id <= n
    <3>1. merged \in Table
      BY <1>0, MergedType
    <3>2. FinishFile(n, merged)
      BY <1>4 DEF merge_sync
    <3> QED BY <1>0, <3>1, <3>2, FinishFileKeeps
  <2>2. /\ sstables' = <<n>> /\ next_sstable_id' = n + 1
        /\ doomed' = old_paths /\ pc' = "unlink"
    BY <1>4 DEF merge_sync
  <2>3. sstables' \in Seq(Nat) /\ Len(sstables') = 1 /\ sstables'[1] = n
    BY <1>0, <2>2
  <2>4. TypeOK'
    BY <1>0, <1>4, <2>1, <2>2, <2>3, OldPaths
    DEF merge_sync, IndInv, TypeOK, Labels, memtable, log
  <2>5. HandleOrder'
    <3>1. \A i \in 1..Len(sstables') : i = 1
      BY <2>3
    <3> QED BY <1>0, <2>1, <2>2, <2>3, <3>1 DEF HandleOrder
  <2>6. ObsoleteOnly'
    <3>1. \A id \in SeqRange(sstables') : id = n
      BY <2>3 DEF SeqRange
    <3> QED BY <1>0, <2>2, <3>1, OldPaths DEF ObsoleteOnly
  <2> QED BY <2>4, <2>5, <2>6 DEF IndInv
<1> QED BY <1>1, <1>2, <1>3, <1>4 DEF compact

\* Removing an obsolete file takes no open table away.
LEMMA RemoveFileKeeps ==
    ASSUME IndInv, remove_file
    PROVE  IndInv'
<1> DEFINE m == Max(doomed)
<1>0. /\ next_sstable_id \in Nat /\ sstables \in Seq(Nat) /\ pc # "closed"
      /\ doomed \in SUBSET Nat /\ doomed # {}
      /\ \A id \in doomed : id <= next_sstable_id
  BY DEF remove_file, IndInv, TypeOK, ObsoleteOnly
<1>1. m \in doomed
  BY <1>0, MaxOfBounded
<1>2. m \in Nat /\ \A i \in 1..Len(sstables) : sstables[i] # m
  BY <1>0, <1>1 DEF IndInv, ObsoleteOnly, SeqRange
<1> HIDE DEF m
<1>3. /\ DOMAIN files \ {m} \subseteq DOMAIN files'
      /\ DOMAIN files' \subseteq DOMAIN files
      /\ DOMAIN files' \subseteq Nat /\ IsFiniteSet(DOMAIN files')
      /\ files' \in [DOMAIN files' -> Table]
  <2>1. CASE files' = Without(files, {m})
    BY <2>1, WithoutType DEF IndInv, TypeOK
  <2>2. CASE UNCHANGED files
    BY <2>2 DEF IndInv, TypeOK
  <2> QED BY <2>1, <2>2 DEF remove_file, m
<1>4. /\ doomed' \subseteq doomed /\ pc' = "unlinking"
      /\ UNCHANGED <<memtable, log, sequence, tables, torn, pending, todo, result>>
  BY DEF remove_file
<1>5. TypeOK'
  BY <1>0, <1>3, <1>4 DEF IndInv, TypeOK, Labels, memtable, log, tables
<1>6. HandleOrder'
  <2>1. \A i \in 1..Len(sstables) : sstables[i] \in DOMAIN files'
    BY <1>0, <1>2, <1>3 DEF IndInv, HandleOrder
  <2> QED BY <1>0, <1>3, <1>4, <2>1 DEF IndInv, HandleOrder, tables
<1>7. ObsoleteOnly'
  BY <1>4 DEF IndInv, ObsoleteOnly, tables, SeqRange
<1> QED BY <1>5, <1>6, <1>7 DEF IndInv

\* Opening a table lists its files newest first.
LEMMA OpenKeeps ==
    ASSUME IndInv, open_with_dir
    PROVE  IndInv'
<1> DEFINE S == DOMAIN files
<1>0. S \in SUBSET Nat /\ IsFiniteSet(S) /\ wal \in Seq(Record) /\ synced \in Seq(Record)
  BY DEF IndInv, TypeOK
<1>1. /\ sstables' \in Seq(Nat)
      /\ \A i \in 1..Len(sstables') : sstables'[i] \in S
      /\ \A i, j \in 1..Len(sstables') : i < j => sstables'[i] > sstables'[j]
  BY <1>0, NewestFirstSorts DEF open_with_dir
<1>2. next_sstable_id' \in Nat \ {0} /\ \A id \in S : id < next_sstable_id'
  BY <1>0, FirstFreeId DEF open_with_dir
<1>3. /\ wal' \in Seq(Record) /\ synced' \in Seq(Record)
      /\ data' \in Table /\ sequence' \in Nat
  BY <1>0, RecoveryIsPrefix, ReplayType, ReplaySequenceType DEF open_with_dir
<1>4. /\ pc' = "idle" /\ torn = {} /\ files' = files /\ torn' = torn
      /\ UNCHANGED <<pending, todo, result>> /\ doomed' = {}
      /\ memtable_max_bytes' \in Nat
  BY LimitsAssumption DEF open_with_dir, disk
<1>5. TypeOK'
  BY <1>1, <1>2, <1>3, <1>4 DEF IndInv, TypeOK, Labels
<1>6. HandleOrder'
  <2>1. \A i \in 1..Len(sstables') :
            sstables'[i] \in DOMAIN files' /\ sstables'[i] < next_sstable_id'
    BY <1>1, <1>2, <1>4
  <2>2. \A id \in DOMAIN files' \cup torn' : id <= next_sstable_id'
    BY <1>0, <1>2, <1>4
  <2> QED BY <1>1, <2>1, <2>2 DEF HandleOrder
<1>7. ObsoleteOnly'
  BY <1>4 DEF ObsoleteOnly
<1> QED BY <1>5, <1>6, <1>7 DEF IndInv

\* The calls of the application on an open table.
LEMMA ClientKeeps ==
    ASSUME IndInv, Client, ~open_with_dir, ~open_fails, ~close
    PROVE  IndInv'
<1>1. CASE set_memtable_budget
  <2>1. memtable_max_bytes' \in Nat
    BY <1>1, LimitsAssumption DEF set_memtable_budget
  <2>2. TypeOK'
    BY <1>1, <2>1 DEF set_memtable_budget, IndInv, TypeOK, Labels, log, tables, disk
  <2>3. pc # "closed" /\ UNCHANGED <<tables, disk>> /\ doomed' = doomed
    BY <1>1 DEF set_memtable_budget
  <2> QED BY <2>2, <2>3, SameTables
<1>2. CASE set_value
  <2>1. PICK k \in Keys, v \in Values : Log(One(k, v))
    BY <1>2 DEF set_value
  <2>2. v \in Entry
    BY DEF Entry
  <2>3. pc # "closed"
    BY <1>2 DEF set_value
  <2> QED BY <2>1, <2>2, <2>3, OneType, LogKeeps
<1>3. CASE delete_value
  <2>1. PICK k \in Keys : Log(One(k, Tombstone))
    BY <1>3 DEF delete_value
  <2>2. Tombstone \in Entry
    BY DEF Entry
  <2>3. pc # "closed"
    BY <1>3 DEF delete_value
  <2> QED BY <2>1, <2>2, <2>3, OneType, LogKeeps
<1>4. CASE begin_transaction
  <2>1. TypeOK'
    BY <1>4 DEF begin_transaction, IndInv, TypeOK, Labels, memtable, log, tables, disk
  <2>2. pc # "closed" /\ UNCHANGED <<tables, disk>> /\ doomed' = doomed
    BY <1>4 DEF begin_transaction
  <2> QED BY <2>1, <2>2, SameTables
<1>5. CASE txn_set_value
  <2>1. PICK k \in Keys, v \in Values : pending' = [pending EXCEPT ![k] = v]
    BY <1>5 DEF txn_set_value
  <2>2. pending' \in Table
    BY <2>1 DEF IndInv, TypeOK, Table, Entry
  <2>3. TypeOK'
    BY <1>5, <2>2 DEF txn_set_value, IndInv, TypeOK, memtable, log, tables, disk
  <2>4. pc # "closed" /\ UNCHANGED <<tables, disk>> /\ doomed' = doomed
    BY <1>5 DEF txn_set_value
  <2> QED BY <2>3, <2>4, SameTables
<1>6. CASE txn_delete_value
  <2>1. PICK k \in Keys : pending' = [pending EXCEPT ![k] = Tombstone]
    BY <1>6 DEF txn_delete_value
  <2>2. pending' \in Table
    BY <2>1 DEF IndInv, TypeOK, Table, Entry
  <2>3. TypeOK'
    BY <1>6, <2>2 DEF txn_delete_value, IndInv, TypeOK, memtable, log, tables, disk
  <2>4. pc # "closed" /\ UNCHANGED <<tables, disk>> /\ doomed' = doomed
    BY <1>6 DEF txn_delete_value
  <2> QED BY <2>3, <2>4, SameTables
<1>7. CASE txn_commit
  <2>0. pc # "closed" /\ pending \in Table
    BY <1>7 DEF txn_commit, IndInv, TypeOK
  <2>1. CASE pending = EmptyTable
    <3>1. TypeOK'
      BY <1>7, <2>1 DEF txn_commit, Goto, IndInv, TypeOK, Labels, memtable, log, tables, disk
    <3>2. UNCHANGED <<tables, disk>> /\ doomed' = doomed
      BY <1>7, <2>1 DEF txn_commit, Goto
    <3> QED BY <2>0, <3>1, <3>2, SameTables
  <2>2. CASE pending # EmptyTable
    <3>1. Log(pending)
      BY <1>7, <2>2 DEF txn_commit
    <3> QED BY <2>0, <2>2, <3>1, KeysOfNonempty, LogKeeps
  <2> QED BY <2>1, <2>2
<1>8. CASE rollback
  <2>1. TypeOK'
    BY <1>8, EmptyTableType
    DEF rollback, IndInv, TypeOK, Labels, memtable, log, tables, disk
  <2>2. pc # "closed" /\ UNCHANGED <<tables, disk>> /\ doomed' = doomed
    BY <1>8 DEF rollback
  <2> QED BY <2>1, <2>2, SameTables
<1>9. CASE call_flush
  <2>1. TypeOK'
    BY <1>9 DEF call_flush, IndInv, TypeOK, Labels, memtable, log, tables, disk
  <2>2. pc # "closed" /\ UNCHANGED <<tables, disk>> /\ doomed' = doomed
    BY <1>9 DEF call_flush
  <2> QED BY <2>1, <2>2, SameTables
<1>10. CASE call_compact
  <2>1. TypeOK'
    BY <1>10 DEF call_compact, IndInv, TypeOK, Labels, memtable, log, tables, disk
  <2>2. pc # "closed" /\ UNCHANGED <<tables, disk>> /\ doomed' = doomed
    BY <1>10 DEF call_compact
  <2> QED BY <2>1, <2>2, SameTables
<1> QED
  BY <1>1, <1>2, <1>3, <1>4, <1>5, <1>6, <1>7, <1>8, <1>9, <1>10 DEF Client

\* The directory that an interruption leaves is well formed.
LEMMA LeaveFilesType ==
    ASSUME IndInv, pc # "closed", LeaveFiles
    PROVE  /\ DOMAIN files' \subseteq Nat /\ IsFiniteSet(DOMAIN files')
           /\ files' \in [DOMAIN files' -> Table] /\ torn' \subseteq Nat
<1>1. ASSUME NEW t \in Table, FinishFile(next_sstable_id, t)
      PROVE  /\ DOMAIN files' \subseteq Nat /\ IsFiniteSet(DOMAIN files')
             /\ files' \in [DOMAIN files' -> Table] /\ torn' \subseteq Nat
  BY <1>1, FinishFileKeeps
<1>2. ASSUME UNCHANGED files, torn' \subseteq torn
      PROVE  /\ DOMAIN files' \subseteq Nat /\ IsFiniteSet(DOMAIN files')
             /\ files' \in [DOMAIN files' -> Table] /\ torn' \subseteq Nat
  BY <1>2 DEF IndInv, TypeOK
<1>3. data \in Table /\ merged \in Table
  BY FileTypes
<1>4. \/ \E t \in Table : FinishFile(next_sstable_id, t)
      \/ UNCHANGED files /\ torn' \subseteq torn
  <2> DEFINE t == IF pc = "flush_sync" THEN data ELSE merged
  <2>1. t \in Table
    BY <1>3
  <2>2. PICK left \in LeftFiles : files' = left[1] /\ torn' = left[2]
    BY DEF LeaveFiles
  <2>3. \/ left = <<With(files, next_sstable_id, t), torn \ {next_sstable_id}>>
        \/ left = <<files, torn \ {next_sstable_id}>>
        \/ left = <<files, torn>>
    BY DEF LeftFiles, disk
  <2> HIDE DEF t
  <2> QED BY <2>1, <2>2, <2>3 DEF FinishFile
<1> QED BY <1>1, <1>2, <1>4

\* The logs that power loss may leave.
LEMMA SurvivorsType ==
    ASSUME IndInv, NEW s \in Survivors
    PROVE  s \in Seq(Record)
<1>1. wal \in Seq(Record) /\ synced \in Seq(Record)
  BY DEF IndInv, TypeOK
<1>2. CASE s = synced
  BY <1>1, <1>2
<1>3. CASE s # synced
  <2> DEFINE lo == IF IsPrefixOf(synced, wal) THEN Len(synced) ELSE 0
  <2>1. lo \in Nat
    BY <1>1
  <2>2. PICK n \in lo..Len(wal) : s = SubSeq(wal, 1, n)
    BY <1>3 DEF Survivors
  <2> HIDE DEF lo
  <2>3. n \in 0..Len(wal)
    BY <1>1, <2>1, <2>2
  <2> QED BY <1>1, <2>2, <2>3
<1> QED BY <1>2, <1>3

\* The end of a session, orderly or not.
LEMMA EndKeeps ==
    ASSUME IndInv, close \/ process_crash \/ power_loss
    PROVE  IndInv'
<1>0. wal \in Seq(Record) /\ synced \in Seq(Record)
  BY DEF IndInv, TypeOK
<1>1. CASE close
  <2>1. Down /\ UNCHANGED <<wal, synced, files, torn>>
    BY <1>1 DEF close, log, disk
  <2> QED BY <1>0, <2>1, DownKeeps DEF IndInv, TypeOK
<1>2. CASE process_crash
  <2>1. Down /\ LeaveFiles /\ pc # "closed" /\ synced' = synced
    BY <1>2 DEF process_crash, Interruptible
  <2>2. wal' = wal \/ wal' = Append(wal, torn_record)
    BY <1>2 DEF process_crash
  <2>3. wal' \in Seq(Record)
    BY <1>0, <2>2, MarkerTypes
  <2> QED BY <1>0, <2>1, <2>3, LeaveFilesType, DownKeeps
<1>3. CASE power_loss
  <2>1. Down /\ LeaveFiles /\ pc # "closed" /\ synced' = wal'
    BY <1>3 DEF power_loss, PowerCut, Interruptible
  <2>2. PICK s \in Survivors : wal' = s \/ wal' = Append(s, torn_record)
    BY <1>3 DEF power_loss, PowerCut
  <2>3. s \in Seq(Record)
    BY SurvivorsType
  <2>4. wal' \in Seq(Record)
    BY <2>2, <2>3, MarkerTypes
  <2> QED BY <2>1, <2>4, LeaveFilesType, DownKeeps
<1> QED BY <1>1, <1>2, <1>3

-----------------------------------------------------------------------------
\* IndInv is inductive.
LEMMA NextInv == IndInv /\ [Next]_vars => IndInv'
<1> SUFFICES ASSUME IndInv, [Next]_vars PROVE IndInv'
  OBVIOUS
<1>1. CASE Engine
  BY <1>1, LoggingKeeps, MemoryKeeps, WritingKeeps, FlushSyncKeeps, CompactKeeps,
     RemoveFileKeeps DEF Engine
<1>2. CASE UNCHANGED vars
  BY <1>2 DEF vars, memtable, log, tables, disk, caller, IndInv, TypeOK, HandleOrder,
              ObsoleteOnly, SeqRange
<1>3. CASE Client
  <2>1. CASE open_with_dir
    BY <2>1, OpenKeeps
  <2>2. CASE open_fails
    BY <1>2, <2>2 DEF open_fails
  <2>3. CASE close
    BY <2>3, EndKeeps
  <2> QED BY <1>3, <2>1, <2>2, <2>3, ClientKeeps
<1>4. CASE process_crash \/ power_loss
  BY <1>4, EndKeeps
<1> QED BY <1>1, <1>2, <1>3, <1>4 DEF Next

\* Every variable always has its type, whatever the faults: in particular a
\* compaction only ever merges tables that exist, and recovery of any log that
\* a crash can leave yields a table and a counter.
THEOREM TypeCorrect == Spec => []TypeOK
<1>1. IndInv => TypeOK
  BY DEF IndInv
<1> QED BY InitInv, NextInv, <1>1, PTL DEF Spec

\* The open tables are always listed newest first, exist on disk and are older
\* than the next table to be written, whatever crashed or failed before: the
\* order that get_value, scan_range and compact rely on.
THEOREM HandlesOrdered == Spec => []HandleOrder
<1>1. IndInv => HandleOrder
  BY DEF IndInv
<1> QED BY InitInv, NextInv, <1>1, PTL DEF Spec

\* Compaction never has an open file on its list of files to remove.
THEOREM RemovalSparesOpenTables == Spec => []ObsoleteOnly
<1>1. IndInv => ObsoleteOnly
  BY DEF IndInv
<1> QED BY InitInv, NextInv, <1>1, PTL DEF Spec

-----------------------------------------------------------------------------
(***************************************************************************)
(* Write-ahead logging.  LoggedBeforeApplied needs, while a batch is being *)
(* logged, that the keys already taken from todo are in the log; once its  *)
(* COMMIT is there, that the whole batch is logged; and that the log is    *)
(* cleared only when the memtable is empty.                                *)
(***************************************************************************)

\* The entries of t for keys outside ks are in log w, committed or not.
WrittenIn(w, t, ks) ==
    \A k \in KeysOf(t) \ ks :
        \E i \in At(w, {"put", "delete"}) : w[i].key = k /\ w[i].entry = t[k]

BatchLogged ==
    /\ pc \in {"append", "commit"} => WrittenIn(wal, pending, todo)
    /\ pc = "commit" => todo = {}
    /\ pc \in {"sync", "apply"} => LoggedIn(wal, pending)
    /\ pc = "clear" => data = EmptyTable

LogInv == LoggedBeforeApplied /\ BatchLogged

LEMMA LoggedEmpty ==
    ASSUME NEW w
    PROVE  LoggedIn(w, EmptyTable)
BY DEF LoggedIn, KeysOf, EmptyTable

\* What a log holds, it holds after any append.
LEMMA LoggedExtends ==
    ASSUME NEW w \in Seq(Record), NEW r \in Record, NEW t \in Table, NEW ks
    PROVE  /\ LoggedIn(w, t) => LoggedIn(Append(w, r), t)
           /\ WrittenIn(w, t, ks) => WrittenIn(Append(w, r), t, ks)
<1> DEFINE x == Append(w, r)
<1>1. /\ Len(w) \in Nat /\ Len(x) = Len(w) + 1
      /\ \A i \in 1..Len(w) : i \in 1..Len(x) /\ x[i] = w[i]
  OBVIOUS
<1> HIDE DEF x
<1>2. \A ops : \A i \in At(w, ops) : i \in At(x, ops) /\ x[i] = w[i]
  BY <1>1 DEF At
<1>3. LoggedIn(w, t) => LoggedIn(x, t)
  BY <1>2 DEF LoggedIn
<1>4. WrittenIn(w, t, ks) => WrittenIn(x, t, ks)
  BY <1>2 DEF WrittenIn
<1> QED BY <1>3, <1>4 DEF x

\* The last record of a log.
LEMMA AppendedLast ==
    ASSUME NEW w \in Seq(Record), NEW r \in Record, NEW ops, r.op \in ops
    PROVE  /\ Len(w) + 1 \in At(Append(w, r), ops)
           /\ Append(w, r)[Len(w) + 1] = r
BY DEF At

LEMMA LoggedOverlay ==
    ASSUME NEW w, NEW s \in Table, NEW t \in Table, LoggedIn(w, s), LoggedIn(w, t)
    PROVE  LoggedIn(w, Overlay(s, t))
BY DEF LoggedIn, KeysOf, Overlay, Table

\* A replayed memtable is in the log that recovery leaves.
LEMMA LoggedReplay ==
    ASSUME NEW w \in Seq(Record)
    PROVE  LoggedIn(read_for_recovery(w), replay_wal(w))
<1> DEFINE n == parse_buffer(w)
           r == read_for_recovery(w)
<1>1. Len(w) \in Nat /\ n \in 0..Len(w) /\ (n # 0 => n \in 1..Len(w) /\ w[n].op = "commit")
  BY ParseBound, DecodedBound DEF Commits
<1>2. r \in Seq(Record) /\ Len(r) = n /\ \A i \in 1..n : r[i] = w[i]
  BY RecoveryIsPrefix
<1>3. replay_wal(w) = [k \in Keys |-> LastEntry(w, n, k)]
  BY DEF replay_wal
<1> HIDE DEF n, r
<1>4. ASSUME NEW k \in KeysOf(replay_wal(w))
      PROVE  \E i \in At(r, {"put", "delete"}), j \in At(r, {"commit"}) :
                 i < j /\ r[i].key = k /\ r[i].entry = replay_wal(w)[k]
  <2> DEFINE writes == {i \in 1..n : w[i].op \in {"put", "delete"} /\ w[i].key = k}
  <2>1. k \in Keys /\ replay_wal(w)[k] = LastEntry(w, n, k) /\ LastEntry(w, n, k) # Absent
    BY <1>3 DEF KeysOf
  <2>2. LastEntry(w, n, k) = IF writes = {} THEN Absent ELSE w[Max(writes)].entry
    BY DEF LastEntry
  <2>3. n \in Nat /\ writes \in SUBSET Nat /\ \A i \in writes : i <= n
    BY <1>1
  <2>4. Max(writes) \in writes
    <3> HIDE DEF writes
    <3> QED BY <2>1, <2>2, <2>3, MaxOfBounded
  <2> DEFINE i == Max(writes)
  <2>5. /\ i \in 1..n /\ w[i].op \in {"put", "delete"} /\ w[i].key = k
        /\ w[i].entry = replay_wal(w)[k]
    BY <2>1, <2>2, <2>4
  <2> HIDE DEF i, writes
  <2>6. n \in 1..n /\ i < n
    BY <1>1, <2>5
  <2>7. i \in At(r, {"put", "delete"}) /\ n \in At(r, {"commit"})
    BY <1>1, <1>2, <2>5, <2>6 DEF At
  <2> QED BY <1>2, <2>5, <2>6, <2>7
<1> QED BY <1>4 DEF LoggedIn, r

\* Steps that leave the log and the memtable alone and do not enter the
\* stretch from append to clear.
LEMMA SameLog ==
    ASSUME LogInv, UNCHANGED <<data, wal>>,
           pc' \notin {"append", "commit", "sync", "apply", "clear"}
    PROVE  LogInv'
BY DEF LogInv, LoggedBeforeApplied, BatchLogged

\* Steps that leave the memtable empty, likewise.
LEMMA EmptyMemtable ==
    ASSUME data' = EmptyTable, pc' \notin {"append", "commit", "sync", "apply"}
    PROVE  LogInv'
BY LoggedEmpty DEF LogInv, LoggedBeforeApplied, BatchLogged

\* Starting to log a batch: nothing of it is in the log yet.
LEMMA LogStarts ==
    ASSUME LogInv, NEW b, Log(b)
    PROVE  LogInv'
<1>1. /\ UNCHANGED <<data, wal>> /\ pc' = "append" /\ pending' = b
      /\ todo' = KeysOf(b)
  BY DEF Log, memtable, log
<1>2. WrittenIn(wal', pending', todo')
  BY <1>1 DEF WrittenIn
<1> QED BY <1>1, <1>2 DEF LogInv, LoggedBeforeApplied, BatchLogged

\* append and write_commit carry the batch into the log.
LEMMA LoggingLogs ==
    ASSUME IndInv, LogInv,
           \/ append \/ append_fails \/ write_commit \/ write_commit_fails
           \/ sync_commit \/ sync_commit_fails
    PROVE  LogInv'
<1>0. wal \in Seq(Record) /\ data \in Table /\ pending \in Table /\ sequence \in Nat
  BY DEF IndInv, TypeOK
<1>1. CASE append
  <2> DEFINE r == log_entry(sequence + 1)
  <2>1. r \in Record /\ NextKey \in todo
    BY <1>0, <1>1, LogEntryType DEF append
  <2>2. r.op \in {"put", "delete"} /\ r.key = NextKey /\ r.entry = pending[NextKey]
    BY DEF log_entry, create_put_entry, create_delete_entry
  <2>3. /\ wal' = Append(wal, r) /\ todo' = todo \ {NextKey} /\ pending' = pending
        /\ data' = data /\ pc' \in {"append", "commit"}
        /\ pc' = "commit" => todo' = {}
    BY <1>1 DEF append, memtable
  <2> HIDE DEF r
  <2>4. LoggedIn(wal, data) /\ WrittenIn(wal, pending, todo)
    BY <1>1 DEF append, LogInv, LoggedBeforeApplied, BatchLogged
  <2>5. LoggedIn(wal', data') /\ WrittenIn(wal', pending', todo)
    BY <1>0, <2>1, <2>3, <2>4, LoggedExtends
  <2>6. /\ Len(wal) + 1 \in At(wal', {"put", "delete"})
        /\ wal'[Len(wal) + 1] = r
    BY <1>0, <2>1, <2>2, <2>3, AppendedLast
  <2>7. WrittenIn(wal', pending', todo')
    <3>1. ASSUME NEW k \in KeysOf(pending') \ todo'
          PROVE  \E i \in At(wal', {"put", "delete"}) :
                     wal'[i].key = k /\ wal'[i].entry = pending'[k]
      <4>1. CASE k = NextKey
        BY <2>2, <2>3, <2>6, <4>1
      <4>2. CASE k # NextKey
        BY <2>3, <2>5, <3>1, <4>2 DEF WrittenIn
      <4> QED BY <4>1, <4>2
    <3> QED BY <3>1 DEF WrittenIn
  <2> QED BY <2>3, <2>5, <2>7 DEF LogInv, LoggedBeforeApplied, BatchLogged
<1>2. ASSUME FailedWrite, pc' = "idle", data' = data
      PROVE  LogInv'
  <2>1. wal' = wal \/ wal' = Append(wal, torn_record)
    BY <1>2 DEF FailedWrite
  <2>2. LoggedIn(wal', data')
    BY <1>0, <1>2, <2>1, LoggedExtends, MarkerTypes DEF LogInv, LoggedBeforeApplied
  <2> QED BY <1>2, <2>2 DEF LogInv, LoggedBeforeApplied, BatchLogged
<1>3. CASE append_fails
  BY <1>2, <1>3 DEF append_fails, Return, memtable
<1>4. CASE write_commit_fails
  BY <1>2, <1>4 DEF write_commit_fails, Return, memtable
<1>5. CASE write_commit
  <2> DEFINE r == commit_entry(sequence)
  <2>1. r \in Record /\ r.op = "commit"
    BY <1>0, MarkerTypes DEF commit_entry
  <2>2. /\ wal' = Append(wal, r) /\ pending' = pending /\ data' = data /\ pc' = "sync"
        /\ todo = {}
    BY <1>5 DEF write_commit, Goto, memtable, LogInv, BatchLogged
  <2> HIDE DEF r
  <2>3. LoggedIn(wal, data) /\ WrittenIn(wal, pending, {})
    BY <1>5, <2>2 DEF write_commit, LogInv, LoggedBeforeApplied, BatchLogged
  <2>4. LoggedIn(wal', data')
    BY <1>0, <2>1, <2>2, <2>3, LoggedExtends
  <2>5. Len(wal) + 1 \in At(wal', {"commit"})
    BY <1>0, <2>1, <2>2, AppendedLast
  <2>6. /\ Len(wal) \in Nat
        /\ \A i \in At(wal, {"put", "delete"}) :
               /\ i \in At(wal', {"put", "delete"}) /\ wal'[i] = wal[i]
               /\ i < Len(wal) + 1
    BY <1>0, <2>2 DEF At
  <2>7. LoggedIn(wal', pending')
    <3>1. ASSUME NEW k \in KeysOf(pending)
          PROVE  \E i \in At(wal', {"put", "delete"}), j \in At(wal', {"commit"}) :
                     i < j /\ wal'[i].key = k /\ wal'[i].entry = pending[k]
      <4>1. PICK i \in At(wal, {"put", "delete"}) :
                     wal[i].key = k /\ wal[i].entry = pending[k]
        BY <2>3 DEF WrittenIn
      <4>2. /\ i \in At(wal', {"put", "delete"}) /\ i < Len(wal) + 1
            /\ wal'[i].key = k /\ wal'[i].entry = pending[k]
        BY <2>6, <4>1
      <4> QED BY <2>5, <4>2
    <3> QED BY <2>2, <3>1 DEF LoggedIn
  <2> QED BY <2>2, <2>4, <2>7 DEF LogInv, LoggedBeforeApplied, BatchLogged
<1>6. CASE sync_commit
  BY <1>6 DEF sync_commit, Goto, memtable, LogInv, LoggedBeforeApplied, BatchLogged
<1>7. CASE sync_commit_fails
  BY <1>7, SameLog DEF sync_commit_fails, Return, memtable, log
<1> QED BY <1>1, <1>3, <1>4, <1>5, <1>6, <1>7

\* LogInv is inductive relative to IndInv.
LEMMA NextLogInv == IndInv /\ LogInv /\ [Next]_vars => LogInv'
<1> SUFFICES ASSUME IndInv, LogInv, [Next]_vars PROVE LogInv'
  OBVIOUS
<1>0. wal \in Seq(Record) /\ data \in Table /\ pending \in Table
  BY DEF IndInv, TypeOK
<1>1. CASE \/ append \/ append_fails \/ write_commit \/ write_commit_fails
           \/ sync_commit \/ sync_commit_fails
  BY <1>1, LoggingLogs
<1>2. CASE apply
  <2>1. /\ data' = Overlay(data, pending) /\ wal' = wal /\ pc' \in {"flush", "idle"}
    BY <1>2 DEF apply, Goto, Return, log
  <2>2. LoggedIn(wal, data) /\ LoggedIn(wal, pending)
    BY <1>2 DEF apply, LogInv, LoggedBeforeApplied, BatchLogged
  <2>3. LoggedIn(wal', data')
    BY <1>0, <2>1, <2>2, LoggedOverlay
  <2> QED BY <2>1, <2>3 DEF LogInv, LoggedBeforeApplied, BatchLogged
<1>3. CASE flush_sync
  BY <1>3, EmptyMemtable DEF flush_sync, Goto
<1>4. CASE clear \/ clear_fails
  <2>1. data' = EmptyTable /\ pc' \in {"idle", "compact"}
    BY <1>4 DEF clear, clear_fails, Goto, Return, memtable, LogInv, BatchLogged
  <2> QED BY <2>1, EmptyMemtable
<1>5. CASE flush \/ flush_fails
  <2>1. UNCHANGED <<data, wal>> /\ pc' \in {"idle", "flush_sync"}
    BY <1>5 DEF flush, flush_fails, Goto, Return, memtable, log
  <2> QED BY <2>1, SameLog
<1>6. CASE compact \/ merge_sync \/ compact_fails \/ remove_file \/ compacted
  <2>1. UNCHANGED <<data, wal>> /\ pc' \in {"idle", "unlink", "merge_sync", "unlinking"}
    BY <1>6 DEF compact, merge_sync, compact_fails, remove_file, compacted, Goto, Return,
                memtable, log
  <2> QED BY <2>1, SameLog
<1>7. CASE close \/ process_crash \/ power_loss
  <2>1. data' = EmptyTable /\ pc' = "closed"
    BY <1>7 DEF close, process_crash, power_loss, PowerCut, Down
  <2> QED BY <2>1, EmptyMemtable
<1>8. CASE open_with_dir
  <2>1. data' = replay_wal(wal) /\ wal' = read_for_recovery(wal) /\ pc' = "idle"
    BY <1>8 DEF open_with_dir
  <2>2. LoggedIn(wal', data')
    BY <1>0, <2>1, LoggedReplay
  <2> QED BY <2>1, <2>2 DEF LogInv, LoggedBeforeApplied, BatchLogged
<1>9. CASE UNCHANGED vars
  BY <1>9 DEF vars, memtable, log, caller, LogInv, LoggedBeforeApplied, BatchLogged
<1>10. CASE set_value \/ delete_value \/ (txn_commit /\ pending # EmptyTable)
  <2>1. \E b : Log(b)
    BY <1>10 DEF set_value, delete_value, txn_commit
  <2> QED BY <2>1, LogStarts
<1>11. CASE \/ set_memtable_budget \/ begin_transaction \/ txn_set_value
            \/ txn_delete_value \/ rollback \/ call_flush \/ call_compact
            \/ (txn_commit /\ pending = EmptyTable)
  <2>1. UNCHANGED <<data, wal>> /\ pc' \in {"idle", "txn", "flush", "compact"}
    BY <1>11 DEF set_memtable_budget, begin_transaction, txn_set_value, txn_delete_value,
                 rollback, call_flush, call_compact, txn_commit, Goto, memtable, log
  <2> QED BY <2>1, SameLog
<1>12. CASE open_fails
  BY <1>9, <1>12 DEF open_fails
<1> QED
  BY <1>1, <1>2, <1>3, <1>4, <1>5, <1>6, <1>7, <1>8, <1>9, <1>10, <1>11, <1>12
  DEF Next, Engine, Client

\* The first durability rule of CONTRIBUTING.md, as far as the log itself goes:
\* whatever fails, crashes or is torn, an entry is in the memtable only while
\* the log holds it under a COMMIT marker.
THEOREM WriteAhead == Spec => []LoggedBeforeApplied
<1>1. Init => LogInv
  BY LoggedEmpty DEF Init, LogInv, LoggedBeforeApplied, BatchLogged
<1>2. LogInv => LoggedBeforeApplied
  BY DEF LogInv
<1> QED BY InitInv, NextInv, NextLogInv, <1>1, <1>2, PTL DEF Spec

-----------------------------------------------------------------------------
(***************************************************************************)
(* Sequence numbers.  A power loss may leave the log as of its last fsync, *)
(* which need not be a part of the present one (Wal::clear truncates the   *)
(* file and may fail to fsync it): both have to be in order.               *)
(***************************************************************************)

Ascends(w) ==
    \A i, j \in At(w, {"put", "delete"}) : i < j => w[i].sequence < w[j].sequence

Below(w, n) == \A i \in 1..Len(w) : w[i].sequence <= n

OrderInv ==
    /\ Ascends(wal)
    /\ Ascends(synced)
    /\ pc # "closed" => Below(wal, sequence)

LEMMA AscendsEmpty == Ascends(<< >>) /\ \A n : Below(<< >>, n)
BY DEF Ascends, Below, At

\* A part of a log that starts where the log starts is in order.
LEMMA AscendsPrefix ==
    ASSUME NEW w \in Seq(Record), Ascends(w), NEW n \in 0..Len(w)
    PROVE  Ascends(SubSeq(w, 1, n))
<1> DEFINE s == SubSeq(w, 1, n)
<1>1. Len(s) = n /\ n <= Len(w) /\ Len(w) \in Nat /\ \A i \in 1..n : s[i] = w[i]
  OBVIOUS
<1> HIDE DEF s
<1>2. \A ops : \A i \in At(s, ops) : i \in At(w, ops) /\ s[i] = w[i]
  BY <1>1 DEF At
<1>3. Ascends(s)
  BY <1>2 DEF Ascends
<1> QED BY <1>3 DEF s

\* A COMMIT or a torn record does not disturb the order of the entries, and a
\* record with the next number extends it.
LEMMA AscendsAppend ==
    ASSUME NEW w \in Seq(Record), Ascends(w), NEW r \in Record, NEW n \in Nat,
           \/ r.op \notin {"put", "delete"}
           \/ Below(w, n) /\ r.sequence = n + 1
    PROVE  Ascends(Append(w, r))
<1> DEFINE x == Append(w, r)
           m == Len(w) + 1
<1>1. /\ Len(w) \in Nat /\ Len(x) = m /\ x[m] = r
      /\ \A i \in 1..Len(w) : x[i] = w[i] /\ w[i] \in Record
  OBVIOUS
<1>2. \A i \in 1..Len(w) : w[i].sequence \in Nat
  BY <1>1 DEF Record
<1> HIDE DEF x
<1>3. ASSUME NEW i \in At(x, {"put", "delete"}), NEW j \in At(x, {"put", "delete"}), i < j
      PROVE  x[i].sequence < x[j].sequence
  <2>1. i \in 1..m /\ j \in 1..m /\ i \in 1..Len(w)
    BY <1>1, <1>3 DEF At
  <2>2. i \in At(w, {"put", "delete"}) /\ x[i] = w[i]
    BY <1>1, <2>1 DEF At
  <2>3. CASE j = m
    <3>1. r.op \in {"put", "delete"}
      BY <1>1, <2>3 DEF At
    <3>2. w[i].sequence <= n /\ r.sequence = n + 1
      BY <2>1, <3>1 DEF Below
    <3> QED BY <1>1, <1>2, <2>1, <2>2, <2>3, <3>2
  <2>4. CASE j # m
    <3>1. j \in 1..Len(w)
      BY <1>1, <2>1, <2>4
    <3>2. j \in At(w, {"put", "delete"}) /\ x[j] = w[j]
      BY <1>1, <3>1 DEF At
    <3> QED BY <1>3, <2>2, <3>2 DEF Ascends
  <2> QED BY <2>3, <2>4
<1> QED BY <1>3 DEF Ascends, x

LEMMA BelowAppend ==
    ASSUME NEW w \in Seq(Record), NEW r \in Record, NEW m \in Nat, NEW n \in Nat,
           Below(w, m), m <= n, r.sequence <= n
    PROVE  Below(Append(w, r), n)
<1> DEFINE x == Append(w, r)
<1>1. /\ Len(w) \in Nat /\ Len(x) = Len(w) + 1 /\ x[Len(w) + 1] = r
      /\ \A i \in 1..Len(w) : x[i] = w[i] /\ w[i] \in Record
  OBVIOUS
<1>2. \A i \in 1..Len(w) : w[i].sequence \in Nat
  BY <1>1 DEF Record
<1> HIDE DEF x
<1>3. ASSUME NEW i \in 1..Len(x)
      PROVE  x[i].sequence <= n
  <2>1. CASE i = Len(w) + 1
    BY <1>1, <2>1
  <2>2. CASE i # Len(w) + 1
    <3>1. i \in 1..Len(w)
      BY <1>1, <2>2
    <3> QED BY <1>1, <1>2, <3>1 DEF Below
  <2> QED BY <2>1, <2>2
<1> QED BY <1>3 DEF Below, x

\* A log with at most a torn record appended, under the same or a later counter.
LEMMA MaybeTorn ==
    ASSUME NEW w \in Seq(Record), NEW x, x = w \/ x = Append(w, torn_record)
    PROVE  /\ Ascends(w) => Ascends(x)
           /\ \A m, n \in Nat : Below(w, m) /\ m <= n => Below(x, n)
<1>1. torn_record \in Record /\ torn_record.op = "torn" /\ torn_record.sequence = 0
  BY MarkerTypes DEF torn_record
<1>2. Ascends(w) => Ascends(x)
  BY <1>1, AscendsAppend
<1>3. ASSUME NEW m \in Nat, NEW n \in Nat, Below(w, m), m <= n
      PROVE  Below(x, n)
  <2>1. CASE x = w
    <3>1. \A i \in 1..Len(w) : w[i].sequence \in Nat
      BY LogIsFunction DEF Record
    <3> QED BY <1>3, <2>1, <3>1 DEF Below
  <2>2. CASE x = Append(w, torn_record)
    BY <1>1, <1>3, <2>2, BelowAppend
  <2> QED BY <2>1, <2>2
<1> QED BY <1>2, <1>3

\* Steps that leave the log and the counter alone.
LEMMA SameOrder ==
    ASSUME OrderInv, UNCHANGED <<wal, synced, sequence>>, pc # "closed"
    PROVE  OrderInv'
BY DEF OrderInv

\* OrderInv is inductive relative to IndInv.
LEMMA NextOrderInv == IndInv /\ OrderInv /\ [Next]_vars => OrderInv'
<1> SUFFICES ASSUME IndInv, OrderInv, [Next]_vars PROVE OrderInv'
  OBVIOUS
<1>0. /\ wal \in Seq(Record) /\ synced \in Seq(Record) /\ sequence \in Nat
      /\ Len(wal) \in Nat /\ Len(synced) \in Nat
  BY DEF IndInv, TypeOK
<1>1. CASE append
  <2> DEFINE r == log_entry(sequence + 1)
  <2>1. r \in Record
    BY <1>0, <1>1, LogEntryType DEF append
  <2>2. r.sequence = sequence + 1
    BY DEF log_entry, create_put_entry, create_delete_entry
  <2>3. /\ wal' = Append(wal, r) /\ sequence' = sequence + 1 /\ synced' = synced
        /\ pc = "append"
    BY <1>1 DEF append
  <2> HIDE DEF r
  <2>4. Ascends(wal')
    BY <1>0, <2>1, <2>2, <2>3, AscendsAppend DEF OrderInv
  <2>5. Below(wal', sequence')
    BY <1>0, <2>1, <2>2, <2>3, BelowAppend DEF OrderInv
  <2> QED BY <2>3, <2>4, <2>5 DEF OrderInv
<1>2. CASE append_fails \/ write_commit_fails
  <2>1. /\ wal' = wal \/ wal' = Append(wal, torn_record)
        /\ sequence' \in {sequence, sequence + 1} /\ synced' = synced
        /\ pc # "closed"
    BY <1>2 DEF append_fails, write_commit_fails, FailedWrite
  <2>2. sequence' \in Nat /\ sequence <= sequence'
    BY <1>0, <2>1
  <2> QED BY <1>0, <2>1, <2>2, MaybeTorn DEF OrderInv
<1>3. CASE write_commit
  <2> DEFINE r == commit_entry(sequence)
  <2>1. r \in Record /\ r.op = "commit" /\ r.sequence = sequence
    BY <1>0, MarkerTypes DEF commit_entry
  <2>2. wal' = Append(wal, r) /\ sequence' = sequence /\ synced' = synced /\ pc = "commit"
    BY <1>3 DEF write_commit
  <2> HIDE DEF r
  <2>3. Ascends(wal')
    BY <1>0, <2>1, <2>2, AscendsAppend DEF OrderInv
  <2>4. Below(wal', sequence')
    BY <1>0, <2>1, <2>2, BelowAppend DEF OrderInv
  <2> QED BY <2>2, <2>3, <2>4 DEF OrderInv
<1>4. CASE sync_commit
  BY <1>4 DEF sync_commit, sync_all, OrderInv
<1>5. CASE clear \/ clear_fails
  <2>1. /\ wal' = wal \/ wal' = << >>
        /\ synced' = synced \/ synced' = << >>
        /\ sequence' = sequence /\ pc = "clear"
    BY <1>5 DEF clear, clear_fails
  <2> QED BY <2>1, AscendsEmpty DEF OrderInv
<1>6. CASE \/ sync_commit_fails \/ apply \/ flush \/ flush_sync \/ flush_fails
           \/ compact \/ merge_sync \/ compact_fails \/ remove_file \/ compacted
  <2>1. UNCHANGED <<wal, synced, sequence>> /\ pc # "closed"
    BY <1>6 DEF sync_commit_fails, apply, flush, flush_sync, flush_fails, compact,
                merge_sync, compact_fails, remove_file, compacted, log
  <2> QED BY <2>1, SameOrder
<1>7. CASE open_with_dir
  <2> DEFINE n == parse_buffer(wal)
  <2>1. /\ wal' = SubSeq(wal, 1, n) /\ sequence' = replay_sequence(wal)
        /\ synced' = wal' \/ synced' = synced
    BY <1>7 DEF open_with_dir, read_for_recovery
  <2>2. n \in 0..Len(wal) /\ Len(wal') = n /\ \A i \in 1..n : wal'[i] = wal[i]
    BY <1>0, <2>1, ParseBound
  <2>3. Ascends(wal')
    BY <1>0, <2>1, <2>2, AscendsPrefix DEF OrderInv
  <2>4. Below(wal', sequence')
    BY <1>0, <2>1, <2>2, ReplaySequenceType DEF Below
  <2> QED BY <2>1, <2>3, <2>4 DEF OrderInv
<1>8. CASE close
  BY <1>8 DEF close, Down, log, OrderInv
<1>9. CASE process_crash
  <2>1. /\ wal' = wal \/ wal' = Append(wal, torn_record)
        /\ synced' = synced /\ pc' = "closed"
    BY <1>9 DEF process_crash, Down
  <2> QED BY <1>0, <2>1, MaybeTorn DEF OrderInv
<1>10. CASE power_loss
  <2>1. PICK s \in Survivors : wal' = s \/ wal' = Append(s, torn_record)
    BY <1>10 DEF power_loss, PowerCut
  <2>2. synced' = wal' /\ pc' = "closed"
    BY <1>10 DEF power_loss, PowerCut, Down
  <2>3. s \in Seq(Record)
    BY SurvivorsType
  <2>4. Ascends(s)
    <3>1. CASE s = synced
      BY <3>1 DEF OrderInv
    <3>2. CASE s # synced
      <4>1. PICK n \in (IF IsPrefixOf(synced, wal) THEN Len(synced) ELSE 0)..Len(wal) :
                    s = SubSeq(wal, 1, n)
        BY <3>2 DEF Survivors
      <4>2. n \in 0..Len(wal)
        BY <1>0, <4>1
      <4> QED BY <1>0, <4>1, <4>2, AscendsPrefix DEF OrderInv
    <3> QED BY <3>1, <3>2
  <2>5. Ascends(wal')
    BY <2>1, <2>3, <2>4, MaybeTorn
  <2> QED BY <2>2, <2>5 DEF OrderInv
<1>11. CASE UNCHANGED vars
  BY <1>11 DEF vars, log, caller, OrderInv
<1>12. CASE open_fails
  BY <1>11, <1>12 DEF open_fails
<1>13. CASE \/ set_memtable_budget \/ set_value \/ delete_value \/ begin_transaction
            \/ txn_set_value \/ txn_delete_value \/ txn_commit \/ rollback
            \/ call_flush \/ call_compact
  <2>1. UNCHANGED <<wal, synced, sequence>> /\ pc # "closed"
    BY <1>13 DEF set_memtable_budget, set_value, delete_value, begin_transaction,
                 txn_set_value, txn_delete_value, txn_commit, rollback, call_flush,
                 call_compact, Log, log
  <2> QED BY <2>1, SameOrder
<1> QED
  BY <1>1, <1>2, <1>3, <1>4, <1>5, <1>6, <1>7, <1>8, <1>9, <1>10, <1>11, <1>12, <1>13
  DEF Next, Engine, Client

\* Whatever is torn, cleared, lost or replayed, the entries of a log are in
\* ascending order of their sequence numbers and the counter that replay_wal
\* restores is above all of them: no number is given out twice in one log.
THEOREM SequencesAlwaysAscend == Spec => []SequencesAscend
<1>1. Init => OrderInv
  BY AscendsEmpty DEF Init, OrderInv
<1>2. OrderInv => SequencesAscend
  BY DEF OrderInv, Ascends, Below, SequencesAscend
<1> QED BY InitInv, NextInv, NextOrderInv, <1>1, <1>2, PTL DEF Spec

-----------------------------------------------------------------------------
(***************************************************************************)
(* Limits.  What a call has done by the time it returns Ok depends on the  *)
(* way it came: a write reaches compact only behind a flush, with an empty *)
(* memtable, and a compaction ends with one table at most.                 *)
(***************************************************************************)

CallInv ==
    /\ pc \in {"closed", "idle"} => pending = EmptyTable
    /\ pc \in {"append", "commit", "sync", "apply"} => pending # EmptyTable
    /\ pc = "flush" /\ pending # EmptyTable => data # EmptyTable
    /\ pc \in {"clear", "compact", "merge_sync", "unlink", "unlinking"}
           /\ pending # EmptyTable => data = EmptyTable
    /\ pc \in {"unlink", "unlinking"} => Len(sstables) <= 1

\* A table on which a batch with some entry was overlaid is not empty.
LEMMA OverlayNonempty ==
    ASSUME NEW s \in Table, NEW t \in Table, t # EmptyTable
    PROVE  Overlay(s, t) # EmptyTable
<1>1. PICK k \in Keys : t[k] # Absent
  BY KeysOfNonempty DEF KeysOf
<1>2. Overlay(s, t)[k] = t[k]
  BY <1>1 DEF Overlay
<1> QED BY <1>1, <1>2 DEF EmptyTable

\* A batch that is logged is not empty.
LEMMA BatchNonempty ==
    ASSUME IndInv, set_value \/ delete_value \/ (txn_commit /\ pending # EmptyTable)
    PROVE  pending' # EmptyTable /\ pc' = "append"
<1>1. ASSUME NEW k \in Keys, NEW e \in Entry
      PROVE  One(k, e) # EmptyTable
  <2>1. KeysOf(One(k, e)) # {}
    BY OneType
  <2> QED BY <2>1 DEF KeysOf, EmptyTable
<1>2. CASE set_value
  BY <1>1, <1>2 DEF set_value, Log, Entry
<1>3. CASE delete_value
  BY <1>1, <1>3 DEF delete_value, Log, Entry
<1>4. CASE txn_commit /\ pending # EmptyTable
  BY <1>4 DEF txn_commit, Log
<1> QED BY <1>2, <1>3, <1>4

\* CallInv is inductive relative to IndInv.
LEMMA NextCallInv == IndInv /\ CallInv /\ [Next]_vars => CallInv'
<1> SUFFICES ASSUME IndInv, CallInv, [Next]_vars PROVE CallInv'
  OBVIOUS
<1>0. data \in Table /\ pending \in Table /\ sstables \in Seq(Nat)
  BY DEF IndInv, TypeOK
<1>1. CASE \/ append \/ write_commit \/ sync_commit
  BY <1>1 DEF append, write_commit, sync_commit, Goto, CallInv
<1>2. CASE Return("ok") \/ Return("err")
  BY <1>2 DEF Return, CallInv
<1>3. CASE \/ append_fails \/ write_commit_fails \/ sync_commit_fails \/ flush_fails
           \/ clear_fails \/ compact_fails \/ compacted
  BY <1>2, <1>3 DEF append_fails, write_commit_fails, sync_commit_fails, flush_fails,
                    clear_fails, compact_fails, compacted
<1>4. CASE apply
  <2>1. CASE Goto("flush")
    <3>1. data' # EmptyTable
      BY <1>0, <1>4, OverlayNonempty DEF apply, CallInv
    <3> QED BY <2>1, <3>1 DEF Goto, CallInv
  <2> QED BY <1>2, <1>4, <2>1 DEF apply
<1>5. CASE flush
  <2>1. CASE Goto("flush_sync")
    BY <2>1 DEF Goto, CallInv
  <2> QED BY <1>2, <1>5, <2>1 DEF flush
<1>6. CASE flush_sync
  BY <1>6 DEF flush_sync, Goto, CallInv
<1>7. CASE clear
  <2>1. CASE Goto("compact")
    BY <1>7, <2>1 DEF clear, Goto, memtable, CallInv
  <2> QED BY <1>2, <1>7, <2>1 DEF clear
<1>8. CASE compact
  <2>1. CASE sstables' = << >> /\ pc' = "unlink" /\ pending' = pending
    BY <1>8, <2>1 DEF compact, memtable, CallInv
  <2>2. CASE Goto("merge_sync")
    BY <1>8, <2>2 DEF compact, Goto, memtable, CallInv
  <2> QED BY <1>2, <1>8, <2>1, <2>2 DEF compact
<1>9. CASE merge_sync
  <2>1. /\ sstables' = <<next_sstable_id>> /\ pc' = "unlink"
        /\ pending' = pending /\ data' = data /\ pc = "merge_sync"
    BY <1>9 DEF merge_sync, memtable
  <2> QED BY <2>1 DEF CallInv
<1>10. CASE remove_file
  BY <1>10 DEF remove_file, memtable, tables, CallInv
<1>11. CASE close \/ process_crash \/ power_loss
  BY <1>11 DEF close, process_crash, power_loss, PowerCut, Down, CallInv
<1>12. CASE open_with_dir
  BY <1>12 DEF open_with_dir, CallInv
<1>13. CASE UNCHANGED vars
  BY <1>13 DEF vars, memtable, tables, caller, CallInv
<1>14. CASE open_fails
  BY <1>13, <1>14 DEF open_fails
<1>15. CASE set_value \/ delete_value \/ (txn_commit /\ pending # EmptyTable)
  BY <1>15, BatchNonempty DEF CallInv
<1>16. CASE txn_commit /\ pending = EmptyTable
  BY <1>16 DEF txn_commit, Goto, CallInv
<1>17. CASE \/ set_memtable_budget \/ begin_transaction \/ txn_set_value
            \/ txn_delete_value \/ rollback \/ call_flush \/ call_compact
  BY <1>17 DEF set_memtable_budget, begin_transaction, txn_set_value, txn_delete_value,
               rollback, call_flush, call_compact, memtable, CallInv
<1> QED
  BY <1>1, <1>3, <1>4, <1>5, <1>6, <1>7, <1>8, <1>9, <1>10, <1>11, <1>12, <1>13, <1>14,
     <1>15, <1>16, <1>17
  DEF Next, Engine, Client

\* What a step may do to the result of the last write.
WithinLimits ==
    result' = "ok" /\ result # "ok" =>
        IF data' = EmptyTable
          THEN Len(sstables') <= MAX_SSTABLES
          ELSE ~(memtable_bytes' >= memtable_max_bytes)

\* Only the steps that return Ok to a write can end with that result.
LEMMA StepWithinLimits ==
    IndInv /\ LogInv /\ CallInv /\ [Next]_vars => [WithinLimits]_vars
<1> SUFFICES ASSUME IndInv, LogInv, CallInv, Next PROVE WithinLimits
  BY DEF WithinLimits
<1> SUFFICES ASSUME result' = "ok", result # "ok"
             PROVE  IF data' = EmptyTable
                      THEN Len(sstables') <= MAX_SSTABLES
                      ELSE ~(memtable_bytes' >= memtable_max_bytes)
  BY DEF WithinLimits
<1>0. /\ data \in Table /\ pending \in Table /\ sstables \in Seq(Nat)
      /\ Len(sstables) \in Nat /\ MAX_SSTABLES \in Nat \ {0}
  BY LimitsAssumption DEF IndInv, TypeOK
<1>1. /\ pending # EmptyTable /\ Return("ok")
      /\ apply \/ flush \/ clear \/ compact \/ compacted
  <2>1. \A l : ~Goto(l) /\ ~UNCHANGED result
    BY DEF Goto
  <2>2. ~Client /\ ~process_crash /\ ~power_loss
    <3>1. ASSUME NEW b PROVE ~Log(b)
      BY DEF Log
    <3>2. ~Down
      BY DEF Down
    <3> QED
      BY <2>1, <3>1, <3>2
      DEF Client, open_with_dir, open_fails, close, set_memtable_budget, set_value,
          delete_value, begin_transaction, txn_set_value, txn_delete_value, txn_commit,
          rollback, call_flush, call_compact, process_crash, power_loss, PowerCut, vars,
          caller
  <2>3. ~Return("err")
    BY DEF Return
  <2>4. Engine
    BY <2>2 DEF Next
  <2>5. Return("ok") /\ (apply \/ flush \/ clear \/ compact \/ compacted)
    BY <2>1, <2>3, <2>4
    DEF Engine, append, append_fails, write_commit, write_commit_fails, sync_commit,
        sync_commit_fails, apply, flush, flush_sync, flush_fails, clear, clear_fails,
        compact, merge_sync, compact_fails, remove_file, compacted
  <2> QED BY <2>5 DEF Return
<1>2. CASE apply
  <2>1. data' # EmptyTable
    BY <1>0, <1>1, <1>2, OverlayNonempty DEF apply
  <2>2. ~reaches_budget(memtable_bytes')
    <3>1. ~Goto("flush")
      BY <1>1 DEF Return, Goto
    <3> QED BY <1>2, <3>1 DEF apply
  <2> QED BY <2>1, <2>2 DEF reaches_budget
<1>3. CASE flush
  <2>1. data # EmptyTable /\ ~Goto("flush_sync")
    BY <1>1, <1>3 DEF flush, CallInv, Return, Goto
  <2> QED BY <1>3, <2>1 DEF flush
<1>4. CASE clear
  <2>1. data' = EmptyTable /\ sstables' = sstables
    BY <1>4 DEF clear, memtable, tables, LogInv, BatchLogged
  <2>2. ~too_many(sstables)
    <3>1. ~Goto("compact")
      BY <1>1 DEF Return, Goto
    <3> QED BY <1>4, <3>1 DEF clear
  <2> QED BY <1>0, <2>1, <2>2 DEF too_many
<1>5. CASE compact
  <2>1. Len(sstables) < 2 /\ sstables' = sstables /\ data' = data /\ data = EmptyTable
    <3>1. ~Goto("merge_sync") /\ pc' # "unlink"
      BY <1>1 DEF Return, Goto
    <3> QED BY <1>1, <1>5, <3>1 DEF compact, memtable, tables, CallInv
  <2> QED BY <1>0, <2>1
<1>6. CASE compacted
  <2>1. Len(sstables) <= 1 /\ sstables' = sstables /\ data' = data /\ data = EmptyTable
    BY <1>1, <1>6 DEF compacted, memtable, tables, CallInv
  <2> QED BY <1>0, <2>1
<1> QED BY <1>1, <1>2, <1>3, <1>4, <1>5, <1>6

\* A write reports Ok only with the table within its limits: the memtable
\* below its budget, and, behind a flush, no more than MAX_SSTABLES tables.
THEOREM WritesKeepLimits == Spec => LimitsHeld
<1>1. Init => LogInv /\ CallInv
  BY LoggedEmpty DEF Init, LogInv, LoggedBeforeApplied, BatchLogged, CallInv
<1>2. LimitsHeld <=> [][WithinLimits]_vars
  BY DEF LimitsHeld, WithinLimits
<1> QED BY InitInv, NextInv, NextLogInv, NextCallInv, StepWithinLimits, <1>1, <1>2, PTL
        DEF Spec

-----------------------------------------------------------------------------
(***************************************************************************)
(* The log is fsynced before the memtable changes.  Between calls the log  *)
(* is as it was last fsynced, unless Wal::clear emptied it and could not   *)
(* fsync that: then it has nothing to replay.                              *)
(***************************************************************************)

\* The failures that can leave a COMMIT in the log that is not fsynced.
UnsyncedFaults == {"process_crash", "wal_error"}

SyncInv ==
    /\ FlushedBeforeApplied
    /\ pc = "apply" => LoggedIn(synced, pending)
    /\ pc \notin {"append", "commit", "sync"} => wal = synced \/ wal = << >>

LEMMA EmptyLog ==
    /\ << >> \in Seq(Record)
    /\ parse_buffer(<< >>) = 0
    /\ replay_wal(<< >>) = EmptyTable
<1>1. << >> \in Seq(Record) /\ Len(<< >>) = 0
  OBVIOUS
<1>2. parse_buffer(<< >>) \in 0..Len(<< >>)
  BY <1>1, ParseBound
<1>3. parse_buffer(<< >>) = 0
  BY <1>1, <1>2
<1>4. \A k \in Keys : LastEntry(<< >>, 0, k) = Absent
  BY DEF LastEntry
<1>5. replay_wal(<< >>) = [k \in Keys |-> LastEntry(<< >>, 0, k)]
  BY <1>3 DEF replay_wal
<1> QED BY <1>1, <1>3, <1>4, <1>5 DEF EmptyTable

\* Steps that leave the log alone and the memtable as it is or empty.
LEMMA SameSync ==
    ASSUME SyncInv, UNCHANGED <<wal, synced>>, data' = data \/ data' = EmptyTable,
           pc \notin {"append", "commit", "sync"}, pc' # "apply"
    PROVE  SyncInv'
BY LoggedEmpty DEF SyncInv, FlushedBeforeApplied

\* SyncInv is inductive relative to IndInv and LogInv.
LEMMA NextSyncInv ==
    ASSUME Faults \cap UnsyncedFaults = {}
    PROVE  IndInv /\ LogInv /\ SyncInv /\ [Next]_vars => SyncInv'
<1> SUFFICES ASSUME IndInv, LogInv, SyncInv, [Next]_vars PROVE SyncInv'
  OBVIOUS
<1>0. /\ wal \in Seq(Record) /\ synced \in Seq(Record) /\ data \in Table
      /\ pending \in Table
  BY DEF IndInv, TypeOK
<1>1. CASE append \/ write_commit
  <2>1. UNCHANGED <<synced, data>> /\ pc' \in {"append", "commit", "sync"}
    BY <1>1 DEF append, write_commit, Goto, memtable
  <2> QED BY <2>1 DEF SyncInv, FlushedBeforeApplied
<1>2. CASE sync_commit
  <2>1. UNCHANGED <<wal, data, pending>> /\ synced' = wal /\ pc' = "apply"
    BY <1>2 DEF sync_commit, sync_all, Goto, memtable
  <2>2. LoggedIn(wal, data) /\ LoggedIn(wal, pending)
    BY <1>2 DEF sync_commit, LogInv, LoggedBeforeApplied, BatchLogged
  <2> QED BY <2>1, <2>2 DEF SyncInv, FlushedBeforeApplied
<1>3. CASE apply
  <2>1. /\ data' = Overlay(data, pending) /\ UNCHANGED <<wal, synced>>
        /\ pc' \in {"flush", "idle"}
    BY <1>3 DEF apply, Goto, Return, log
  <2>2. LoggedIn(synced, data) /\ LoggedIn(synced, pending) /\ pc = "apply"
    BY <1>3 DEF apply, SyncInv, FlushedBeforeApplied
  <2>3. LoggedIn(synced', data')
    BY <1>0, <2>1, <2>2, LoggedOverlay
  <2> QED BY <2>1, <2>2, <2>3 DEF SyncInv, FlushedBeforeApplied
<1>4. CASE clear \/ clear_fails
  <2>1. /\ data' = EmptyTable /\ pc' \in {"idle", "compact"}
        /\ wal' = synced' \/ (wal' = wal /\ synced' = synced) \/ wal' = << >>
    BY <1>4 DEF clear, clear_fails, Goto, Return, memtable, LogInv, BatchLogged
  <2>2. wal = synced \/ wal = << >>
    BY <1>4 DEF clear, clear_fails, SyncInv
  <2> QED BY <2>1, <2>2, LoggedEmpty DEF SyncInv, FlushedBeforeApplied
<1>5. CASE \/ flush \/ flush_sync \/ flush_fails \/ compact \/ merge_sync
           \/ compact_fails \/ remove_file \/ compacted
  <2>1. /\ UNCHANGED <<wal, synced>> /\ (data' = data \/ data' = EmptyTable)
        /\ pc \notin {"append", "commit", "sync"} /\ pc' # "apply"
    BY <1>5 DEF flush, flush_sync, flush_fails, compact, merge_sync, compact_fails,
                remove_file, compacted, Goto, Return, memtable, log
  <2> QED BY <2>1, SameSync
<1>6. CASE append_fails \/ write_commit_fails \/ sync_commit_fails \/ process_crash
  BY <1>6 DEF append_fails, write_commit_fails, sync_commit_fails, process_crash,
              UnsyncedFaults
<1>7. CASE open_with_dir
  <2>1. /\ data' = replay_wal(wal) /\ wal' = read_for_recovery(wal) /\ pc' = "idle"
        /\ synced' = IF Len(wal') < Len(wal) THEN wal' ELSE synced
        /\ pc = "closed"
    BY <1>7 DEF open_with_dir
  <2>2. /\ wal' \in Seq(Record) /\ Len(wal') \in 0..Len(wal)
        /\ \A i \in 1..Len(wal') : wal'[i] = wal[i]
    BY <1>0, <2>1, RecoveryIsPrefix, ParseBound
  <2>3. LoggedIn(wal', data')
    BY <1>0, <2>1, LoggedReplay
  <2>4. CASE Len(wal') < Len(wal)
    BY <2>1, <2>3, <2>4 DEF SyncInv, FlushedBeforeApplied
  <2>5. CASE ~(Len(wal') < Len(wal))
    <3>1. wal' = wal /\ synced' = synced
      BY <1>0, <2>1, <2>2, <2>5
    <3>2. CASE wal = synced
      BY <2>1, <2>3, <3>1, <3>2 DEF SyncInv, FlushedBeforeApplied
    <3>3. CASE wal = << >>
      BY <2>1, <3>1, <3>3, EmptyLog, LoggedEmpty DEF SyncInv, FlushedBeforeApplied
    <3> QED BY <2>1, <3>2, <3>3 DEF SyncInv
  <2> QED BY <2>4, <2>5
<1>8. CASE close
  <2>1. UNCHANGED <<wal, synced>> /\ data' = EmptyTable /\ pc' = "closed" /\ pc = "idle"
    BY <1>8 DEF close, Down, log
  <2> QED BY <2>1, SameSync
<1>9. CASE power_loss
  <2>1. synced' = wal' /\ data' = EmptyTable /\ pc' = "closed"
    BY <1>9 DEF power_loss, PowerCut, Down
  <2> QED BY <2>1, LoggedEmpty DEF SyncInv, FlushedBeforeApplied
<1>10. CASE UNCHANGED vars
  BY <1>10 DEF vars, memtable, log, caller, SyncInv, FlushedBeforeApplied
<1>11. CASE open_fails
  BY <1>10, <1>11 DEF open_fails
<1>12. CASE set_value \/ delete_value \/ (txn_commit /\ pending # EmptyTable)
  <2>1. UNCHANGED <<synced, data>> /\ pc' = "append"
    BY <1>12 DEF set_value, delete_value, txn_commit, Log, memtable, log
  <2> QED BY <2>1 DEF SyncInv, FlushedBeforeApplied
<1>13. CASE \/ set_memtable_budget \/ begin_transaction \/ txn_set_value
            \/ txn_delete_value \/ rollback \/ call_flush \/ call_compact
            \/ (txn_commit /\ pending = EmptyTable)
  <2>1. /\ UNCHANGED <<data, wal, synced>> /\ pc \in {"idle", "txn"} /\ pc' # "apply"
    BY <1>13 DEF set_memtable_budget, begin_transaction, txn_set_value, txn_delete_value,
                 rollback, call_flush, call_compact, txn_commit, Goto, memtable, log
  <2> QED BY <2>1, SameSync
<1> QED
  BY <1>1, <1>2, <1>3, <1>4, <1>5, <1>6, <1>7, <1>8, <1>9, <1>10, <1>11, <1>12, <1>13
  DEF Next, Engine, Client

\* The durability rule of CONTRIBUTING.md in full: if no process dies on its own
\* and the log does not fail, the memtable holds only entries that are fsynced
\* in the log under a COMMIT, whatever power losses, half-written SSTables and
\* failed clears came before.
THEOREM FlushedFirst ==
    ASSUME Faults \cap UnsyncedFaults = {}
    PROVE  Spec => []FlushedBeforeApplied
<1>1. Init => LogInv /\ SyncInv
  BY LoggedEmpty DEF Init, LogInv, LoggedBeforeApplied, BatchLogged, SyncInv,
                     FlushedBeforeApplied
<1>2. SyncInv => FlushedBeforeApplied
  BY DEF SyncInv
<1>3. IndInv /\ LogInv /\ SyncInv /\ [Next]_vars => SyncInv'
  BY NextSyncInv
<1> QED BY InitInv, NextInv, NextLogInv, <1>1, <1>2, <1>3, PTL DEF Spec

-----------------------------------------------------------------------------
(***************************************************************************)
(* The size estimate of the memtable.                                      *)
(***************************************************************************)

LEMMA NextBytes == IndInv /\ MemtableBytesExact /\ [Next]_vars => MemtableBytesExact'
<1> SUFFICES ASSUME IndInv, MemtableBytesExact, [Next]_vars PROVE MemtableBytesExact'
  OBVIOUS
<1>1. CASE UNCHANGED <<data, memtable_bytes>>
  BY <1>1 DEF MemtableBytesExact
<1>2. CASE data' = EmptyTable /\ memtable_bytes' = 0
  BY <1>2, FootprintEmpty DEF MemtableBytesExact
<1>3. CASE open_with_dir
  BY <1>3 DEF open_with_dir, MemtableBytesExact
<1>4. CASE apply
  <2> DEFINE r == [k \in Keys |-> IF pending[k] = Absent THEN Absent ELSE data[k]]
  <2>1. data \in Table /\ pending \in Table
    BY DEF IndInv, TypeOK
  <2>2. r \in Table
    BY <2>1 DEF Table
  <2>3. memtable_bytes' = Footprint(data) + Footprint(pending) - Footprint(r)
    BY <1>4 DEF apply, replaced_bytes, MemtableBytesExact
  <2> HIDE DEF r
  <2>4. /\ Overlay(data, pending) \in Table
        /\ Footprint(Overlay(data, pending)) + Footprint(r)
               = Footprint(data) + Footprint(pending)
    BY <2>1, <2>2, FootprintOverlay DEF r
  <2>5. /\ Footprint(data) \in Nat /\ Footprint(pending) \in Nat
        /\ Footprint(r) \in Nat /\ Footprint(Overlay(data, pending)) \in Nat
    BY <2>1, <2>2, <2>4, FootprintType
  <2>6. memtable_bytes' = Footprint(Overlay(data, pending))
    BY <2>3, <2>4, <2>5
  <2> QED BY <1>4, <2>6 DEF apply, MemtableBytesExact
<1>5. CASE flush_sync
  BY <1>2, <1>5 DEF flush_sync
<1>6. CASE close \/ process_crash \/ power_loss
  BY <1>2, <1>6 DEF close, process_crash, power_loss, PowerCut, Down
<1>7. CASE \/ append \/ append_fails \/ write_commit \/ write_commit_fails
           \/ sync_commit \/ sync_commit_fails \/ flush \/ flush_fails
           \/ clear \/ clear_fails \/ compact \/ merge_sync \/ compact_fails
           \/ remove_file \/ compacted
  BY <1>1, <1>7 DEF append, append_fails, write_commit, write_commit_fails,
     sync_commit, sync_commit_fails, flush, flush_fails, clear, clear_fails,
     compact, merge_sync, compact_fails, remove_file, compacted, memtable
<1>8. CASE \/ open_fails \/ set_memtable_budget \/ set_value \/ delete_value
           \/ begin_transaction \/ txn_set_value \/ txn_delete_value
           \/ txn_commit \/ rollback \/ call_flush \/ call_compact
  BY <1>1, <1>8 DEF open_fails, set_memtable_budget, set_value, delete_value,
     begin_transaction, txn_set_value, txn_delete_value, txn_commit, rollback,
     call_flush, call_compact, Log, vars, memtable
<1>9. CASE UNCHANGED vars
  BY <1>1, <1>9 DEF vars, memtable
<1> QED
  BY <1>3, <1>4, <1>5, <1>6, <1>7, <1>8, <1>9 DEF Next, Engine, Client

(***************************************************************************)
(* memtable_bytes, which memtable_insert keeps by adding an entry's        *)
(* footprint and taking off that of the entry it replaces, is the          *)
(* footprint of the memtable after any sequence of writes, flushes and     *)
(* recoveries: the estimate never drifts and never goes below zero.        *)
(***************************************************************************)
THEOREM EstimateStaysExact == Spec => []MemtableBytesExact
<1>1. Init => IndInv /\ MemtableBytesExact
  BY InitInv, FootprintEmpty DEF Init, MemtableBytesExact
<1> QED BY <1>1, NextInv, NextBytes, PTL DEF Spec

=============================================================================
