------------------------ MODULE StoreRefinesKVProofs ------------------------
(***************************************************************************)
(* The storage engine implements the abstract table: proof for every set   *)
(* of keys, values and limits.                                             *)
(***************************************************************************)
EXTENDS StoreRefinesKV, StoreProofs

(***************************************************************************)
(* The failures under which the refinement holds.  The others are those of *)
(* the runs that end in a violation: a compaction that leaves some of its  *)
(* inputs behind, and a log that goes on behind a failed write.  A process *)
(* that dies leaves a COMMIT that is not fsynced, which a power loss in    *)
(* the next session may still take back: one of the two, not both.         *)
(***************************************************************************)
OrderlyFaults ==
    /\ Faults \cap {"cleanup_crash", "unlink_error", "wal_error", "wal_torn"} = {}
    /\ ~({"process_crash", "power_loss"} \subseteq Faults)

-----------------------------------------------------------------------------
\* The newest entry that the files of S have for every key.
Newest(fs, S) ==
    [k \in Keys |-> LET h == {id \in S : fs[id][k] # Absent}
                    IN  IF h = {} THEN Absent ELSE fs[Max(h)][k]]

OpenTables == Newest(files, SeqRange(sstables))
AllFiles == Newest(files, DOMAIN files)

\* Over base, the entries of replay show a reader what those of mem show: where
\* they differ mem has nothing and base has the same already.
SameOver(base, replay, mem) ==
    \A k \in Keys : \/ replay[k] = mem[k]
                    \/ mem[k] = Absent /\ Live(replay)[k] = Live(base)[k]

\* base and other differ only in keys that mem hides.
SameUnder(base, other, mem) ==
    \A k \in Keys : mem[k] # Absent \/ Live(other)[k] = Live(base)[k]

\* What the first n records of w amount to.
Upto(w, n) == [k \in Keys |-> LastEntry(w, n, k)]

-----------------------------------------------------------------------------
(***************************************************************************)
(* The inductive invariant.                                                *)
(***************************************************************************)

\* The first b records of the open log are committed; the rest is the batch that
\* is being logged.
LogForm(b) ==
    /\ b \in 0..Len(wal)
    /\ b = 0 \/ wal[b].op = "commit"
    /\ \A i \in 1..Len(wal) : wal[i].op # "torn"
    /\ \A i \in 1..Len(wal) :
           wal[i].op = "commit" => i <= b \/ (pc \in {"sync", "apply"} /\ i = Len(wal))
    /\ pc \notin {"append", "commit", "sync", "apply"} => b = Len(wal)
    /\ pc = "append" => todo \subseteq KeysOf(pending)
    /\ pc = "commit" => todo = {}
    /\ pc \in {"append", "commit"} =>
           \A k \in Keys : Upto(wal, Len(wal))[k] =
               IF pending[k] # Absent /\ k \notin todo THEN pending[k] ELSE Upto(wal, b)[k]
    /\ pc \in {"sync", "apply"} =>
           /\ Len(wal) > 0 /\ wal[Len(wal)].op = "commit"
           /\ Upto(wal, Len(wal)) = Overlay(Upto(wal, b), pending)

\* The committed records amount to the memtable, or to what the SSTables have
\* (after a clear that failed).
LogShape(b) ==
    /\ LogForm(b)
    /\ SameOver(OpenTables, Upto(wal, b), data)
    /\ pc = "clear" => data = EmptyTable

\* What a power loss may find fsynced of an open log: the committed part, or
\* the log that a failed clear meant to empty.
SyncShape(b) ==
    IF pc = "apply"
      THEN synced = wal
      ELSE \/ synced = SubSeq(wal, 1, b)
           \/ b = 0 /\ SameOver(OpenTables, replay_wal(synced), data)

\* The same of a log that is closed.
ClosedShape ==
    \/ synced = wal
    \/ wal = << >> /\ SameOver(AllFiles, replay_wal(synced), EmptyTable)

\* The files of an open table: those it lists, those compact removes, and at
\* most one that a failed flush or compaction left at the next id, which shows
\* a reader nothing new.
DiskShape ==
    /\ pc \notin {"unlink", "unlinking"} => doomed = {}
    /\ DOMAIN files \subseteq SeqRange(sstables) \cup doomed \cup {next_sstable_id}
    /\ next_sstable_id \in DOMAIN files =>
           SameUnder(OpenTables, Overlay(OpenTables, files[next_sstable_id]), data)
    /\ pc \in {"flush_sync", "merge_sync"} => next_sstable_id \notin DOMAIN files
    /\ pc = "unlink" =>
           /\ doomed \subseteq DOMAIN files
           /\ \A id \in doomed, m \in SeqRange(sstables) : id < m
           /\ Live(Newest(files, doomed)) = Live(OpenTables)

OpenShape(b) == LogShape(b) /\ ("power_loss" \in Faults => SyncShape(b))

DurInv ==
    IF pc = "closed"
      THEN "power_loss" \in Faults => ClosedShape
      ELSE /\ DiskShape
           /\ \E b \in 0..Len(wal) : OpenShape(b)

-----------------------------------------------------------------------------
(***************************************************************************)
(* Sets of SSTables.                                                       *)
(***************************************************************************)

\* e is the newest entry that the files of S have for key k.
IsNewest(fs, S, k, e) ==
    \/ e = Absent /\ \A id \in S : fs[id][k] = Absent
    \/ \E m \in S : /\ e = fs[m][k] /\ e # Absent
                    /\ \A id \in S : fs[id][k] # Absent => id <= m

\* Newest gives every key its newest entry, and there is only one.
LEMMA NewestIs ==
    ASSUME NEW fs, NEW S \in SUBSET Nat, IsFiniteSet(S), NEW k \in Keys
    PROVE  /\ IsNewest(fs, S, k, Newest(fs, S)[k])
           /\ \A e : IsNewest(fs, S, k, e) => e = Newest(fs, S)[k]
<1> DEFINE h == {id \in S : fs[id][k] # Absent}
           e == Newest(fs, S)[k]
<1>1. e = IF h = {} THEN Absent ELSE fs[Max(h)][k]
  BY DEF Newest
<1>2. h \in SUBSET Nat /\ IsFiniteSet(h)
  BY FS_Subset
<1>3. h # {} => Max(h) \in h /\ \A y \in h : Max(h) >= y
  <2> HIDE DEF h
  <2> QED BY <1>2, MaxOfFinite
<1>4. IsNewest(fs, S, k, e)
  <2>1. CASE h = {}
    BY <1>1, <2>1 DEF IsNewest
  <2>2. CASE h # {}
    <3>1. Max(h) \in S /\ fs[Max(h)][k] # Absent /\ e = fs[Max(h)][k]
      BY <1>1, <1>3, <2>2
    <3>2. \A id \in S : fs[id][k] # Absent => id <= Max(h)
      BY <1>2, <1>3, <2>2
    <3> QED BY <3>1, <3>2 DEF IsNewest
  <2> QED BY <2>1, <2>2
<1>5. ASSUME NEW d, IsNewest(fs, S, k, d) PROVE d = e
  <2> HIDE DEF e
  <2>1. \A m, n \in S : m <= n /\ n <= m => m = n
    OBVIOUS
  <2> QED BY <1>4, <1>5, <2>1, Zenon DEF IsNewest
<1> QED BY <1>4, <1>5

\* Newest is a table.
LEMMA NewestType ==
    ASSUME NEW fs, NEW S \in SUBSET Nat, IsFiniteSet(S),
           \A id \in S : fs[id] \in Table
    PROVE  Newest(fs, S) \in Table
<1>1. ASSUME NEW k \in Keys PROVE Newest(fs, S)[k] \in Entry \cup {Absent}
  <2>1. IsNewest(fs, S, k, Newest(fs, S)[k])
    BY NewestIs
  <2>2. \A id \in S : fs[id][k] \in Entry \cup {Absent}
    BY DEF Table
  <2> DEFINE e == Newest(fs, S)[k]
  <2> HIDE DEF e
  <2> QED BY <2>1, <2>2, Zenon DEF IsNewest, e
<1> DEFINE t == Newest(fs, S)
<1>2. t = [k \in Keys |-> t[k]]
  BY DEF Newest
<1> HIDE DEF t
<1>3. t \in Table
  BY <1>1, <1>2 DEF Table, t
<1> QED BY <1>3 DEF t

\* Reading tables that are listed newest first finds the newest entry.
LEMMA MergeIsNewest ==
    ASSUME NEW fs, NEW ids \in Seq(Nat),
           \A i, j \in 1..Len(ids) : i < j => ids[i] > ids[j]
    PROVE  /\ Merge(fs, ids) = Newest(fs, SeqRange(ids))
           /\ IsFiniteSet(SeqRange(ids)) /\ SeqRange(ids) \in SUBSET Nat
<1> DEFINE S == SeqRange(ids)
<1>1. S \in SUBSET Nat
  BY DEF SeqRange
<1>2. IsFiniteSet(S)
  <2>1. IsFiniteSet(1..Len(ids))
    BY FS_Interval
  <2>2. ids \in Surjection(1..Len(ids), S)
    BY DEF SeqRange, Surjection
  <2> HIDE DEF S
  <2> QED BY <2>1, <2>2, FS_Surjection
<1>3. ASSUME NEW k \in Keys PROVE Merge(fs, ids)[k] = Newest(fs, S)[k]
  <2> DEFINE h == Holding(fs, ids, k)
             e == Merge(fs, ids)[k]
  <2>1. e = IF h = {} THEN Absent ELSE fs[ids[Min(h)]][k]
    BY DEF Merge
  <2>2. h \in SUBSET Nat
    BY DEF Holding
  <2>3. \A i \in 1..Len(ids) : fs[ids[i]][k] # Absent <=> i \in h
    BY DEF Holding
  <2>4. h \in SUBSET (1..Len(ids))
    BY DEF Holding
  <2>5. \A id \in S : \E i \in 1..Len(ids) : id = ids[i]
    BY DEF SeqRange
  <2>6. \A i \in 1..Len(ids) : ids[i] \in S /\ ids[i] \in Nat
    BY DEF SeqRange
  <2> HIDE DEF h, S, e
  <2>7. IsNewest(fs, S, k, e)
    <3>1. CASE h = {}
      BY <2>1, <2>3, <2>5, <3>1 DEF IsNewest
    <3>2. CASE h # {}
      <4>1. Min(h) \in h /\ \A y \in h : Min(h) <= y
        BY <2>2, <3>2, MinOfNats
      <4> DEFINE m == ids[Min(h)]
      <4>2. m \in S /\ e = fs[m][k] /\ e # Absent
        BY <2>1, <2>3, <2>4, <2>6, <3>2, <4>1
      <4>3. \A i \in h : ids[i] <= m
        <5> TAKE i \in h
        <5> DEFINE p == Min(h)
        <5>1. p \in 1..Len(ids) /\ i \in 1..Len(ids) /\ p <= i /\ m = ids[p]
          BY <2>4, <4>1
        <5> HIDE DEF p, m
        <5> QED BY <5>1, <2>6
      <4> HIDE DEF m
      <4>4. \A id \in S : fs[id][k] # Absent => id <= m
        BY <2>3, <2>5, <4>3
      <4> QED BY <4>2, <4>4 DEF IsNewest
    <3> QED BY <3>1, <3>2
  <2>8. e = Newest(fs, S)[k]
    BY <1>1, <1>2, <2>7, NewestIs
  <2> QED BY <2>8 DEF e
<1>4. Merge(fs, ids) = Newest(fs, S)
  BY <1>3 DEF Merge, Newest
<1> QED BY <1>1, <1>2, <1>4

\* load_sstables lists every file of the directory.
LEMMA NewestFirstLists ==
    ASSUME NEW S \in SUBSET Nat, IsFiniteSet(S)
    PROVE  SeqRange(NewestFirst(S)) = S
<1> DEFINE s == NewestFirst(S)
           c == Cardinality(S)
<1>1. /\ s \in Seq(Nat) /\ Len(s) = c /\ c \in Nat
      /\ \A i \in 1..c : s[i] \in S
      /\ \A i, j \in 1..c : i < j => s[i] > s[j]
  BY NewestFirstSorts, FS_CardinalityType
<1> HIDE DEF s, c
<1>2. IsFiniteSet(1..c) /\ Cardinality(1..c) = c
  BY <1>1, FS_Interval
<1>3. s \in Injection(1..c, S)
  <2>1. s \in [1..c -> S]
    BY <1>1
  <2>2. \A i, j \in 1..c : s[i] = s[j] => i = j
    BY <1>1
  <2> QED BY <2>1, <2>2 DEF Injection, IsInjective
<1>4. s \in Surjection(1..c, S)
  BY <1>2, <1>3, FS_Injection DEF c
<1>5. \A x \in S : \E i \in 1..c : s[i] = x
  BY <1>4 DEF Surjection
<1> QED BY <1>1, <1>5 DEF SeqRange, s

\* What Newest finds depends on the files of the set alone.
LEMMA NewestSame ==
    ASSUME NEW fs, NEW gs, NEW S \in SUBSET Nat, IsFiniteSet(S),
           \A id \in S : fs[id] = gs[id]
    PROVE  Newest(fs, S) = Newest(gs, S)
<1>1. ASSUME NEW k \in Keys PROVE Newest(fs, S)[k] = Newest(gs, S)[k]
  <2>1. IsNewest(fs, S, k, Newest(fs, S)[k])
    BY NewestIs
  <2>2. IsNewest(gs, S, k, Newest(fs, S)[k])
    <3> DEFINE e == Newest(fs, S)[k]
    <3> HIDE DEF e
    <3> QED BY <2>1, Zenon DEF IsNewest, e
  <2> QED BY <2>2, NewestIs
<1> QED BY <1>1 DEF Newest

\* Newer files go over older ones.
LEMMA NewestAbove ==
    ASSUME NEW fs, NEW A \in SUBSET Nat, NEW B \in SUBSET Nat,
           IsFiniteSet(A), IsFiniteSet(B), \A a \in A, b \in B : a < b
    PROVE  Newest(fs, A \cup B) = Overlay(Newest(fs, A), Newest(fs, B))
<1> DEFINE a == Newest(fs, A)
           b == Newest(fs, B)
           c == Newest(fs, A \cup B)
<1>0. IsFiniteSet(A \cup B) /\ A \cup B \in SUBSET Nat
  BY FS_Union
<1>1. ASSUME NEW k \in Keys PROVE c[k] = IF b[k] # Absent THEN b[k] ELSE a[k]
  <2>1. IsNewest(fs, A, k, a[k]) /\ IsNewest(fs, B, k, b[k])
    BY NewestIs
  <2>2. \A e : IsNewest(fs, A \cup B, k, e) => e = c[k]
    <3> DEFINE C == A \cup B
    <3>1. C \in SUBSET Nat /\ IsFiniteSet(C)
      BY <1>0
    <3> HIDE DEF C
    <3> QED BY <3>1, NewestIs DEF C
  <2> HIDE DEF a, b, c
  <2>3. CASE b[k] = Absent
    <3>1. \A id \in B : fs[id][k] = Absent
      BY <2>1, <2>3 DEF IsNewest
    <3>2. IsNewest(fs, A \cup B, k, a[k])
      BY <2>1, <3>1 DEF IsNewest
    <3> QED BY <2>2, <2>3, <3>2
  <2>4. CASE b[k] # Absent
    <3>1. PICK m \in B : /\ b[k] = fs[m][k]
                         /\ \A id \in B : fs[id][k] # Absent => id <= m
      BY <2>1, <2>4 DEF IsNewest
    <3>2. \A id \in A \cup B : fs[id][k] # Absent => id <= m
      BY <3>1
    <3>3. IsNewest(fs, A \cup B, k, b[k])
      BY <2>4, <3>1, <3>2 DEF IsNewest
    <3> QED BY <2>2, <2>4, <3>3
  <2> QED BY <2>3, <2>4
<1>2. c = [k \in Keys |-> c[k]]
  BY DEF Newest
<1> HIDE DEF a, b, c
<1>3. c = Overlay(a, b)
  BY <1>1, <1>2 DEF Overlay
<1> QED BY <1>3 DEF a, b, c

\* One file alone, and none.
LEMMA NewestOne ==
    ASSUME NEW fs, NEW n \in Nat, fs[n] \in Table
    PROVE  Newest(fs, {n}) = fs[n] /\ IsFiniteSet({n})
<1>1. IsFiniteSet({n})
  BY FS_Singleton
<1>2. ASSUME NEW k \in Keys PROVE Newest(fs, {n})[k] = fs[n][k]
  <2>1. IsNewest(fs, {n}, k, fs[n][k])
    BY DEF IsNewest
  <2> QED BY <1>1, <2>1, NewestIs
<1> QED BY <1>1, <1>2 DEF Newest, Table

LEMMA NewestNone ==
    ASSUME NEW fs
    PROVE  Newest(fs, {}) = EmptyTable /\ IsFiniteSet({})
<1>1. ASSUME NEW k \in Keys PROVE Newest(fs, {})[k] = Absent
  BY DEF Newest
<1> QED BY <1>1, FS_EmptySet DEF Newest, EmptyTable

-----------------------------------------------------------------------------
(***************************************************************************)
(* Readers' views.                                                         *)
(***************************************************************************)

\* What get_value finds in a memtable over SSTables.
View(lower, upper) == Live(Overlay(lower, upper))

\* A batch that lands in the memtable lands in the view.
LEMMA ViewLands ==
    ASSUME NEW s, NEW t, NEW p
    PROVE  View(s, Overlay(t, p)) = View(View(s, t), p)
BY MarkersAssumption DEF View, Live, Overlay

\* Compacting and flushing change no view.
LEMMA ViewOfLive ==
    ASSUME NEW s, NEW t
    PROVE  View(Live(s), t) = View(s, t)
BY MarkersAssumption DEF View, Live, Overlay

LEMMA ViewOfNothing ==
    ASSUME NEW s
    PROVE  View(s, EmptyTable) = Live(s)
BY DEF View, Live, Overlay, EmptyTable

LEMMA ViewIsTable ==
    ASSUME NEW s, NEW t
    PROVE  View(s, t) = [k \in Keys |-> View(s, t)[k]]
BY DEF View, Live

\* Logs and tables that agree with those of a session give its view.
LEMMA SameView ==
    ASSUME NEW base, NEW other, NEW replay, NEW mem, NEW d,
           SameOver(base, replay, mem), SameUnder(base, other, d),
           \A k \in Keys : d[k] # Absent => mem[k] # Absent
    PROVE  View(other, replay) = View(base, mem)
<1>1. ASSUME NEW k \in Keys PROVE View(other, replay)[k] = View(base, mem)[k]
  BY MarkersAssumption DEF SameOver, SameUnder, View, Live, Overlay
<1> QED BY <1>1, ViewIsTable, Zenon

LEMMA SameAsItself ==
    ASSUME NEW base, NEW t, NEW mem
    PROVE  SameOver(base, t, t) /\ SameUnder(base, base, mem)
BY DEF SameOver, SameUnder

\* A batch keeps two memtables the same.
LEMMA SameOverlaid ==
    ASSUME NEW base, NEW replay, NEW mem, NEW p, SameOver(base, replay, mem)
    PROVE  SameOver(base, Overlay(replay, p), Overlay(mem, p))
BY MarkersAssumption DEF SameOver, Live, Overlay

\* What was flushed is in the tables.
LEMMA SameFlushed ==
    ASSUME NEW base, NEW replay, NEW mem, SameOver(base, replay, mem)
    PROVE  SameOver(Overlay(base, mem), replay, EmptyTable)
BY MarkersAssumption DEF SameOver, Live, Overlay, EmptyTable

\* Only what a reader sees of the tables below matters.
LEMMA SameLive ==
    ASSUME NEW base, NEW other, NEW replay, NEW mem,
           SameOver(base, replay, mem), Live(other) = Live(base)
    PROVE  SameOver(other, replay, mem)
BY DEF SameOver

-----------------------------------------------------------------------------
(***************************************************************************)
(* Logs.                                                                   *)
(***************************************************************************)

Writes(w, i, k) == w[i].op \in {"put", "delete"} /\ w[i].key = k

\* e is the entry that the last write of k among the first n records gives it.
IsLast(w, n, k, e) ==
    \/ e = Absent /\ \A i \in 1..n : ~Writes(w, i, k)
    \/ \E m \in 1..n : /\ Writes(w, m, k) /\ e = w[m].entry
                       /\ \A i \in 1..n : Writes(w, i, k) => i <= m

LEMMA UptoIs ==
    ASSUME NEW w, NEW n \in Nat, NEW k \in Keys
    PROVE  /\ IsLast(w, n, k, Upto(w, n)[k])
           /\ \A e : IsLast(w, n, k, e) => e = Upto(w, n)[k]
<1> DEFINE h == {i \in 1..n : w[i].op \in {"put", "delete"} /\ w[i].key = k}
           e == Upto(w, n)[k]
<1>1. e = IF h = {} THEN Absent ELSE w[Max(h)].entry
  BY DEF Upto, LastEntry
<1>2. h \in SUBSET Nat /\ \A i \in h : i <= n
  OBVIOUS
<1>3. \A i \in 1..n : Writes(w, i, k) <=> i \in h
  BY DEF Writes
<1>4. h \in SUBSET (1..n)
  OBVIOUS
<1> HIDE DEF h, e
<1>5. h # {} => Max(h) \in h /\ \A y \in h : Max(h) >= y
  BY <1>2, MaxOfBounded
<1>6. IsLast(w, n, k, e)
  <2>1. CASE h = {}
    BY <1>1, <1>3, <2>1 DEF IsLast
  <2>2. CASE h # {}
    <3> DEFINE m == Max(h)
    <3>1. m \in 1..n /\ m \in h /\ e = w[m].entry
      BY <1>1, <1>4, <1>5, <2>2
    <3>2. \A y \in h : y <= m
      BY <1>2, <1>5, <2>2, <3>1
    <3> HIDE DEF m
    <3> QED BY <1>3, <3>1, <3>2 DEF IsLast
  <2> QED BY <2>1, <2>2
<1>7. ASSUME NEW d, IsLast(w, n, k, d) PROVE d = e
  <2>1. \A i, j \in 1..n : i <= j /\ j <= i => i = j
    OBVIOUS
  <2>2. CASE \A i \in 1..n : ~Writes(w, i, k)
    BY <1>6, <1>7, <2>2 DEF IsLast
  <2>3. CASE \E i \in 1..n : Writes(w, i, k)
    <3>1. PICK p \in 1..n : /\ Writes(w, p, k) /\ d = w[p].entry
                            /\ \A i \in 1..n : Writes(w, i, k) => i <= p
      BY <1>7, <2>3 DEF IsLast
    <3>2. PICK q \in 1..n : /\ Writes(w, q, k) /\ e = w[q].entry
                            /\ \A i \in 1..n : Writes(w, i, k) => i <= q
      BY <1>6, <2>3 DEF IsLast
    <3>3. p = q
      BY <2>1, <3>1, <3>2
    <3> QED BY <3>1, <3>2, <3>3
  <2> QED BY <2>2, <2>3
<1> QED BY <1>6, <1>7 DEF e

\* What the first records amount to depends on them alone.
LEMMA UptoAgrees ==
    ASSUME NEW w, NEW v, NEW n \in Nat, \A i \in 1..n : w[i] = v[i]
    PROVE  Upto(w, n) = Upto(v, n)
<1>1. ASSUME NEW k \in Keys PROVE Upto(w, n)[k] = Upto(v, n)[k]
  <2>1. IsLast(w, n, k, Upto(w, n)[k])
    BY UptoIs
  <2>2. IsLast(v, n, k, Upto(w, n)[k])
    <3> DEFINE e == Upto(w, n)[k]
    <3> HIDE DEF e
    <3> QED BY <2>1, Zenon DEF IsLast, Writes, e
  <2> QED BY <2>2, UptoIs
<1> QED BY <1>1 DEF Upto

\* One record more.
LEMMA UptoNext ==
    ASSUME NEW w, NEW n \in Nat, NEW k \in Keys
    PROVE  Upto(w, n + 1)[k] =
               IF Writes(w, n + 1, k) THEN w[n + 1].entry ELSE Upto(w, n)[k]
<1> DEFINE e == Upto(w, n)[k]
<1>1. IsLast(w, n, k, e)
  BY UptoIs
<1>2. \A d : IsLast(w, n + 1, k, d) => d = Upto(w, n + 1)[k]
  BY UptoIs
<1>3. \A i \in 1..(n + 1) : i = n + 1 \/ (i \in 1..n /\ i <= n)
  OBVIOUS
<1>4. 1..n \subseteq 1..(n + 1) /\ n + 1 \in 1..(n + 1)
      /\ \A i \in 1..(n + 1) : i <= n + 1
  OBVIOUS
<1> HIDE DEF e
<1>5. CASE Writes(w, n + 1, k)
  <2>1. IsLast(w, n + 1, k, w[n + 1].entry)
    BY <1>4, <1>5 DEF IsLast
  <2> QED BY <1>2, <1>5, <2>1
<1>6. CASE ~Writes(w, n + 1, k)
  <2>1. IsLast(w, n + 1, k, e)
    BY <1>1, <1>3, <1>4, <1>6, Zenon DEF IsLast
  <2> QED BY <1>2, <1>6, <2>1 DEF e
<1> QED BY <1>5, <1>6

LEMMA UptoNone ==
    ASSUME NEW w
    PROVE  Upto(w, 0) = EmptyTable
<1>1. ASSUME NEW k \in Keys PROVE Upto(w, 0)[k] = Absent
  <2>1. IsLast(w, 0, k, Absent)
    BY DEF IsLast
  <2> QED BY <2>1, UptoIs
<1> QED BY <1>1 DEF Upto, EmptyTable

LEMMA UptoType ==
    ASSUME NEW w \in Seq(Record), NEW n \in 0..Len(w)
    PROVE  Upto(w, n) \in Table
<1>1. ASSUME NEW k \in Keys PROVE Upto(w, n)[k] \in Entry \cup {Absent}
  <2> DEFINE e == Upto(w, n)[k]
  <2>1. IsLast(w, n, k, e)
    BY UptoIs
  <2>2. \A i \in 1..n : w[i].entry \in Entry \cup {Absent}
    <3> TAKE i \in 1..n
    <3>1. w[i] \in Record
      OBVIOUS
    <3> QED BY <3>1 DEF Record
  <2> HIDE DEF e
  <2>3. e \in Entry \cup {Absent}
    BY <2>1, <2>2, Zenon DEF IsLast
  <2> QED BY <2>3 DEF e
<1> DEFINE t == Upto(w, n)
<1>2. t = [k \in Keys |-> t[k]]
  BY DEF Upto
<1> HIDE DEF t
<1>3. t \in Table
  BY <1>1, <1>2 DEF Table, t
<1> QED BY <1>3 DEF t

\* Recovery brings back what is committed: the first b records, if a COMMIT ends
\* them, nothing in them is torn and no COMMIT follows.
LEMMA ReplayCommitted ==
    ASSUME NEW s \in Seq(Record), NEW w, NEW b \in 0..Len(s),
           \A i \in 1..b : s[i] = w[i],
           \A i \in 1..b : s[i].op # "torn",
           b = 0 \/ s[b].op = "commit",
           \A i \in 1..Len(s) : s[i].op = "commit" => i <= b
    PROVE  parse_buffer(s) = b /\ replay_wal(s) = Upto(w, b)
<1>1. b <= decoded(s) /\ decoded(s) \in 0..Len(s)
  <2> DEFINE cuts == At(s, {"torn"})
  <2>1. cuts \in SUBSET Nat /\ cuts \in SUBSET (1..Len(s))
    BY DEF At
  <2>2. \A i \in cuts : s[i].op = "torn"
    BY DEF At
  <2>3. decoded(s) = IF cuts = {} THEN Len(s) ELSE Min(cuts) - 1
    BY DEF decoded
  <2> HIDE DEF cuts
  <2>4. CASE cuts = {}
    BY <2>3, <2>4
  <2>5. CASE cuts # {}
    <3> DEFINE c == Min(cuts)
    <3>1. c \in 1..Len(s) /\ s[c].op = "torn" /\ decoded(s) = c - 1
      BY <2>1, <2>2, <2>3, <2>5, MinOfNats
    <3> HIDE DEF c
    <3>2. c \notin 1..b
      BY <3>1
    <3> QED BY <3>1, <3>2
  <2> QED BY <2>4, <2>5
<1>2. parse_buffer(s) = b
  <2> DEFINE p == parse_buffer(s)
  <2>1. /\ p \in 0..Len(s) /\ (p # 0 => p \in Commits(s))
        /\ \A i \in Commits(s) : i <= p
    BY ParseBound
  <2>2. b # 0 => b \in Commits(s)
    BY <1>1 DEF Commits
  <2>3. \A i \in Commits(s) : i \in 1..Len(s) /\ s[i].op = "commit"
    BY <1>1 DEF Commits
  <2> HIDE DEF p
  <2>4. p <= b
    BY <2>1, <2>3
  <2>5. b <= p
    BY <2>1, <2>2
  <2>6. p = b
    BY <2>1, <2>4, <2>5
  <2> QED BY <2>6 DEF p
<1>3. replay_wal(s) = Upto(s, b)
  BY <1>2 DEF replay_wal, Upto
<1>4. Upto(s, b) = Upto(w, b)
  BY UptoAgrees
<1> QED BY <1>2, <1>3, <1>4

-----------------------------------------------------------------------------
(***************************************************************************)
(* The tables of a session and those of its directory.                     *)
(***************************************************************************)

\* The open SSTables of a well-formed store.
LEMMA OpenFacts ==
    ASSUME IndInv, pc # "closed"
    PROVE  /\ SeqRange(sstables) \in SUBSET Nat /\ IsFiniteSet(SeqRange(sstables))
           /\ SeqRange(sstables) \subseteq DOMAIN files
           /\ \A id \in SeqRange(sstables) : id < next_sstable_id
           /\ Merge(files, sstables) = OpenTables
           /\ OpenTables \in Table
<1>1. /\ sstables \in Seq(Nat)
      /\ \A i, j \in 1..Len(sstables) : i < j => sstables[i] > sstables[j]
      /\ \A i \in 1..Len(sstables) : sstables[i] \in DOMAIN files
                                     /\ sstables[i] < next_sstable_id
      /\ files \in [DOMAIN files -> Table]
  BY DEF IndInv, TypeOK, HandleOrder
<1>2. /\ SeqRange(sstables) \in SUBSET Nat /\ IsFiniteSet(SeqRange(sstables))
      /\ Merge(files, sstables) = OpenTables
  BY <1>1, MergeIsNewest DEF OpenTables
<1>3. /\ SeqRange(sstables) \subseteq DOMAIN files
      /\ \A id \in SeqRange(sstables) : id < next_sstable_id
  BY <1>1 DEF SeqRange
<1>4. OpenTables \in Table
  <2> DEFINE S == SeqRange(sstables)
  <2>1. \A id \in S : files[id] \in Table
    BY <1>1, <1>3
  <2> HIDE DEF S
  <2> QED BY <1>2, <2>1, NewestType DEF OpenTables, S
<1> QED BY <1>2, <1>3, <1>4

\* The directory of a well-formed store.
LEMMA AllFacts ==
    ASSUME IndInv
    PROVE  /\ DOMAIN files \in SUBSET Nat /\ IsFiniteSet(DOMAIN files)
           /\ SeqRange(NewestFirst(DOMAIN files)) = DOMAIN files
           /\ Merge(files, NewestFirst(DOMAIN files)) = AllFiles
           /\ \A id \in DOMAIN files : files[id] \in Table
<1> DEFINE S == DOMAIN files
           s == NewestFirst(S)
<1>1. /\ S \in SUBSET Nat /\ IsFiniteSet(S) /\ files \in [S -> Table]
  BY DEF IndInv, TypeOK
<1>2. \A id \in S : files[id] \in Table
  BY <1>1
<1> HIDE DEF S
<1>3. s \in Seq(Nat) /\ \A i, j \in 1..Len(s) : i < j => s[i] > s[j]
  BY <1>1, NewestFirstSorts
<1>4. SeqRange(s) = S
  BY <1>1, NewestFirstLists
<1> HIDE DEF s
<1>5. Merge(files, s) = Newest(files, S)
  BY <1>3, <1>4, MergeIsNewest
<1> QED BY <1>1, <1>2, <1>4, <1>5 DEF AllFiles, S, s

\* Files that are obsolete, and one at the next id that shows nothing new, make
\* no difference to a reader of the memtable.
LEMMA SameDirectory ==
    ASSUME NEW fs, NEW R \in SUBSET Nat, NEW O \in SUBSET Nat, NEW n \in Nat,
           NEW mem,
           IsFiniteSet(R), IsFiniteSet(O),
           R \subseteq DOMAIN fs, O \subseteq DOMAIN fs,
           DOMAIN fs \subseteq R \cup O \cup {n},
           \A id \in R \cup O : id < n,
           \A a \in O, b \in R : a < b,
           O = {} \/ Live(Newest(fs, O)) = Live(Newest(fs, R)),
           n \in DOMAIN fs =>
               /\ fs[n] \in Table
               /\ SameUnder(Newest(fs, R), Overlay(Newest(fs, R), fs[n]), mem)
    PROVE  SameUnder(Newest(fs, R), Newest(fs, DOMAIN fs), mem)
<1> DEFINE t == Newest(fs, R)
           o == Newest(fs, O)
           S == O \cup R
           m == Newest(fs, S)
<1>1. S \in SUBSET Nat /\ IsFiniteSet(S) /\ \A id \in S : id < n
  BY FS_Union
<1>2. m = Overlay(o, t)
  BY NewestAbove
<1>3. Live(m) = Live(t)
  <2>1. CASE O = {}
    BY <2>1
  <2>2. CASE Live(o) = Live(t)
    <3> HIDE DEF o, t, m
    <3>1. \A k \in Keys : Live(o)[k] = Live(t)[k]
      BY <2>2
    <3>2. \A k \in Keys : Live(m)[k] = Live(t)[k]
      BY <1>2, <3>1, MarkersAssumption DEF Live, Overlay
    <3> QED BY <3>2 DEF Live
  <2> QED BY <2>1, <2>2
<1>4. CASE n \notin DOMAIN fs
  <2>1. DOMAIN fs = S
    BY <1>4
  <2> HIDE DEF S, t, m
  <2>2. SameUnder(t, m, mem)
    BY <1>3 DEF SameUnder
  <2> QED BY <2>1, <2>2 DEF t, m
<1>5. CASE n \in DOMAIN fs
  <2>1. DOMAIN fs = S \cup {n}
    BY <1>5
  <2>2. Newest(fs, {n}) = fs[n] /\ IsFiniteSet({n}) /\ {n} \in SUBSET Nat
    BY <1>5, NewestOne
  <2> HIDE DEF S
  <2>3. Newest(fs, S \cup {n}) = Overlay(m, fs[n])
    BY <1>1, <2>2, NewestAbove
  <2>4. SameUnder(t, Overlay(t, fs[n]), mem)
    BY <1>5
  <2> DEFINE f == fs[n]
  <2> HIDE DEF t, m, f
  <2>5. \A k \in Keys : Live(m)[k] = Live(t)[k]
    BY <1>3
  <2>6. \A k \in Keys : Live(Overlay(m, f))[k] = Live(Overlay(t, f))[k]
    BY <2>5 DEF Live, Overlay
  <2>7. SameUnder(t, Overlay(m, f), mem)
    BY <2>4, <2>6 DEF SameUnder, f
  <2> QED BY <2>1, <2>3, <2>7 DEF t, m, f
<1> QED BY <1>4, <1>5

\* Outside the removal of old files, whoever opens the directory of an open
\* table finds what its readers see under their memtable.
LEMMA DiskAgrees ==
    ASSUME IndInv, pc # "closed", DiskShape, pc # "unlink" => doomed = {}
    PROVE  SameUnder(OpenTables, AllFiles, data)
<1> DEFINE R == SeqRange(sstables)
<1>1. /\ R \in SUBSET Nat /\ IsFiniteSet(R) /\ R \subseteq DOMAIN files
      /\ \A id \in R : id < next_sstable_id
  BY OpenFacts
<1>2. /\ next_sstable_id \in Nat /\ doomed \in SUBSET Nat
      /\ \A id \in doomed : id < next_sstable_id
      /\ IsFiniteSet(DOMAIN files) /\ files \in [DOMAIN files -> Table]
  BY DEF IndInv, TypeOK, ObsoleteOnly
<1>3. /\ doomed \subseteq DOMAIN files
      /\ \A a \in doomed, b \in R : a < b
      /\ doomed = {} \/ Live(Newest(files, doomed)) = Live(Newest(files, R))
  BY DEF DiskShape, OpenTables
<1>4. IsFiniteSet(doomed)
  BY <1>2, <1>3, FS_Subset
<1>5. /\ DOMAIN files \subseteq R \cup doomed \cup {next_sstable_id}
      /\ next_sstable_id \in DOMAIN files =>
           SameUnder(Newest(files, R),
                     Overlay(Newest(files, R), files[next_sstable_id]), data)
  BY DEF DiskShape, OpenTables
<1> HIDE DEF R
<1>6. SameUnder(Newest(files, R), Newest(files, DOMAIN files), data)
  BY <1>1, <1>2, <1>3, <1>4, <1>5, SameDirectory
<1> QED BY <1>6 DEF OpenTables, AllFiles, R

\* A table that goes in under the next id leaves the older ones as they are.
LEMMA NewestWith ==
    ASSUME NEW fs, NEW n, NEW t, NEW S \in SUBSET Nat, IsFiniteSet(S), n \notin S,
           S \subseteq DOMAIN fs
    PROVE  Newest(With(fs, n, t), S) = Newest(fs, S)
<1>1. \A id \in S : With(fs, n, t)[id] = fs[id]
  BY DEF With
<1> QED BY <1>1, NewestSame

LEMMA NewestWithout ==
    ASSUME NEW fs, NEW n, NEW S \in SUBSET Nat, IsFiniteSet(S), n \notin S,
           S \subseteq DOMAIN fs
    PROVE  Newest(Without(fs, {n}), S) = Newest(fs, S)
<1>1. \A id \in S : Without(fs, {n})[id] = fs[id]
  BY DEF Without
<1> QED BY <1>1, NewestSame

\* The memtable and the merged table, once written, show a reader nothing new.
LEMMA NothingNew ==
    ASSUME NEW t, NEW mem
    PROVE  /\ SameUnder(t, Overlay(t, mem), mem)
           /\ SameUnder(t, Overlay(t, Live(t)), mem)
BY MarkersAssumption DEF SameUnder, Overlay, Live

\* A directory with just the open tables and t as the file of the next id.
LEMMA FinishedAgrees ==
    ASSUME IndInv, pc # "closed", DiskShape, pc \in {"flush_sync", "merge_sync"},
           NEW t \in Table, t = data \/ t = merged,
           files' = With(files, next_sstable_id, t)
    PROVE  /\ DOMAIN files' = SeqRange(sstables) \cup {next_sstable_id}
           /\ Newest(files', SeqRange(sstables)) = OpenTables
           /\ files'[next_sstable_id] = t
           /\ Newest(files', DOMAIN files') = Overlay(OpenTables, t)
           /\ SameUnder(OpenTables, Overlay(OpenTables, t), data)
<1> DEFINE R == SeqRange(sstables)
           n == next_sstable_id
<1>1. /\ R \in SUBSET Nat /\ IsFiniteSet(R) /\ R \subseteq DOMAIN files
      /\ \A id \in R : id < n
      /\ Merge(files, sstables) = OpenTables
  BY OpenFacts
<1>2. n \in Nat /\ n \notin DOMAIN files
  BY DEF DiskShape, IndInv, TypeOK
<1>3. DOMAIN files = R
  BY <1>1, <1>2 DEF DiskShape
<1>4. DOMAIN files' = R \cup {n} /\ files'[n] = t
  BY <1>3 DEF With
<1>5. Newest(files', R) = OpenTables
  <2> HIDE DEF R, n
  <2>1. n \notin R
    BY <1>2, <1>3
  <2> QED BY <1>1, <2>1, NewestWith DEF OpenTables, R, n
<1>6. Newest(files', {n}) = t /\ IsFiniteSet({n}) /\ {n} \in SUBSET Nat
  BY <1>2, <1>4, NewestOne
<1>7. Newest(files', R \cup {n}) = Overlay(OpenTables, t)
  <2> HIDE DEF R, n
  <2> QED BY <1>1, <1>5, <1>6, NewestAbove
<1>8. SameUnder(OpenTables, Overlay(OpenTables, t), data)
  BY <1>1, NothingNew DEF merged
<1> QED BY <1>4, <1>5, <1>7, <1>8

\* However a session ends, the directory it leaves agrees with it.
LEMMA LeaveFilesAgrees ==
    ASSUME IndInv, pc # "closed", DiskShape, pc # "unlink" => doomed = {},
           LeaveFiles
    PROVE  SameUnder(OpenTables, AllFiles', data)
<1>1. CASE files' = files
  <2>1. AllFiles' = AllFiles
    BY <1>1 DEF AllFiles
  <2> QED BY <2>1, DiskAgrees
<1>2. ASSUME pc \in {"flush_sync", "merge_sync"}, NEW t \in Table,
             t = data \/ t = merged, files' = With(files, next_sstable_id, t)
      PROVE  SameUnder(OpenTables, AllFiles', data)
  <2>1. AllFiles' = Overlay(OpenTables, t)
    BY <1>2, FinishedAgrees DEF AllFiles
  <2>2. SameUnder(OpenTables, Overlay(OpenTables, t), data)
    BY <1>2, FinishedAgrees
  <2> QED BY <2>1, <2>2
<1>3. data \in Table /\ merged \in Table
  BY FileTypes
<1>4. \/ files' = files
      \/ /\ pc \in {"flush_sync", "merge_sync"}
         /\ \E t \in {data, merged} : files' = With(files, next_sstable_id, t)
  <2>1. PICK left \in LeftFiles : files' = left[1] /\ torn' = left[2]
    BY DEF LeaveFiles
  <2>2. CASE pc \in {"flush_sync", "merge_sync"}
    <3> DEFINE t == IF pc = "flush_sync" THEN data ELSE merged
    <3>1. t \in {data, merged}
      OBVIOUS
    <3>2. \/ left = <<With(files, next_sstable_id, t), torn \ {next_sstable_id}>>
          \/ left = <<files, torn \ {next_sstable_id}>>
          \/ left = <<files, torn>>
      BY <2>2 DEF LeftFiles, disk
    <3> HIDE DEF t
    <3> QED BY <2>1, <2>2, <3>1, <3>2
  <2>3. CASE pc \notin {"flush_sync", "merge_sync"}
    BY <2>1, <2>3 DEF LeftFiles, disk
  <2> QED BY <2>2, <2>3
<1> QED BY <1>1, <1>2, <1>3, <1>4

-----------------------------------------------------------------------------
(***************************************************************************)
(* The log of a session.                                                   *)
(***************************************************************************)

\* What recovery makes of a part of the open log that holds at least what is
\* committed, whether or not a partial record follows it.
LEMMA PrefixReplay ==
    ASSUME wal \in Seq(Record), NEW b, LogForm(b), NEW n \in b..Len(wal),
           NEW s, s = SubSeq(wal, 1, n) \/ s = Append(SubSeq(wal, 1, n), torn_record)
    PROVE  replay_wal(s) = IF pc \in {"sync", "apply"} /\ n = Len(wal)
                             THEN Overlay(Upto(wal, b), pending) ELSE Upto(wal, b)
<1> DEFINE q == SubSeq(wal, 1, n)
<1>1. Len(wal) \in Nat /\ b \in 0..Len(wal) /\ n \in 0..Len(wal)
  BY DEF LogForm
<1>2. q \in Seq(Record) /\ Len(q) = n /\ \A i \in 1..n : q[i] = wal[i]
  BY <1>1
<1>3. torn_record \in Record /\ torn_record.op = "torn"
  BY MarkerTypes DEF torn_record
<1> HIDE DEF q
<1>4. /\ s \in Seq(Record) /\ Len(s) >= n /\ Len(s) \in Nat
      /\ \A i \in 1..n : s[i] = wal[i]
      /\ \A i \in 1..Len(s) : i <= n \/ s[i].op = "torn"
  <2>1. CASE s = q
    BY <1>1, <1>2, <2>1
  <2>2. CASE s = Append(q, torn_record)
    BY <1>1, <1>2, <1>3, <2>2
  <2> QED BY <2>1, <2>2 DEF q
<1>5. /\ b = 0 \/ wal[b].op = "commit"
      /\ \A i \in 1..Len(wal) : wal[i].op # "torn"
      /\ \A i \in 1..Len(wal) : wal[i].op = "commit" =>
             i <= b \/ (pc \in {"sync", "apply"} /\ i = Len(wal))
      /\ pc \in {"sync", "apply"} =>
             /\ Len(wal) > 0 /\ wal[Len(wal)].op = "commit"
             /\ Upto(wal, Len(wal)) = Overlay(Upto(wal, b), pending)
  BY DEF LogForm
<1>6. CASE pc \in {"sync", "apply"} /\ n = Len(wal)
  <2>1. /\ n \in 0..Len(s)
        /\ \A i \in 1..n : s[i] = wal[i] /\ s[i].op # "torn"
        /\ s[n].op = "commit"
        /\ \A i \in 1..Len(s) : s[i].op = "commit" => i <= n
    BY <1>1, <1>4, <1>5, <1>6
  <2>2. replay_wal(s) = Upto(wal, n)
    BY <1>4, <2>1, ReplayCommitted
  <2> QED BY <1>5, <1>6, <2>2
<1>7. CASE ~(pc \in {"sync", "apply"} /\ n = Len(wal))
  <2>1. /\ b \in 0..Len(s)
        /\ \A i \in 1..b : s[i] = wal[i] /\ s[i].op # "torn"
        /\ b = 0 \/ s[b].op = "commit"
    BY <1>1, <1>4, <1>5
  <2>2. \A i \in 1..Len(s) : s[i].op = "commit" => i <= b
    <3> TAKE i \in 1..Len(s)
    <3> HAVE s[i].op = "commit"
    <3>1. i \in 1..n /\ s[i] = wal[i]
      BY <1>1, <1>4
    <3>2. i <= b \/ (pc \in {"sync", "apply"} /\ i = Len(wal))
      BY <1>1, <1>5, <3>1
    <3>3. ~(pc \in {"sync", "apply"} /\ i = Len(wal))
      BY <1>1, <1>7, <3>1
    <3> QED BY <3>2, <3>3
  <2>3. replay_wal(s) = Upto(wal, b)
    BY <1>4, <2>1, <2>2, ReplayCommitted
  <2> QED BY <1>7, <2>3
<1> QED BY <1>6, <1>7

LEMMA PrefixSame ==
    ASSUME wal \in Seq(Record), NEW b, LogShape(b), NEW n \in b..Len(wal),
           NEW s, s = SubSeq(wal, 1, n) \/ s = Append(SubSeq(wal, 1, n), torn_record)
    PROVE  SameOver(OpenTables, replay_wal(s),
                    IF pc \in {"sync", "apply"} /\ n = Len(wal)
                      THEN Overlay(data, pending) ELSE data)
<1>1. SameOver(OpenTables, Upto(wal, b), data) /\ LogForm(b)
  BY DEF LogShape
<1> DEFINE u == Upto(wal, b)
           t == OpenTables
<1> HIDE DEF u, t
<1>2. SameOver(t, u, data) /\ SameOver(t, Overlay(u, pending), Overlay(data, pending))
  BY <1>1, SameOverlaid DEF u, t
<1>3. replay_wal(s) = IF pc \in {"sync", "apply"} /\ n = Len(wal)
                        THEN Overlay(u, pending) ELSE u
  BY <1>1, PrefixReplay DEF u
<1>4. SameOver(t, replay_wal(s), IF pc \in {"sync", "apply"} /\ n = Len(wal)
                      THEN Overlay(data, pending) ELSE data)
  BY <1>2, <1>3
<1> QED BY <1>4 DEF t

\* All of a sequence.
LEMMA WholeSeq ==
    ASSUME NEW w \in Seq(Record)
    PROVE  SubSeq(w, 1, Len(w)) = w
OBVIOUS

LEMMA EmptySeq ==
    ASSUME NEW w \in Seq(Record), Len(w) = 0
    PROVE  w = << >>
OBVIOUS

\* The writes whose COMMIT is certain to last, as a memtable.
Committed ==
    IF pc = "apply" \/ (pc = "sync" /\ "power_loss" \notin Faults)
      THEN Overlay(data, pending) ELSE data

\* The log that is certain to last amounts to them.
LEMMA StableSame ==
    ASSUME IndInv, pc # "closed", DurInv
    PROVE  SameOver(OpenTables, replay_wal(Stable), Committed)
<1>1. wal \in Seq(Record) /\ Len(wal) \in Nat
  BY DEF IndInv, TypeOK
<1>2. PICK b \in 0..Len(wal) : OpenShape(b)
  BY DEF DurInv
<1>3. LogShape(b) /\ b \in b..Len(wal) /\ Len(wal) \in b..Len(wal)
  BY <1>1, <1>2 DEF OpenShape
<1>4. SameOver(OpenTables, replay_wal(wal),
               IF pc \in {"sync", "apply"} THEN Overlay(data, pending) ELSE data)
  <2>1. wal = SubSeq(wal, 1, Len(wal))
    BY <1>1, WholeSeq
  <2>2. SameOver(OpenTables, replay_wal(wal),
                 IF pc \in {"sync", "apply"} /\ Len(wal) = Len(wal)
                   THEN Overlay(data, pending) ELSE data)
    BY <1>1, <1>3, <2>1, PrefixSame
  <2> QED BY <2>2
<1>5. CASE "power_loss" \notin Faults
  BY <1>4, <1>5 DEF Stable, Committed
<1>6. CASE "power_loss" \in Faults /\ pc = "apply"
  <2>1. synced = wal
    BY <1>2, <1>6 DEF OpenShape, SyncShape
  <2> QED BY <1>4, <1>6, <2>1 DEF Stable, Committed
<1>7. CASE "power_loss" \in Faults /\ pc # "apply"
  <2>1. \/ synced = SubSeq(wal, 1, b)
        \/ SameOver(OpenTables, replay_wal(synced), data)
    BY <1>2, <1>7 DEF OpenShape, SyncShape
  <2>2. CASE synced = SubSeq(wal, 1, b)
    <3>1. replay_wal(synced) = Upto(wal, b)
      <4>1. /\ synced \in Seq(Record) /\ Len(synced) = b
            /\ \A i \in 1..b : synced[i] = wal[i]
        BY <1>1, <2>2
      <4>2. /\ b = 0 \/ synced[b].op = "commit"
            /\ \A i \in 1..b : synced[i].op # "torn"
        BY <1>1, <1>3, <4>1 DEF LogShape, LogForm
      <4> QED BY <4>1, <4>2, ReplayCommitted
    <3>2. SameOver(OpenTables, Upto(wal, b), data)
      BY <1>3 DEF LogShape, LogForm
    <3> QED BY <1>7, <3>1, <3>2 DEF Stable, Committed
  <2> QED BY <1>7, <2>1, <2>2 DEF Stable, Committed
<1> QED BY <1>5, <1>6, <1>7

\* The contents of an open table are what its readers will see once the writes
\* that are certain to last are applied.
LEMMA ContentsOpen ==
    ASSUME IndInv, pc # "closed", DurInv
    PROVE  Contents = View(OpenTables, Committed)
<1>1. Contents = View(OpenTables, replay_wal(Stable))
  BY OpenFacts DEF Contents, View
<1>2. SameOver(OpenTables, replay_wal(Stable), Committed)
  BY StableSame
<1>3. SameUnder(OpenTables, OpenTables, Committed)
  BY SameAsItself
<1> QED BY <1>1, <1>2, <1>3, SameView

\* The contents of a closed one are what recovery finds.
LEMMA ContentsClosed ==
    ASSUME IndInv, pc = "closed"
    PROVE  Contents = View(AllFiles, replay_wal(Stable))
BY AllFacts DEF Contents, DiskView, View

-----------------------------------------------------------------------------
(***************************************************************************)
(* DurInv is inductive relative to IndInv.  One lemma per group of actions *)
(* says that the group keeps it, and what becomes of the contents.         *)
(***************************************************************************)

\* Steps that touch neither the files nor the list of open ones.
LEMMA SameFiles ==
    ASSUME UNCHANGED <<files, sstables>>
    PROVE  OpenTables' = OpenTables /\ AllFiles' = AllFiles
BY DEF OpenTables, AllFiles

\* Labels at which no batch is being logged and no file is in the making.
Quiet == {"idle", "txn", "flush", "compact"}

\* Steps between two durable effects: they move the call on, or end it.
LEMMA QuietKeeps ==
    ASSUME DurInv, pc \notin {"closed", "append", "commit", "sync", "apply"},
           doomed = {}, doomed' = {}, pc' \in Quiet,
           UNCHANGED <<data, wal, synced, files, sstables, next_sstable_id>>
    PROVE  DurInv' /\ OpenTables' = OpenTables /\ Committed' = data /\ Committed = data
<1>1. OpenTables' = OpenTables
  BY SameFiles
<1>2. PICK b \in 0..Len(wal) : OpenShape(b)
  BY DEF DurInv
<1>3. b = Len(wal)
  BY <1>2 DEF OpenShape, LogShape, LogForm
<1>4. LogShape(b)'
  BY <1>1, <1>2, <1>3 DEF OpenShape, LogShape, LogForm, Quiet
<1>5. "power_loss" \in Faults => SyncShape(b)'
  BY <1>1, <1>2 DEF OpenShape, SyncShape, Quiet
<1>6. DiskShape'
  BY <1>1 DEF DurInv, DiskShape, Quiet
<1>7. DurInv'
  BY <1>2, <1>4, <1>5, <1>6 DEF DurInv, OpenShape, Quiet
<1> QED BY <1>1, <1>7 DEF Committed, Quiet

\* A batch begins.
LEMMA LogKeepsShape ==
    ASSUME IndInv, DurInv, pc \in {"idle", "txn"}, NEW batch \in Table, Log(batch)
    PROVE  DurInv' /\ OpenTables' = OpenTables /\ Committed' = data /\ Committed = data
<1>0. /\ UNCHANGED <<data, wal, synced, files, sstables, next_sstable_id, doomed>>
      /\ pc' = "append" /\ pending' = batch /\ todo' = KeysOf(batch)
  BY DEF Log, memtable, log, tables, disk
<1>1. OpenTables' = OpenTables
  BY <1>0, SameFiles
<1>2. PICK b \in 0..Len(wal) : OpenShape(b)
  BY DEF DurInv
<1>3. b = Len(wal)
  BY <1>2 DEF OpenShape, LogShape, LogForm
<1>4. \A k \in Keys : pending'[k] # Absent => k \in todo'
  BY <1>0 DEF KeysOf
<1>5. LogShape(b)'
  BY <1>0, <1>1, <1>2, <1>3, <1>4 DEF OpenShape, LogShape, LogForm
<1>6. "power_loss" \in Faults => SyncShape(b)'
  BY <1>0, <1>1, <1>2 DEF OpenShape, SyncShape
<1>7. DiskShape'
  BY <1>0, <1>1 DEF DurInv, DiskShape
<1>8. DurInv'
  BY <1>0, <1>2, <1>5, <1>6, <1>7 DEF DurInv, OpenShape
<1> QED BY <1>0, <1>1, <1>8 DEF Committed

\* A record more in the log leaves what was there.
LEMMA AppendedUpto ==
    ASSUME NEW w \in Seq(Record), NEW r, NEW n \in 0..Len(w)
    PROVE  Upto(Append(w, r), n) = Upto(w, n)
<1> DEFINE v == Append(w, r)
<1>1. n \in Nat /\ \A i \in 1..n : v[i] = w[i]
  OBVIOUS
<1> HIDE DEF v
<1>2. Upto(v, n) = Upto(w, n)
  BY <1>1, UptoAgrees
<1> QED BY <1>2 DEF v

LEMMA AppendedPrefix ==
    ASSUME NEW w \in Seq(Record), NEW r \in Record, NEW n \in 0..Len(w)
    PROVE  SubSeq(Append(w, r), 1, n) = SubSeq(w, 1, n)
<1> DEFINE v == Append(w, r)
           p == SubSeq(v, 1, n)
           q == SubSeq(w, 1, n)
<1>1. v \in Seq(Record) /\ Len(v) = Len(w) + 1 /\ \A i \in 1..n : v[i] = w[i]
  OBVIOUS
<1>2. /\ p \in Seq(Record) /\ q \in Seq(Record) /\ Len(p) = n /\ Len(q) = n
      /\ \A i \in 1..n : p[i] = v[i] /\ q[i] = w[i]
  <2> HIDE DEF v
  <2> QED BY <1>1
<1> HIDE DEF p, q, v
<1>3. p = q
  BY <1>1, <1>2
<1> QED BY <1>3 DEF p, q, v

\* ... and gives its key its entry.
LEMMA AppendedEntry ==
    ASSUME NEW w \in Seq(Record), NEW r \in Record, NEW k \in Keys
    PROVE  Upto(Append(w, r), Len(w) + 1)[k] =
               IF r.op \in {"put", "delete"} /\ r.key = k
                 THEN r.entry ELSE Upto(w, Len(w))[k]
<1> DEFINE v == Append(w, r)
<1>1. Len(w) \in Nat /\ Len(w) \in 0..Len(w) /\ v[Len(w) + 1] = r
  OBVIOUS
<1>2. Upto(v, Len(w)) = Upto(w, Len(w))
  BY <1>1, AppendedUpto
<1> HIDE DEF v
<1>3. Upto(v, Len(w) + 1)[k] =
          IF Writes(v, Len(w) + 1, k) THEN v[Len(w) + 1].entry ELSE Upto(v, Len(w))[k]
  BY <1>1, UptoNext
<1>4. Upto(v, Len(w) + 1)[k] = IF r.op \in {"put", "delete"} /\ r.key = k
                                 THEN r.entry ELSE Upto(w, Len(w))[k]
  BY <1>1, <1>2, <1>3 DEF Writes
<1> QED BY <1>4 DEF v

\* append: one entry of the batch is in the log, and what was committed is as
\* it was.
LEMMA AppendForm ==
    ASSUME IndInv, NEW b \in 0..Len(wal), LogForm(b), append
    PROVE  /\ LogForm(b)' /\ b \in 0..Len(wal')
           /\ Upto(wal', b) = Upto(wal, b)
           /\ SubSeq(wal', 1, b) = SubSeq(wal, 1, b)
<1> DEFINE r == log_entry(sequence + 1)
<1>0. /\ UNCHANGED pending
      /\ pc = "append" /\ wal' = Append(wal, r) /\ todo' = todo \ {NextKey}
      /\ pc' \in {"append", "commit"} /\ (pc' = "commit" => todo' = {})
  BY DEF append
<1>3. wal \in Seq(Record) /\ r \in Record /\ NextKey \in todo /\ todo \subseteq Keys
  <2>1. sequence + 1 \in Nat /\ wal \in Seq(Record) /\ todo \subseteq Keys
    BY DEF IndInv, TypeOK
  <2> QED BY <1>0, <2>1, LogEntryType
<1>4. r.op \in {"put", "delete"} /\ r.key = NextKey /\ r.entry = pending[NextKey]
  BY DEF log_entry, create_put_entry, create_delete_entry
<1> HIDE DEF r
<1>5. /\ Len(wal) \in Nat /\ Len(wal') = Len(wal) + 1 /\ wal'[Len(wal) + 1] = r
      /\ \A i \in 1..Len(wal) : wal'[i] = wal[i]
      /\ Upto(wal', b) = Upto(wal, b)
      /\ SubSeq(wal', 1, b) = SubSeq(wal, 1, b)
      /\ \A k \in Keys : Upto(wal', Len(wal'))[k] =
             IF k = NextKey THEN pending[NextKey] ELSE Upto(wal, Len(wal))[k]
  <2>1. /\ Len(wal) \in Nat /\ Len(wal') = Len(wal) + 1 /\ wal'[Len(wal) + 1] = r
        /\ \A i \in 1..Len(wal) : wal'[i] = wal[i]
    BY <1>0, <1>3
  <2>2. Upto(wal', b) = Upto(wal, b) /\ SubSeq(wal', 1, b) = SubSeq(wal, 1, b)
    BY <1>0, <1>3, AppendedPrefix, AppendedUpto
  <2>3. \A k \in Keys : Upto(wal', Len(wal'))[k] =
            IF r.op \in {"put", "delete"} /\ r.key = k
              THEN r.entry ELSE Upto(wal, Len(wal))[k]
    BY <1>0, <1>3, <2>1, AppendedEntry
  <2> QED BY <1>3, <1>4, <2>1, <2>2, <2>3
<1>6. /\ b = 0 \/ wal[b].op = "commit"
      /\ \A i \in 1..Len(wal) : wal[i].op # "torn"
      /\ \A i \in 1..Len(wal) : wal[i].op = "commit" => i <= b
      /\ todo \subseteq KeysOf(pending)
      /\ \A k \in Keys : Upto(wal, Len(wal))[k] =
             IF pending[k] # Absent /\ k \notin todo THEN pending[k] ELSE Upto(wal, b)[k]
  BY <1>0 DEF LogForm
<1>7. \A k \in Keys : Upto(wal', Len(wal'))[k] =
          IF pending'[k] # Absent /\ k \notin todo'
            THEN pending'[k] ELSE Upto(wal', b)[k]
  BY <1>0, <1>3, <1>5, <1>6 DEF KeysOf
<1>8. /\ b \in 0..Len(wal') /\ (b = 0 \/ wal'[b].op = "commit")
      /\ todo' \subseteq KeysOf(pending')
  BY <1>0, <1>5, <1>6
<1>9. \A i \in 1..Len(wal') : wal'[i].op # "torn" /\ (wal'[i].op = "commit" => i <= b)
  <2> TAKE i \in 1..Len(wal')
  <2>1. CASE i \in 1..Len(wal)
    BY <1>5, <1>6, <2>1
  <2>2. CASE i = Len(wal) + 1
    BY <1>4, <1>5, <2>2
  <2> QED BY <1>5, <2>1, <2>2
<1>10. LogForm(b)'
  BY <1>0, <1>7, <1>8, <1>9 DEF LogForm
<1> QED BY <1>5, <1>8, <1>10

LEMMA AppendKeeps ==
    ASSUME IndInv, DurInv, append
    PROVE  DurInv' /\ OpenTables' = OpenTables /\ Committed' = data /\ Committed = data
<1>0. /\ UNCHANGED <<data, synced, files, sstables, next_sstable_id, doomed, pending>>
      /\ pc = "append" /\ pc' \in {"append", "commit"}
  BY DEF append, memtable, tables, disk
<1>1. OpenTables' = OpenTables
  BY <1>0, SameFiles
<1>2. PICK b \in 0..Len(wal) : OpenShape(b)
  BY <1>0 DEF DurInv
<1>3. /\ LogForm(b)' /\ b \in 0..Len(wal') /\ Upto(wal', b) = Upto(wal, b)
      /\ SubSeq(wal', 1, b) = SubSeq(wal, 1, b)
  BY <1>2, AppendForm DEF OpenShape, LogShape
<1>4. LogShape(b)'
  BY <1>0, <1>1, <1>2, <1>3 DEF OpenShape, LogShape
<1>5. "power_loss" \in Faults => SyncShape(b)'
  BY <1>0, <1>1, <1>2, <1>3 DEF OpenShape, SyncShape
<1>6. DiskShape'
  BY <1>0, <1>1 DEF DurInv, DiskShape
<1>7. DurInv'
  BY <1>0, <1>3, <1>4, <1>5, <1>6 DEF DurInv, OpenShape
<1> QED BY <1>0, <1>1, <1>7 DEF Committed

\* write_commit: the batch is committed, if not yet for good.
LEMMA WriteCommitForm ==
    ASSUME IndInv, NEW b \in 0..Len(wal), LogForm(b), write_commit
    PROVE  /\ LogForm(b)' /\ b \in 0..Len(wal')
           /\ Upto(wal', b) = Upto(wal, b)
           /\ SubSeq(wal', 1, b) = SubSeq(wal, 1, b)
<1> DEFINE r == commit_entry(sequence)
<1>0. UNCHANGED <<pending, todo>> /\ pc = "commit" /\ wal' = Append(wal, r) /\ pc' = "sync"
  BY DEF write_commit, Goto
<1>3. wal \in Seq(Record) /\ r \in Record /\ r.op = "commit"
  BY MarkerTypes DEF IndInv, TypeOK, commit_entry
<1> HIDE DEF r
<1>5. /\ Len(wal) \in Nat /\ Len(wal') = Len(wal) + 1 /\ wal'[Len(wal) + 1] = r
      /\ \A i \in 1..Len(wal) : wal'[i] = wal[i]
      /\ Upto(wal', b) = Upto(wal, b)
      /\ SubSeq(wal', 1, b) = SubSeq(wal, 1, b)
      /\ \A k \in Keys : Upto(wal', Len(wal'))[k] = Upto(wal, Len(wal))[k]
  <2>1. /\ Len(wal) \in Nat /\ Len(wal') = Len(wal) + 1 /\ wal'[Len(wal) + 1] = r
        /\ \A i \in 1..Len(wal) : wal'[i] = wal[i]
    BY <1>0, <1>3
  <2>2. Upto(wal', b) = Upto(wal, b) /\ SubSeq(wal', 1, b) = SubSeq(wal, 1, b)
    BY <1>0, <1>3, AppendedPrefix, AppendedUpto
  <2>3. \A k \in Keys : Upto(wal', Len(wal'))[k] =
            IF r.op \in {"put", "delete"} /\ r.key = k
              THEN r.entry ELSE Upto(wal, Len(wal))[k]
    BY <1>0, <1>3, <2>1, AppendedEntry
  <2> QED BY <1>3, <2>1, <2>2, <2>3
<1>6. /\ b = 0 \/ wal[b].op = "commit"
      /\ \A i \in 1..Len(wal) : wal[i].op # "torn"
      /\ \A i \in 1..Len(wal) : wal[i].op = "commit" => i <= b
      /\ todo = {}
      /\ \A k \in Keys : Upto(wal, Len(wal))[k] =
             IF pending[k] # Absent /\ k \notin todo THEN pending[k] ELSE Upto(wal, b)[k]
  BY <1>0 DEF LogForm
<1>7. Upto(wal', Len(wal')) = Overlay(Upto(wal', b), pending')
  <2> DEFINE u == Upto(wal', Len(wal'))
             v == Upto(wal', b)
  <2>1. \A k \in Keys : u[k] = IF pending[k] # Absent THEN pending[k] ELSE v[k]
    BY <1>5, <1>6
  <2>2. u = [k \in Keys |-> u[k]]
    BY DEF Upto
  <2> HIDE DEF u, v
  <2>3. u = Overlay(v, pending)
    BY <2>1, <2>2 DEF Overlay
  <2> QED BY <1>0, <2>3 DEF u, v
<1>8. /\ b \in 0..Len(wal') /\ (b = 0 \/ wal'[b].op = "commit")
      /\ Len(wal') > 0 /\ wal'[Len(wal')].op = "commit"
  BY <1>0, <1>3, <1>5, <1>6
<1>9. \A i \in 1..Len(wal') :
          /\ wal'[i].op # "torn"
          /\ wal'[i].op = "commit" => i <= b \/ i = Len(wal')
  <2> TAKE i \in 1..Len(wal')
  <2>1. CASE i \in 1..Len(wal)
    BY <1>5, <1>6, <2>1
  <2>2. CASE i = Len(wal) + 1
    BY <1>3, <1>5, <2>2
  <2> QED BY <1>5, <2>1, <2>2
<1>10. LogForm(b)'
  BY <1>0, <1>7, <1>8, <1>9 DEF LogForm
<1> QED BY <1>5, <1>8, <1>10

LEMMA WriteCommitKeeps ==
    ASSUME IndInv, DurInv, write_commit
    PROVE  /\ DurInv' /\ OpenTables' = OpenTables /\ Committed = data
           /\ Committed' = IF "power_loss" \in Faults THEN data ELSE Overlay(data, pending)
<1>0. /\ UNCHANGED <<data, synced, files, sstables, next_sstable_id, doomed, pending, todo>>
      /\ pc = "commit" /\ pc' = "sync"
  BY DEF write_commit, Goto, memtable, tables, disk
<1>1. OpenTables' = OpenTables
  BY <1>0, SameFiles
<1>2. PICK b \in 0..Len(wal) : OpenShape(b)
  BY <1>0 DEF DurInv
<1>3. /\ LogForm(b)' /\ b \in 0..Len(wal') /\ Upto(wal', b) = Upto(wal, b)
      /\ SubSeq(wal', 1, b) = SubSeq(wal, 1, b)
  BY <1>2, WriteCommitForm DEF OpenShape, LogShape
<1>4. LogShape(b)'
  BY <1>0, <1>1, <1>2, <1>3 DEF OpenShape, LogShape
<1>5. "power_loss" \in Faults => SyncShape(b)'
  BY <1>0, <1>1, <1>2, <1>3 DEF OpenShape, SyncShape
<1>6. DiskShape'
  BY <1>0, <1>1 DEF DurInv, DiskShape
<1>7. DurInv'
  BY <1>0, <1>3, <1>4, <1>5, <1>6 DEF DurInv, OpenShape
<1> QED BY <1>0, <1>1, <1>7 DEF Committed

\* sync_commit: the batch is committed for good.
LEMMA SyncCommitKeeps ==
    ASSUME IndInv, DurInv, sync_commit
    PROVE  /\ DurInv' /\ OpenTables' = OpenTables /\ Committed' = Overlay(data, pending)
           /\ Committed = IF "power_loss" \in Faults THEN data ELSE Overlay(data, pending)
<1>0. /\ UNCHANGED <<data, wal, files, sstables, next_sstable_id, doomed, pending, todo>>
      /\ pc = "sync" /\ synced' = wal /\ pc' = "apply"
  BY DEF sync_commit, sync_all, Goto, memtable, tables, disk
<1>1. OpenTables' = OpenTables
  BY <1>0, SameFiles
<1>2. PICK b \in 0..Len(wal) : OpenShape(b)
  BY <1>0 DEF DurInv
<1>3. LogShape(b)'
  BY <1>0, <1>1, <1>2 DEF OpenShape, LogShape, LogForm
<1>4. SyncShape(b)'
  BY <1>0 DEF SyncShape
<1>5. DiskShape'
  BY <1>0, <1>1 DEF DurInv, DiskShape
<1>6. DurInv'
  BY <1>0, <1>2, <1>3, <1>4, <1>5 DEF DurInv, OpenShape
<1> QED BY <1>0, <1>1, <1>6 DEF Committed

\* apply: the batch is in the memtable.
LEMMA ApplyKeeps ==
    ASSUME IndInv, DurInv, apply
    PROVE  /\ DurInv' /\ OpenTables' = OpenTables
           /\ Committed = Overlay(data, pending) /\ Committed' = Overlay(data, pending)
<1>0. /\ UNCHANGED <<wal, synced, files, sstables, next_sstable_id>>
      /\ pc = "apply" /\ data' = Overlay(data, pending)
      /\ pc' \in {"idle", "flush"} /\ doomed' \in {doomed, {}}
  BY DEF apply, Goto, Return, log, tables, disk
<1>1. OpenTables' = OpenTables
  BY <1>0, SameFiles
<1>2. PICK b \in 0..Len(wal) : OpenShape(b)
  BY <1>0 DEF DurInv
<1>3. wal \in Seq(Record) /\ Len(wal) \in Nat
  BY DEF IndInv, TypeOK
<1>4. SameOver(OpenTables, Upto(wal, Len(wal)), Overlay(data, pending))
  <2>1. Upto(wal, Len(wal)) = Overlay(Upto(wal, b), pending)
    BY <1>0, <1>2 DEF OpenShape, LogShape, LogForm
  <2>2. SameOver(OpenTables, Upto(wal, b), data)
    BY <1>2 DEF OpenShape, LogShape, LogForm
  <2> QED BY <2>1, <2>2, SameOverlaid
<1>5. LogShape(Len(wal))'
  <2>1. \A i \in 1..Len(wal) : wal[i].op # "torn" /\ i <= Len(wal)
    BY <1>2, <1>3 DEF OpenShape, LogShape, LogForm
  <2>2. wal[Len(wal)].op = "commit"
    BY <1>0, <1>2 DEF OpenShape, LogShape, LogForm
  <2> QED BY <1>0, <1>1, <1>3, <1>4, <2>1, <2>2 DEF LogShape, LogForm
<1>6. "power_loss" \in Faults => SyncShape(Len(wal))'
  BY <1>0, <1>2, <1>3, WholeSeq DEF OpenShape, SyncShape
<1>7. DiskShape'
  <2>1. \A k \in Keys : data[k] # Absent => data'[k] # Absent
    BY <1>0 DEF Overlay
  <2>2. ASSUME next_sstable_id \in DOMAIN files
        PROVE  SameUnder(OpenTables, Overlay(OpenTables, files[next_sstable_id]), data')
    <3>1. SameUnder(OpenTables, Overlay(OpenTables, files[next_sstable_id]), data)
      BY <1>0, <2>2 DEF DurInv, DiskShape
    <3> QED BY <2>1, <3>1 DEF SameUnder
  <2> QED BY <1>0, <1>1, <2>2 DEF DurInv, DiskShape
<1>8. DurInv'
  BY <1>0, <1>3, <1>5, <1>6, <1>7 DEF DurInv, OpenShape
<1> QED BY <1>0, <1>1, <1>8 DEF Committed

\* A step that only changes files keeps what is known of the log.
LEMMA LogSame ==
    ASSUME NEW b, OpenShape(b), OpenTables' = OpenTables,
           UNCHANGED <<data, wal, synced>>,
           pc \notin {"append", "commit", "sync", "apply"},
           pc' \notin {"append", "commit", "sync", "apply", "clear"}
    PROVE  OpenShape(b)'
BY DEF OpenShape, LogShape, LogForm, SyncShape

\* flush and compact open their new file, over one that was left there.
LEMMA StartKeeps ==
    ASSUME IndInv, DurInv, pc \in {"flush", "compact"}, StartFile(next_sstable_id),
           pc' \in {"flush_sync", "merge_sync"},
           UNCHANGED <<data, wal, synced, sstables, next_sstable_id, doomed>>
    PROVE  DurInv' /\ OpenTables' = OpenTables /\ Committed' = data /\ Committed = data
<1> DEFINE R == SeqRange(sstables)
           n == next_sstable_id
<1>1. /\ R \in SUBSET Nat /\ IsFiniteSet(R) /\ R \subseteq DOMAIN files
      /\ n \in Nat /\ \A id \in R : id < n
  BY OpenFacts DEF IndInv, TypeOK
<1>2. files' = Without(files, {n}) /\ R' = R
  BY DEF StartFile
<1>3. DOMAIN files' = DOMAIN files \ {n}
  BY <1>2 DEF Without
<1>4. OpenTables' = OpenTables
  <2> HIDE DEF R, n
  <2>1. n \notin R
    BY <1>1
  <2>2. Newest(Without(files, {n}), R) = Newest(files, R)
    BY <1>1, <2>1, NewestWithout
  <2> QED BY <1>2, <2>2 DEF OpenTables, R
<1>5. PICK b \in 0..Len(wal) : OpenShape(b)
  BY DEF DurInv
<1>6. OpenShape(b)'
  BY <1>4, <1>5, LogSame
<1>7. DiskShape'
  BY <1>2, <1>3 DEF DurInv, DiskShape
<1>8. DurInv'
  BY <1>5, <1>6, <1>7 DEF DurInv
<1> QED BY <1>4, <1>8 DEF Committed

\* A flush or a compaction that fails once its file is complete.
LEMMA AbandonKeeps ==
    ASSUME IndInv, DurInv, pc \in {"flush_sync", "merge_sync"}, pc' = "idle",
           NEW t \in {data, merged}, FinishFile(next_sstable_id, t), doomed' = {},
           UNCHANGED <<data, wal, synced, sstables, next_sstable_id>>
    PROVE  DurInv' /\ OpenTables' = OpenTables /\ Committed' = data /\ Committed = data
<1> DEFINE R == SeqRange(sstables)
           n == next_sstable_id
<1>1. t \in Table /\ files' = With(files, n, t) /\ DiskShape /\ R' = R /\ n' = n
  BY FileTypes DEF FinishFile, DurInv
<1>2. /\ DOMAIN files' = R \cup {n} /\ files'[n] = t
      /\ Newest(files', R) = OpenTables
      /\ SameUnder(OpenTables, Overlay(OpenTables, t), data)
  BY <1>1, FinishedAgrees
<1>3. OpenTables' = OpenTables
  BY <1>1, <1>2 DEF OpenTables
<1>4. PICK b \in 0..Len(wal) : OpenShape(b)
  BY DEF DurInv
<1>5. OpenShape(b)'
  BY <1>3, <1>4, LogSame
<1>6. DiskShape'
  <2> HIDE DEF R, n
  <2>1. /\ DOMAIN files' \subseteq R' \cup doomed' \cup {n'}
        /\ SameUnder(OpenTables', Overlay(OpenTables', files'[n']), data')
    BY <1>1, <1>2, <1>3
  <2> QED BY <2>1 DEF DiskShape, R, n
<1>7. DurInv'
  BY <1>4, <1>5, <1>6 DEF DurInv
<1> QED BY <1>3, <1>7 DEF Committed

\* flush: the memtable becomes the newest table.
LEMMA FlushKeeps ==
    ASSUME IndInv, DurInv, flush_sync
    PROVE  DurInv' /\ View(OpenTables', Committed') = View(OpenTables, Committed)
<1> DEFINE R == SeqRange(sstables)
           n == next_sstable_id
<1>0. /\ pc = "flush_sync" /\ pc' = "clear" /\ data' = EmptyTable
      /\ files' = With(files, n, data) /\ n' = n + 1
      /\ sstables' = <<n>> \o sstables /\ UNCHANGED <<wal, synced, doomed>>
  BY DEF flush_sync, FinishFile, Goto, log
<1>1. data \in Table /\ DiskShape /\ n \in Nat /\ sstables \in Seq(Nat)
  BY <1>0 DEF DurInv, IndInv, TypeOK
<1>2. /\ DOMAIN files' = R \cup {n}
      /\ Newest(files', DOMAIN files') = Overlay(OpenTables, data)
  BY <1>0, <1>1, FinishedAgrees
<1>3. SeqRange(sstables') = R \cup {n}
  <2> DEFINE s == sstables'
  <2>1. /\ s \in Seq(Nat) /\ Len(s) = Len(sstables) + 1 /\ s[1] = n
        /\ Len(sstables) \in Nat
        /\ \A i \in 1..Len(sstables) : s[i + 1] = sstables[i]
    BY <1>0, <1>1
  <2>2. \A i \in 1..Len(s) : i = 1 \/ (i - 1 \in 1..Len(sstables) /\ s[i] = sstables[i - 1])
    BY <2>1
  <2>3. \A i \in 1..Len(sstables) : i + 1 \in 1..Len(s)
    BY <2>1
  <2>4. \A i \in 1..Len(sstables) : sstables[i] \in R
    BY DEF SeqRange
  <2>5. \A x \in R : \E i \in 1..Len(sstables) : x = sstables[i]
    BY DEF SeqRange
  <2>6. 1 \in 1..Len(s)
    BY <2>1
  <2> HIDE DEF s, n, R
  <2>7. \A i \in 1..Len(s) : s[i] \in R \cup {n}
    BY <2>1, <2>2, <2>4
  <2>8. \A x \in R \cup {n} : \E i \in 1..Len(s) : x = s[i]
    <3>1. ASSUME NEW x \in R PROVE \E i \in 1..Len(s) : x = s[i]
      <4>1. PICK i \in 1..Len(sstables) : x = sstables[i]
        BY <2>5
      <4>2. i + 1 \in 1..Len(s) /\ s[i + 1] = x
        BY <2>1, <2>3, <4>1
      <4> QED BY <4>2
    <3>2. 1 \in 1..Len(s) /\ n = s[1]
      BY <2>1, <2>6
    <3> QED BY <3>1, <3>2
  <2>9. SeqRange(s) = R \cup {n}
    BY <2>7, <2>8 DEF SeqRange
  <2> QED BY <2>9 DEF s
<1>4. OpenTables' = Overlay(OpenTables, data)
  BY <1>2, <1>3 DEF OpenTables
<1>5. PICK b \in 0..Len(wal) : OpenShape(b)
  BY <1>0 DEF DurInv
<1>6. SameOver(OpenTables', Upto(wal', b), data')
  <2>1. SameOver(OpenTables, Upto(wal, b), data)
    BY <1>5 DEF OpenShape, LogShape, LogForm
  <2>2. SameOver(Overlay(OpenTables, data), Upto(wal, b), EmptyTable)
    BY <2>1, SameFlushed
  <2> QED BY <1>0, <1>4, <2>2
<1>7. LogShape(b)'
  BY <1>0, <1>5, <1>6 DEF OpenShape, LogShape, LogForm
<1>8. "power_loss" \in Faults => SyncShape(b)'
  <2>1. SameOver(OpenTables, replay_wal(synced), data)
            => SameOver(OpenTables', replay_wal(synced'), data')
    BY <1>0, <1>4, SameFlushed
  <2> QED BY <1>0, <1>5, <2>1 DEF OpenShape, SyncShape
<1>9. DiskShape'
  <2>1. doomed' = {} /\ DOMAIN files' = SeqRange(sstables')
    BY <1>0, <1>1, <1>2, <1>3 DEF DiskShape
  <2>2. n' \notin DOMAIN files'
    <3>1. \A id \in R : id < n
      BY <1>0, OpenFacts
    <3>2. \A id \in R : id \in Nat
      BY <1>0, OpenFacts
    <3> QED BY <1>0, <1>1, <1>2, <3>1, <3>2
  <2> QED BY <1>0, <2>1, <2>2 DEF DiskShape
<1>10. DurInv'
  BY <1>0, <1>5, <1>7, <1>8, <1>9 DEF DurInv, OpenShape
<1>11. Committed = data /\ Committed' = EmptyTable
  BY <1>0 DEF Committed
<1>12. View(Overlay(OpenTables, data), EmptyTable) = View(OpenTables, data)
  BY ViewOfNothing DEF View
<1> QED BY <1>4, <1>10, <1>11, <1>12

\* clear: the log is empty, and so is the memtable.
LEMMA ClearKeeps ==
    ASSUME IndInv, DurInv, clear \/ clear_fails
    PROVE  DurInv' /\ OpenTables' = OpenTables /\ Committed' = data /\ Committed = data
<1>0. /\ pc = "clear" /\ pc' \in {"idle", "compact"} /\ doomed' \in {doomed, {}}
      /\ UNCHANGED <<data, files, sstables, next_sstable_id>>
      /\ wal' = wal \/ wal' = << >>
      /\ wal' = << >> => synced' \in {synced, << >>}
      /\ wal' # << >> => UNCHANGED <<wal, synced>>
  BY DEF clear, clear_fails, Goto, Return, memtable, tables, disk
<1>1. doomed = {} /\ doomed' = {} /\ DiskShape
  BY <1>0 DEF DurInv, DiskShape
<1>2. CASE wal' # << >>
  BY <1>0, <1>1, <1>2, QuietKeeps DEF Quiet
<1>3. CASE wal' = << >>
  <2>1. OpenTables' = OpenTables
    BY <1>0, SameFiles
  <2>2. PICK b \in 0..Len(wal) : OpenShape(b)
    BY <1>0 DEF DurInv
  <2>3. data = EmptyTable
    BY <1>0, <2>2 DEF OpenShape, LogShape, LogForm
  <2>4. SameOver(OpenTables', Upto(wal', 0), data')
    BY <1>0, <2>1, <2>3, UptoNone, SameAsItself
  <2>5. Len(wal') = 0
    BY <1>3
  <2>6. LogShape(0)'
    BY <1>0, <2>4, <2>5 DEF LogShape, LogForm
  <2>7. "power_loss" \in Faults => SyncShape(0)'
    <3>1. CASE synced' = synced
      <4>1. "power_loss" \in Faults => SameOver(OpenTables, replay_wal(synced), data)
        BY <1>0, StableSame DEF Stable, Committed
      <4> QED BY <1>0, <2>1, <3>1, <4>1 DEF SyncShape
    <3>2. CASE synced' = << >>
      BY <1>0, <1>3, <3>2 DEF SyncShape
    <3> QED BY <1>0, <1>3, <3>1, <3>2
  <2>8. DiskShape'
    BY <1>0, <1>1, <2>1 DEF DiskShape
  <2>9. DurInv'
    BY <1>0, <2>5, <2>6, <2>7, <2>8 DEF DurInv, OpenShape
  <2> QED BY <1>0, <2>1, <2>9 DEF Committed
<1> QED BY <1>2, <1>3

\* Tables below a log that show a reader the same.
LEMMA LogSameLive ==
    ASSUME NEW b, OpenShape(b), Live(OpenTables') = Live(OpenTables),
           UNCHANGED <<data, wal, synced>>,
           pc \notin {"append", "commit", "sync", "apply"},
           pc' \notin {"append", "commit", "sync", "apply", "clear"}
    PROVE  OpenShape(b)'
<1>1. SameOver(OpenTables', Upto(wal, b), data)
  BY SameLive DEF OpenShape, LogShape, LogForm
<1>2. SameOver(OpenTables, replay_wal(synced), data)
          => SameOver(OpenTables', replay_wal(synced), data)
  BY SameLive
<1>3. LogShape(b)'
  BY <1>1 DEF OpenShape, LogShape, LogForm
<1>4. "power_loss" \in Faults => SyncShape(b)'
  BY <1>2 DEF OpenShape, SyncShape
<1> QED BY <1>3, <1>4 DEF OpenShape

\* compact: nothing is live, so that no table is left.
LEMMA CompactAwayKeeps ==
    ASSUME IndInv, DurInv, pc = "compact", pc' = "unlink", merged = EmptyTable,
           sstables' = << >>, doomed' = old_paths,
           UNCHANGED <<data, wal, synced, files, next_sstable_id>>
    PROVE  DurInv' /\ View(OpenTables', Committed') = View(OpenTables, Committed)
<1> DEFINE R == SeqRange(sstables)
           n == next_sstable_id
<1>1. R \subseteq DOMAIN files /\ Merge(files, sstables) = OpenTables
  BY OpenFacts
<1>2. DiskShape /\ doomed = {}
  BY DEF DurInv, DiskShape
<1>3. SeqRange(sstables') = {} /\ doomed' = R
  BY DEF SeqRange, old_paths
<1>4. OpenTables' = EmptyTable
  BY <1>3, NewestNone DEF OpenTables
<1>5. Live(OpenTables) = EmptyTable /\ Live(EmptyTable) = EmptyTable
  BY <1>1, MarkersAssumption DEF merged, Live, EmptyTable
<1>6. PICK b \in 0..Len(wal) : OpenShape(b)
  BY DEF DurInv
<1>7. OpenShape(b)'
  BY <1>4, <1>5, <1>6, LogSameLive
<1>8. ASSUME n \in DOMAIN files
      PROVE  SameUnder(EmptyTable, Overlay(EmptyTable, files[n]), data)
  <2> DEFINE t == OpenTables
             f == files[n]
  <2>1. SameUnder(t, Overlay(t, f), data)
    BY <1>2, <1>8 DEF DiskShape
  <2>2. \A k \in Keys : Live(t)[k] = Absent
    BY <1>5 DEF EmptyTable
  <2> HIDE DEF t, f
  <2>3. SameUnder(EmptyTable, Overlay(EmptyTable, f), data)
    BY <2>1, <2>2, MarkersAssumption DEF SameUnder, Overlay, Live, EmptyTable
  <2> QED BY <2>3 DEF f
<1>9. DOMAIN files \subseteq R \cup {n}
  BY <1>2 DEF DiskShape
<1>10. Live(Newest(files, R)) = Live(EmptyTable)
  BY <1>5 DEF OpenTables
<1>11. DiskShape'
  BY <1>1, <1>3, <1>4, <1>8, <1>9, <1>10 DEF DiskShape
<1>12. DurInv'
  BY <1>6, <1>7, <1>11 DEF DurInv
<1>13. Committed = data /\ Committed' = data
  BY DEF Committed
<1>14. View(EmptyTable, data) = View(OpenTables, data)
  BY <1>5, ViewOfLive
<1> QED BY <1>4, <1>12, <1>13, <1>14

\* compact: one table is left, of all that is live.
LEMMA MergeKeeps ==
    ASSUME IndInv, DurInv, merge_sync
    PROVE  DurInv' /\ View(OpenTables', Committed') = View(OpenTables, Committed)
<1> DEFINE R == SeqRange(sstables)
           n == next_sstable_id
<1>0. /\ pc = "merge_sync" /\ pc' = "unlink" /\ files' = With(files, n, merged)
      /\ n' = n + 1 /\ sstables' = <<n>> /\ doomed' = R
      /\ UNCHANGED <<data, wal, synced>>
  BY DEF merge_sync, FinishFile, old_paths, memtable, log
<1>1. /\ R \in SUBSET Nat /\ IsFiniteSet(R) /\ R \subseteq DOMAIN files
      /\ \A id \in R : id < n
      /\ Merge(files, sstables) = OpenTables
  BY <1>0, OpenFacts
<1>2. merged \in Table /\ DiskShape /\ n \in Nat
  BY <1>0, FileTypes DEF DurInv
<1>3. /\ DOMAIN files' = R \cup {n} /\ files'[n] = merged
      /\ Newest(files', R) = OpenTables
  BY <1>0, <1>2, FinishedAgrees
<1>4. SeqRange(sstables') = {n}
  BY <1>0 DEF SeqRange
<1>5. merged = Live(OpenTables)
  BY <1>1 DEF merged
<1>6. OpenTables' = Live(OpenTables)
  BY <1>2, <1>3, <1>4, <1>5, NewestOne DEF OpenTables
<1>7. Live(Live(OpenTables)) = Live(OpenTables)
  BY MarkersAssumption DEF Live
<1>8. PICK b \in 0..Len(wal) : OpenShape(b)
  BY <1>0 DEF DurInv
<1>9. OpenShape(b)'
  BY <1>0, <1>6, <1>7, <1>8, LogSameLive
<1>10. DiskShape'
  <2>1. n' \notin DOMAIN files'
    BY <1>0, <1>1, <1>2, <1>3
  <2>2. DOMAIN files' \subseteq SeqRange(sstables') \cup doomed' \cup {n'}
    BY <1>0, <1>3, <1>4
  <2>3. Live(Newest(files', doomed')) = Live(OpenTables')
    BY <1>0, <1>3, <1>6, <1>7
  <2>4. /\ doomed' \subseteq DOMAIN files'
        /\ \A id \in doomed', m \in SeqRange(sstables') : id < m
    BY <1>0, <1>1, <1>3, <1>4
  <2> QED BY <1>0, <2>1, <2>2, <2>3, <2>4 DEF DiskShape
<1>11. DurInv'
  BY <1>0, <1>8, <1>9, <1>10 DEF DurInv
<1>12. Committed = data /\ Committed' = data
  BY <1>0 DEF Committed
<1>13. View(Live(OpenTables), data) = View(OpenTables, data)
  BY ViewOfLive
<1> QED BY <1>6, <1>11, <1>12, <1>13

\* remove_file: an old file goes.
LEMMA RemoveKeeps ==
    ASSUME IndInv, DurInv, OrderlyFaults, remove_file
    PROVE  DurInv' /\ OpenTables' = OpenTables /\ Committed' = data /\ Committed = data
<1> DEFINE R == SeqRange(sstables)
           n == next_sstable_id
           m == Max(doomed)
<1>0. /\ pc \in {"unlink", "unlinking"} /\ pc' = "unlinking"
      /\ files' = Without(files, {m}) /\ doomed # {} /\ doomed' = doomed \ {m}
      /\ UNCHANGED <<data, wal, synced, sstables, next_sstable_id>>
  BY DEF remove_file, OrderlyFaults, memtable, log, tables
<1>1. /\ R \in SUBSET Nat /\ IsFiniteSet(R) /\ R \subseteq DOMAIN files
  BY <1>0, OpenFacts
<1>2. /\ n \in Nat /\ doomed \in SUBSET Nat
      /\ \A id \in doomed : id < n /\ id \notin R
  BY DEF IndInv, TypeOK, ObsoleteOnly
<1>3. m \in doomed /\ m \notin R /\ m # n
  <2>1. \A id \in doomed : id <= n
    BY <1>2
  <2>2. m \in doomed
    BY <1>0, <1>2, <2>1, MaxOfBounded
  <2> HIDE DEF m
  <2>3. m < n /\ m \in Nat /\ m \notin R
    BY <1>2, <2>2
  <2> QED BY <1>2, <2>2, <2>3
<1>4. OpenTables' = OpenTables
  <2> HIDE DEF R, m
  <2>1. Newest(Without(files, {m}), R) = Newest(files, R)
    BY <1>1, <1>3, NewestWithout
  <2> QED BY <1>0, <2>1 DEF OpenTables, R
<1>5. /\ DOMAIN files' = DOMAIN files \ {m}
      /\ n \in DOMAIN files => n \in DOMAIN files' /\ files'[n] = files[n]
  BY <1>0, <1>3 DEF Without
<1>6. PICK b \in 0..Len(wal) : OpenShape(b)
  BY <1>0 DEF DurInv
<1>7. OpenShape(b)'
  BY <1>0, <1>4, <1>6, LogSame
<1>8. DiskShape'
  <2>1. DiskShape
    BY <1>0 DEF DurInv
  <2>2. /\ DOMAIN files \subseteq R \cup doomed \cup {n}
        /\ n \in DOMAIN files => SameUnder(OpenTables, Overlay(OpenTables, files[n]), data)
    BY <2>1 DEF DiskShape
  <2>3. R' = R /\ n' = n
    BY <1>0
  <2> HIDE DEF m, R, n
  <2>4. /\ DOMAIN files' \subseteq R' \cup doomed' \cup {n'}
        /\ n' \in DOMAIN files' =>
               SameUnder(OpenTables', Overlay(OpenTables', files'[n']), data')
    BY <1>0, <1>4, <1>5, <2>2, <2>3
  <2> QED BY <1>0, <2>4 DEF DiskShape, R, n
<1>9. DurInv'
  BY <1>0, <1>6, <1>7, <1>8 DEF DurInv
<1> QED BY <1>0, <1>4, <1>9 DEF Committed

\* A partial record at the end of a log changes nothing that recovery finds.
LEMMA TornReplay ==
    ASSUME NEW s \in Seq(Record)
    PROVE  replay_wal(Append(s, torn_record)) = replay_wal(s)
<1> DEFINE v == Append(s, torn_record)
<1>1. /\ v \in Seq(Record) /\ Len(s) \in Nat /\ Len(v) = Len(s) + 1
      /\ \A i \in 1..Len(s) : v[i] = s[i]
      /\ v[Len(s) + 1].op = "torn"
  BY MarkerTypes DEF torn_record
<1> HIDE DEF v
<1>2. decoded(v) = decoded(s)
  <2> DEFINE c == At(s, {"torn"})
             d == At(v, {"torn"})
  <2>1. c \in SUBSET Nat /\ \A i \in c : i \in 1..Len(s)
    BY DEF At
  <2>2. d = c \cup {Len(s) + 1}
    BY <1>1 DEF At
  <2>3. /\ decoded(s) = IF c = {} THEN Len(s) ELSE Min(c) - 1
        /\ decoded(v) = IF d = {} THEN Len(v) ELSE Min(d) - 1
    BY DEF decoded
  <2> HIDE DEF c, d
  <2>4. d \in SUBSET Nat /\ d # {}
    <3>1. Len(s) + 1 \in Nat
      BY <1>1
    <3> QED BY <2>1, <2>2, <3>1
  <2>5. Min(d) \in d /\ \A y \in d : Min(d) <= y
    BY <2>4, MinOfNats
  <2>6. CASE c = {}
    <3>1. Min(d) = Len(s) + 1
      BY <2>2, <2>5, <2>6
    <3>2. decoded(v) = Min(d) - 1 /\ decoded(s) = Len(s)
      BY <2>3, <2>4, <2>6
    <3>3. Len(s) + 1 - 1 = Len(s)
      BY <1>1
    <3> QED BY <3>1, <3>2, <3>3
  <2>7. CASE c # {}
    <3>1. Min(c) \in c /\ \A y \in c : Min(c) <= y
      BY <2>1, <2>7, MinOfNats
    <3> DEFINE x == Min(c)
               y == Min(d)
    <3>2. x \in 1..Len(s) /\ y \in Nat /\ y <= x /\ (y \in c => x <= y)
          /\ (y \in c \/ y = Len(s) + 1)
      BY <2>1, <2>2, <2>4, <2>5, <3>1
    <3> HIDE DEF x, y
    <3>3. x = y
      BY <1>1, <3>2
    <3> QED BY <2>3, <2>4, <2>7, <3>3 DEF x, y
  <2> QED BY <2>6, <2>7
<1>3. parse_buffer(v) = parse_buffer(s)
  <2>1. decoded(s) \in 0..Len(s)
    BY DecodedBound
  <2>2. Commits(v) = Commits(s)
    BY <1>1, <1>2, <2>1 DEF Commits
  <2>3. /\ parse_buffer(v) = IF Commits(v) = {} THEN 0 ELSE Max(Commits(v))
        /\ parse_buffer(s) = IF Commits(s) = {} THEN 0 ELSE Max(Commits(s))
    BY DEF parse_buffer, Commits
  <2> QED BY <2>2, <2>3
<1>4. Upto(v, parse_buffer(s)) = Upto(s, parse_buffer(s))
  <2> DEFINE n == parse_buffer(s)
  <2>1. n \in 0..Len(s)
    BY ParseBound
  <2> HIDE DEF n
  <2>2. n \in Nat /\ \A i \in 1..n : v[i] = s[i]
    BY <1>1, <2>1
  <2>3. Upto(v, n) = Upto(s, n)
    BY <2>2, UptoAgrees
  <2> QED BY <2>3 DEF n
<1>5. replay_wal(v) = Upto(v, parse_buffer(v)) /\ replay_wal(s) = Upto(s, parse_buffer(s))
  BY DEF replay_wal, Upto
<1> QED BY <1>3, <1>4, <1>5 DEF v

\* open_with_dir leaves a log of committed batches, and replays all of it.
LEMMA ReopenForm ==
    ASSUME IndInv, open_with_dir, NEW b \in 0..Len(wal), b = parse_buffer(wal)
    PROVE  wal' \in Seq(Record) /\ b = Len(wal') /\ LogForm(b)' /\ data' = Upto(wal', b)
<1>0. pc' = "idle" /\ data' = replay_wal(wal) /\ wal' = read_for_recovery(wal)
  BY DEF open_with_dir
<1>1. wal \in Seq(Record) /\ Len(wal) \in Nat
  BY DEF IndInv, TypeOK
<1>2. b = parse_buffer(wal)
  OBVIOUS
<1>3. /\ wal' \in Seq(Record) /\ b = Len(wal')
      /\ \A i \in 1..b : wal'[i] = wal[i]
  BY <1>0, <1>1, RecoveryIsPrefix
<1>4. /\ \A i \in 1..b : wal'[i].op # "torn"
      /\ b = 0 \/ wal'[b].op = "commit"
  <2>1. /\ decoded(wal) \in 0..Len(wal) /\ b \in 0..decoded(wal)
        /\ \A i \in 1..decoded(wal) : wal[i].op # "torn"
    BY <1>1, <1>2, DecodedBound, ParseBound
  <2>2. b # 0 => wal[b].op = "commit"
    BY <1>1, <1>2, ParseBound DEF Commits
  <2> QED BY <1>3, <2>1, <2>2
<1>5. data' = Upto(wal', b)
  <2>1. replay_wal(wal) = Upto(wal, b)
    BY <1>2 DEF replay_wal, Upto
  <2>2. Upto(wal', b) = Upto(wal, b)
    BY <1>3, UptoAgrees
  <2> QED BY <1>0, <2>1, <2>2
<1>6. b \in 0..b /\ \A i \in 1..b : i <= b
  BY <1>1, <1>3
<1>7. LogForm(b)'
  BY <1>0, <1>3, <1>4, <1>6 DEF LogForm
<1> QED BY <1>3, <1>5, <1>7

\* It brings back what the directory holds.
LEMMA OpenKeepsShape ==
    ASSUME IndInv, DurInv, open_with_dir
    PROVE  DurInv' /\ View(OpenTables', Committed') = View(AllFiles, replay_wal(Stable))
<1>0. /\ pc = "closed" /\ pc' = "idle" /\ sstables' = NewestFirst(DOMAIN files)
      /\ next_sstable_id' = first_free_id(DOMAIN files) /\ data' = replay_wal(wal)
      /\ wal' = read_for_recovery(wal) /\ doomed' = {} /\ files' = files
      /\ synced' = IF Len(wal') < Len(wal) THEN wal' ELSE synced
  BY DEF open_with_dir, disk
<1>1. wal \in Seq(Record) /\ Len(wal) \in Nat /\ synced \in Seq(Record)
  BY DEF IndInv, TypeOK
<1>2. /\ DOMAIN files \in SUBSET Nat /\ IsFiniteSet(DOMAIN files)
      /\ SeqRange(sstables') = DOMAIN files
  BY <1>0, AllFacts
<1>3. OpenTables' = AllFiles
  BY <1>0, <1>2 DEF OpenTables, AllFiles
<1>3a. PICK b \in 0..Len(wal) : b = parse_buffer(wal)
  BY <1>1, ParseBound
<1>4. wal' \in Seq(Record) /\ b = Len(wal') /\ LogForm(b)' /\ data' = Upto(wal', b)
  BY <1>3a, ReopenForm
<1>7. LogShape(b)'
  <2>1. SameOver(OpenTables', Upto(wal', b), data')
    BY <1>4, SameAsItself
  <2> QED BY <1>0, <1>4, <2>1 DEF LogShape
<1>8. ASSUME "power_loss" \in Faults, synced' # wal'
      PROVE  /\ b = 0 /\ wal = << >> /\ data' = EmptyTable /\ synced' = synced
             /\ SameOver(AllFiles, replay_wal(synced), EmptyTable)
  <2>1. ~(Len(wal') < Len(wal)) /\ synced' = synced
    BY <1>0, <1>8
  <2>2. wal' = wal
    <3>1. parse_buffer(wal) = Len(wal)
      BY <1>1, <1>4, <1>3a, <2>1
    <3> QED BY <1>0, <1>1, <3>1, WholeSeq DEF read_for_recovery
  <2>3. ClosedShape /\ synced # wal
    BY <1>0, <1>8, <2>1, <2>2 DEF DurInv
  <2>4. wal = << >> /\ SameOver(AllFiles, replay_wal(synced), EmptyTable)
    BY <2>3 DEF ClosedShape
  <2>5. b = 0
    BY <1>4, <2>2, <2>4
  <2> QED BY <1>4, <2>1, <2>4, <2>5, UptoNone
<1>9. "power_loss" \in Faults => SyncShape(b)'
  <2>1. SubSeq(wal', 1, b) = wal'
    BY <1>4, WholeSeq
  <2>2. CASE synced' = wal'
    BY <1>0, <2>1, <2>2 DEF SyncShape
  <2>3. CASE synced' # wal'
    BY <1>0, <1>3, <1>8, <2>3 DEF SyncShape
  <2> QED BY <2>2, <2>3
<1>10. DiskShape'
  <2>1. next_sstable_id' \notin DOMAIN files
    <3>1. \A x \in DOMAIN files : x < next_sstable_id' /\ x \in Nat
      BY <1>0, <1>2, FirstFreeId
    <3> QED BY <3>1
  <2> QED BY <1>0, <1>2, <2>1 DEF DiskShape
<1>11. DurInv'
  <2>1. b \in 0..b
    BY <1>1, <1>4
  <2>2. OpenShape(b)'
    BY <1>7, <1>9 DEF OpenShape
  <2> QED BY <1>0, <1>4, <1>10, <2>1, <2>2 DEF DurInv
<1>12. View(OpenTables', Committed') = View(AllFiles, replay_wal(Stable))
  <2>1. Committed' = replay_wal(wal)
    BY <1>0 DEF Committed
  <2>2. CASE "power_loss" \in Faults => synced = wal
    BY <1>3, <2>1, <2>2 DEF Stable
  <2>3. CASE "power_loss" \in Faults /\ synced # wal
    <3>1. wal = << >> /\ SameOver(AllFiles, replay_wal(synced), EmptyTable)
      BY <1>0, <2>3 DEF DurInv, ClosedShape
    <3>2. replay_wal(wal) = EmptyTable
      <4>1. b = 0
        BY <3>1
      <4> QED BY <1>0, <1>4, <4>1, UptoNone
    <3>3. View(AllFiles, replay_wal(synced)) = View(AllFiles, EmptyTable)
      <4>1. SameUnder(AllFiles, AllFiles, EmptyTable)
        BY SameAsItself
      <4> QED BY <3>1, <4>1, SameView
    <3> QED BY <1>3, <2>1, <2>3, <3>2, <3>3 DEF Stable
  <2> QED BY <2>2, <2>3
<1> QED BY <1>11, <1>12

\* A table that is closed holds what was committed.
LEMMA CloseKeepsShape ==
    ASSUME IndInv, DurInv, close
    PROVE  DurInv' /\ View(AllFiles', replay_wal(Stable')) = View(OpenTables, Committed)
<1>0. pc = "idle" /\ pc' = "closed" /\ UNCHANGED <<wal, synced, files>>
  BY DEF close, Down, log, disk
<1>1. AllFiles' = AllFiles /\ Stable' = Stable
  BY <1>0 DEF AllFiles, Stable
<1>2. DiskShape /\ doomed = {}
  BY <1>0 DEF DurInv, DiskShape
<1>3. SameUnder(OpenTables, AllFiles, data)
  BY <1>0, <1>2, DiskAgrees
<1>4. SameOver(OpenTables, replay_wal(Stable), data) /\ Committed = data
  BY <1>0, StableSame DEF Committed
<1>5. View(AllFiles, replay_wal(Stable)) = View(OpenTables, data)
  BY <1>3, <1>4, SameView
<1>6. ASSUME "power_loss" \in Faults, synced # wal
      PROVE  wal = << >> /\ SameOver(AllFiles, replay_wal(synced), EmptyTable)
  <2>1. PICK b \in 0..Len(wal) : OpenShape(b)
    BY <1>0 DEF DurInv
  <2>2. b = Len(wal) /\ wal \in Seq(Record)
    BY <1>0, <2>1 DEF OpenShape, LogShape, LogForm, IndInv, TypeOK
  <2>3. b = 0
    BY <1>0, <1>6, <2>1, <2>2, WholeSeq DEF OpenShape, SyncShape
  <2>4. wal = << >>
    BY <2>2, <2>3, EmptySeq
  <2>5. \A k \in Keys : data[k] = Absent
    <3>1. SameOver(OpenTables, EmptyTable, data)
      BY <2>1, <2>3, UptoNone DEF OpenShape, LogShape, LogForm
    <3> QED BY <3>1 DEF SameOver, EmptyTable
  <2>6. SameOver(OpenTables, replay_wal(synced), data)
    BY <1>4, <1>6 DEF Stable
  <2> DEFINE r == replay_wal(synced)
             t == OpenTables
             a == AllFiles
  <2> HIDE DEF r, t, a
  <2>7. SameOver(a, r, EmptyTable)
    BY <1>3, <2>5, <2>6 DEF SameOver, SameUnder, EmptyTable, r, t, a
  <2> QED BY <2>4, <2>7 DEF a, r
<1>7. DurInv'
  BY <1>0, <1>1, <1>6 DEF DurInv, ClosedShape
<1> QED BY <1>1, <1>4, <1>5, <1>7

\* The view of whoever recovers a directory that agrees with the session.
LEMMA CrashView ==
    ASSUME IndInv, DurInv, OrderlyFaults, Interruptible, LeaveFiles, NEW r,
           NEW d \in {data, Overlay(data, pending)}, SameOver(OpenTables, r, d)
    PROVE  View(AllFiles', r) = View(OpenTables, d)
<1>1. pc # "closed" /\ DiskShape
  BY DEF Interruptible, DurInv
<1>2. pc # "unlink" => doomed = {}
  BY <1>1 DEF Interruptible, OrderlyFaults, DiskShape
<1>3. SameUnder(OpenTables, AllFiles', data)
  BY <1>1, <1>2, LeaveFilesAgrees
<1>4. \A k \in Keys : data[k] # Absent => d[k] # Absent
  BY DEF Overlay
<1> DEFINE a == AllFiles'
           t == OpenTables
<1> HIDE DEF a, t
<1>5. View(a, r) = View(t, d)
  BY <1>3, <1>4, SameView DEF a, t
<1> QED BY <1>5 DEF a, t

\* The process dies: all that is committed survives it.
LEMMA ProcessCrashKeeps ==
    ASSUME IndInv, DurInv, OrderlyFaults, process_crash
    PROVE  DurInv' /\ View(AllFiles', replay_wal(Stable')) = View(OpenTables, Committed)
<1>0. /\ Interruptible /\ LeaveFiles /\ pc' = "closed" /\ "power_loss" \notin Faults
      /\ wal' = wal \/ wal' = Append(wal, torn_record)
  BY DEF process_crash, OrderlyFaults, Down
<1>1. pc # "closed" /\ wal \in Seq(Record) /\ Len(wal) \in Nat
  BY <1>0 DEF Interruptible, IndInv, TypeOK
<1>2. PICK b \in 0..Len(wal) : OpenShape(b)
  BY <1>1 DEF DurInv
<1>3. LogShape(b) /\ Len(wal) \in b..Len(wal) /\ SubSeq(wal, 1, Len(wal)) = wal
  BY <1>1, <1>2, WholeSeq DEF OpenShape
<1>4. SameOver(OpenTables, replay_wal(wal'),
               IF pc \in {"sync", "apply"} /\ Len(wal) = Len(wal)
                 THEN Overlay(data, pending) ELSE data)
  BY <1>0, <1>1, <1>3, PrefixSame
<1>5. SameOver(OpenTables, replay_wal(wal'), Committed)
  BY <1>0, <1>4 DEF Committed
<1>6. View(AllFiles', replay_wal(wal')) = View(OpenTables, Committed)
  <2>1. Committed \in {data, Overlay(data, pending)}
    BY DEF Committed
  <2> DEFINE d == Committed
             r == replay_wal(wal')
  <2> HIDE DEF d, r
  <2>2. View(AllFiles', r) = View(OpenTables, d)
    BY <1>0, <1>5, <2>1, CrashView DEF d, r
  <2> QED BY <2>2 DEF d, r
<1>7. Stable' = wal'
  BY <1>0 DEF Stable
<1> QED BY <1>0, <1>6, <1>7 DEF DurInv

\* What a power loss may leave of the open log.
LEMMA SurvivorsAre ==
    ASSUME IndInv, pc # "closed", NEW b \in 0..Len(wal), OpenShape(b),
           "power_loss" \in Faults, NEW s \in Survivors
    PROVE  \/ pc # "apply" /\ SameOver(OpenTables, replay_wal(synced), data) /\ s = synced
           \/ \E n \in b..Len(wal) : s = SubSeq(wal, 1, n) /\ (pc = "apply" => n = Len(wal))
<1>1. wal \in Seq(Record) /\ Len(wal) \in Nat /\ synced \in Seq(Record)
  BY DEF IndInv, TypeOK
<1> DEFINE lo == IF IsPrefixOf(synced, wal) THEN Len(synced) ELSE 0
<1>2. s = synced \/ \E n \in lo..Len(wal) : s = SubSeq(wal, 1, n)
  BY DEF Survivors
<1>3. CASE pc = "apply"
  <2>1. synced = wal /\ SubSeq(wal, 1, Len(wal)) = wal
    BY <1>1, <1>3, WholeSeq DEF OpenShape, SyncShape
  <2>2. lo = Len(wal)
    BY <1>1, <2>1 DEF IsPrefixOf
  <2> HIDE DEF lo
  <2>3. s = SubSeq(wal, 1, Len(wal))
    <3>1. \A n \in lo..Len(wal) : n = Len(wal)
      BY <1>1, <2>2
    <3> QED BY <1>2, <2>1, <3>1
  <2>4. Len(wal) \in b..Len(wal)
    BY <1>1
  <2> QED BY <2>3, <2>4
<1>4. CASE pc # "apply" /\ synced = SubSeq(wal, 1, b)
  <2>1. Len(synced) = b
    BY <1>1, <1>4
  <2>2. lo = b
    BY <1>1, <1>4, <2>1 DEF IsPrefixOf
  <2> HIDE DEF lo
  <2>3. b \in b..Len(wal)
    BY <1>1
  <2> QED BY <1>2, <1>4, <2>2, <2>3
<1>5. CASE pc # "apply" /\ b = 0 /\ SameOver(OpenTables, replay_wal(synced), data)
  <2>1. lo \in Nat
    BY <1>1
  <2> HIDE DEF lo
  <2>2. \A n \in lo..Len(wal) : n \in b..Len(wal)
    BY <1>1, <1>5, <2>1
  <2> QED BY <1>2, <1>5, <2>2
<1> QED BY <1>3, <1>4, <1>5 DEF OpenShape, SyncShape

\* The machine dies: all that is committed for good survives it, and a COMMIT
\* that was not fsynced may.
LEMMA PowerLossKeeps ==
    ASSUME IndInv, DurInv, OrderlyFaults, power_loss
    PROVE  /\ DurInv'
           /\ \/ View(AllFiles', replay_wal(Stable')) = View(OpenTables, Committed)
              \/ /\ pc = "sync"
                 /\ View(AllFiles', replay_wal(Stable'))
                        = View(OpenTables, Overlay(data, pending))
<1>0. /\ Interruptible /\ LeaveFiles /\ pc' = "closed" /\ "power_loss" \in Faults
      /\ synced' = wal'
  BY DEF power_loss, PowerCut, Down
<1>1. PICK s \in Survivors : wal' = s \/ wal' = Append(s, torn_record)
  BY DEF power_loss, PowerCut
<1>2. pc # "closed" /\ wal \in Seq(Record) /\ Len(wal) \in Nat /\ synced \in Seq(Record)
  BY <1>0 DEF Interruptible, IndInv, TypeOK
<1>3. PICK b \in 0..Len(wal) : OpenShape(b)
  BY <1>2 DEF DurInv
<1>4. Stable' = wal' /\ DurInv'
  BY <1>0 DEF Stable, DurInv, ClosedShape
<1> DEFINE r == replay_wal(wal')
           o == Overlay(data, pending)
<1>5. \/ SameOver(OpenTables, r, data) /\ pc # "apply"
      \/ SameOver(OpenTables, r, o) /\ pc \in {"sync", "apply"}
  <2>1. CASE pc # "apply" /\ SameOver(OpenTables, replay_wal(synced), data) /\ s = synced
    <3>1. r = replay_wal(synced)
      BY <1>1, <1>2, <2>1, TornReplay
    <3> QED BY <2>1, <3>1
  <2>2. ASSUME NEW n \in b..Len(wal), s = SubSeq(wal, 1, n), pc = "apply" => n = Len(wal)
        PROVE  \/ SameOver(OpenTables, r, data) /\ pc # "apply"
               \/ SameOver(OpenTables, r, o) /\ pc \in {"sync", "apply"}
    <3>1. SameOver(OpenTables, r, IF pc \in {"sync", "apply"} /\ n = Len(wal)
                                    THEN o ELSE data)
      BY <1>1, <1>2, <1>3, <2>2, PrefixSame DEF OpenShape
    <3> HIDE DEF r, o
    <3> QED BY <2>2, <3>1
  <2>3. \/ pc # "apply" /\ SameOver(OpenTables, replay_wal(synced), data) /\ s = synced
        \/ \E n \in b..Len(wal) : s = SubSeq(wal, 1, n) /\ (pc = "apply" => n = Len(wal))
    BY <1>0, <1>2, <1>3, SurvivorsAre
  <2> HIDE DEF r, o
  <2> QED BY <2>1, <2>2, <2>3
<1> HIDE DEF r
<1>6. ASSUME NEW d \in {data, o}, SameOver(OpenTables, r, d)
      PROVE  View(AllFiles', r) = View(OpenTables, d)
  BY <1>0, <1>6, CrashView
<1>7. Committed = IF pc = "apply" THEN o ELSE data
  BY <1>0 DEF Committed
<1> HIDE DEF o
<1>8. \/ View(AllFiles', r) = View(OpenTables, Committed)
      \/ pc = "sync" /\ View(AllFiles', r) = View(OpenTables, o)
  BY <1>5, <1>6, <1>7
<1> QED BY <1>4, <1>8 DEF r, o

-----------------------------------------------------------------------------
(***************************************************************************)
(* Every step of the store is a step of the abstract table or a stutter.   *)
(***************************************************************************)

KVStep == KV!KVNext \/ UNCHANGED KV!abstract

\* A step of an open table keeps its contents if it keeps the view of what is
\* committed.
LEMMA OpenContents ==
    ASSUME IndInv, DurInv, IndInv', DurInv', pc # "closed", pc' # "closed"
    PROVE  /\ Contents = View(OpenTables, Committed)
           /\ Contents' = View(OpenTables', Committed')
<1>1. (IndInv /\ pc # "closed" /\ DurInv => Contents = View(OpenTables, Committed))'
  BY ContentsOpen, PTL
<1> QED BY <1>1, ContentsOpen

\* The labels of a write that has landed, if it is a write.
Landed == {"apply", "flush", "flush_sync", "clear", "compact", "merge_sync",
           "unlink", "unlinking"}

\* The abstract table's operators on tables are the store's.
LEMMA KVOperators ==
    /\ KV!EmptyTable = EmptyTable /\ KV!Table = Table
    /\ \A s, t : KV!Live(KV!Overlay(s, t)) = View(s, t)
BY DEF KV!EmptyTable, EmptyTable, KV!Table, KV!Entry, Table, Entry,
       KV!Live, KV!Overlay, View, Live, Overlay

\* The write that the abstract table sees in progress.
InCall == IF Calling THEN pending ELSE EmptyTable

LEMMA ReturnStep ==
    ASSUME pc \in Landed, NEW r \in {"ok", "err"}, Return(r), Contents' = Contents
    PROVE  KVStep
<1>1. pc' = "idle" /\ result' = IF pending = EmptyTable THEN "none" ELSE r
  BY DEF Return
<1>2. CASE pending = EmptyTable
  <2>1. /\ InCall = EmptyTable /\ InCall' = EmptyTable
        /\ HasLanded' = HasLanded /\ result' = "none"
    BY <1>1, <1>2 DEF Calling, HasLanded, InCall
  <2>2. KV!Other
    BY <2>1, KVOperators DEF KV!Other, InCall
  <2> QED BY <2>2 DEF KVStep, KV!KVNext
<1>3. CASE pending # EmptyTable
  <2>1. /\ InCall = pending /\ HasLanded /\ InCall' = EmptyTable
        /\ HasLanded' = FALSE
    BY <1>1, <1>3 DEF Calling, HasLanded, Landed, InCall
  <2>2. CASE r = "ok"
    <3>1. KV!Ok
      BY <1>1, <1>3, <2>1, <2>2, KVOperators DEF KV!Ok, InCall
    <3> QED BY <3>1 DEF KVStep, KV!KVNext
  <2>3. CASE r = "err"
    <3>1. KV!Fail
      BY <1>1, <1>3, <2>1, <2>3, KVOperators DEF KV!Fail, InCall
    <3> QED BY <3>1 DEF KVStep, KV!KVNext
  <2> QED BY <2>2, <2>3
<1> QED BY <1>2, <1>3

LEMMA GotoStep ==
    ASSUME pc \in Landed, pc' \in Landed, UNCHANGED <<pending, result>>,
           Contents' = Contents
    PROVE  KVStep
<1>1. Calling' = Calling /\ HasLanded' = HasLanded
  BY DEF Calling, HasLanded, Landed
<1>2. UNCHANGED KV!abstract
  BY <1>1 DEF KV!abstract
<1> QED BY <1>2 DEF KVStep

\* Calls that write nothing.
LEMMA OtherStep ==
    ASSUME ~Calling, ~Calling', result' \in {"none", result}, Contents' = Contents
    PROVE  KVStep
<1>1. InCall = EmptyTable /\ InCall' = EmptyTable /\ HasLanded' = HasLanded
  BY DEF HasLanded, InCall
<1>2. CASE result' = "none"
  <2>1. KV!Other
    BY <1>1, <1>2, KVOperators DEF KV!Other, InCall
  <2> QED BY <2>1 DEF KVStep, KV!KVNext
<1>3. CASE result' = result
  <2>1. UNCHANGED KV!abstract
    BY <1>1, <1>3 DEF KV!abstract, InCall
  <2> QED BY <2>1 DEF KVStep
<1> QED BY <1>2, <1>3

LEMMA SubmitStep ==
    ASSUME IndInv, pc \in {"idle", "txn"}, NEW batch \in Table, batch # EmptyTable,
           Log(batch), Contents' = Contents
    PROVE  KVStep
<1>1. pc' = "append" /\ pending' = batch /\ result' = "none"
  BY DEF Log
<1>2. InCall = EmptyTable /\ InCall' = batch /\ HasLanded' = HasLanded
  BY <1>1 DEF Calling, HasLanded, InCall
<1>3. KV!Submit
  BY <1>1, <1>2, KVOperators DEF KV!Submit, InCall
<1> QED BY <1>3 DEF KVStep, KV!KVNext

LEMMA LandStep ==
    ASSUME Calling, Calling', UNCHANGED <<pending, result>>, ~HasLanded, HasLanded',
           Contents' = View(Contents, pending)
    PROVE  KVStep
<1>1. InCall = pending /\ InCall' = pending /\ pending # EmptyTable
  BY DEF InCall, Calling
<1>2. HasLanded' = TRUE
  BY DEF HasLanded
<1>3. KV!Land
  BY <1>1, <1>2, KVOperators DEF KV!Land, KV!Landing, InCall
<1> QED BY <1>3 DEF KVStep, KV!KVNext

LEMMA InterruptStep ==
    ASSUME pc' = "closed", result' = "none",
           \/ Contents' = Contents
           \/ ~HasLanded /\ Calling /\ Contents' = View(Contents, pending)
    PROVE  KVStep
<1>1. InCall' = EmptyTable /\ HasLanded' = FALSE /\ (Calling => InCall = pending)
  BY DEF InCall, Calling, HasLanded
<1>2. KV!Interrupt
  BY <1>1, KVOperators DEF KV!Interrupt, KV!Landing, InCall
<1> QED BY <1>2 DEF KVStep, KV!KVNext

\* The steps that log a batch.
LEMMA LoggingStep ==
    ASSUME IndInv, IndInv', CallInv, DurInv, append \/ write_commit \/ sync_commit
    PROVE  DurInv' /\ KVStep
<1>1. CASE append
  <2>1. DurInv' /\ OpenTables' = OpenTables /\ Committed' = Committed
    BY <1>1, AppendKeeps
  <2>2. /\ pc = "append" /\ pc' \in {"append", "commit"}
        /\ UNCHANGED <<pending, result>>
    BY <1>1 DEF append
  <2>3. Contents' = Contents
    BY <2>1, <2>2, OpenContents
  <2>4. UNCHANGED KV!abstract
    <3>1. Calling' = Calling /\ HasLanded' = HasLanded
      BY <2>2 DEF Calling, HasLanded
    <3> QED BY <2>2, <2>3, <3>1 DEF KV!abstract
  <2> QED BY <2>1, <2>4 DEF KVStep
<1>2. ASSUME write_commit \/ sync_commit, DurInv', OpenTables' = OpenTables,
             Committed = data, Committed' = Overlay(data, pending),
             ~HasLanded, HasLanded', Calling
      PROVE  KVStep
  <2>1. /\ pc # "closed" /\ pc' # "closed" /\ UNCHANGED <<pending, result>>
    BY <1>2 DEF write_commit, sync_commit, Goto
  <2>2. /\ Contents = View(OpenTables, data)
        /\ Contents' = View(OpenTables, Overlay(data, pending))
    BY <1>2, <2>1, OpenContents
  <2>3. Contents' = View(Contents, pending)
    BY <2>2, ViewLands
  <2>4. Calling'
    BY <1>2 DEF HasLanded
  <2> QED BY <1>2, <2>1, <2>3, <2>4, LandStep
<1>3. ASSUME write_commit \/ sync_commit, DurInv', OpenTables' = OpenTables,
             Committed' = Committed, HasLanded' = HasLanded
      PROVE  KVStep
  <2>1. /\ pc \in {"commit", "sync"} /\ pc' \in {"sync", "apply"}
        /\ UNCHANGED <<pending, result>>
    BY <1>3 DEF write_commit, sync_commit, Goto
  <2>2. Contents' = Contents
    BY <1>3, <2>1, OpenContents
  <2>3. UNCHANGED KV!abstract
    <3>1. Calling' = Calling
      BY <2>1 DEF Calling
    <3> QED BY <1>3, <2>1, <2>2, <3>1 DEF KV!abstract
  <2> QED BY <2>3 DEF KVStep
<1>4. CASE write_commit
  <2>1. /\ DurInv' /\ OpenTables' = OpenTables /\ Committed = data
        /\ Committed' = IF "power_loss" \in Faults THEN data ELSE Overlay(data, pending)
    BY <1>4, WriteCommitKeeps
  <2>2. /\ pc = "commit" /\ pc' = "sync" /\ UNCHANGED pending /\ pending # EmptyTable
    BY <1>4 DEF write_commit, Goto, CallInv
  <2>3. CASE "power_loss" \in Faults
    <3>1. HasLanded' = HasLanded
      BY <2>2, <2>3 DEF HasLanded
    <3> QED BY <1>3, <1>4, <2>1, <2>3, <3>1
  <2>4. CASE "power_loss" \notin Faults
    <3>1. ~HasLanded /\ HasLanded' /\ Calling
      BY <2>2, <2>4 DEF HasLanded, Calling
    <3> QED BY <1>2, <1>4, <2>1, <2>4, <3>1
  <2> QED BY <2>1, <2>3, <2>4
<1>5. CASE sync_commit
  <2>1. /\ DurInv' /\ OpenTables' = OpenTables /\ Committed' = Overlay(data, pending)
        /\ Committed = IF "power_loss" \in Faults THEN data ELSE Overlay(data, pending)
    BY <1>5, SyncCommitKeeps
  <2>2. /\ pc = "sync" /\ pc' = "apply" /\ UNCHANGED pending /\ pending # EmptyTable
    BY <1>5 DEF sync_commit, Goto, CallInv
  <2>3. CASE "power_loss" \notin Faults
    <3>1. HasLanded' = HasLanded
      BY <2>2, <2>3 DEF HasLanded, Calling
    <3> QED BY <1>3, <1>5, <2>1, <2>3, <3>1
  <2>4. CASE "power_loss" \in Faults
    <3>1. ~HasLanded /\ HasLanded' /\ Calling
      BY <2>2, <2>4 DEF HasLanded, Calling
    <3> QED BY <1>2, <1>5, <2>1, <2>4, <3>1
  <2> QED BY <2>1, <2>3, <2>4
<1> QED BY <1>1, <1>4, <1>5

\* The steps of a write that has landed, and of flush and compact.
LEMMA LandedStep ==
    ASSUME IndInv, IndInv', DurInv, OrderlyFaults,
           \/ apply \/ flush \/ flush_sync \/ flush_fails \/ clear \/ clear_fails
           \/ compact \/ merge_sync \/ compact_fails \/ remove_file \/ compacted
    PROVE  DurInv' /\ KVStep
<1>1. ASSUME DurInv', View(OpenTables', Committed') = View(OpenTables, Committed),
             pc \in Landed,
             \/ pc' \in Landed /\ UNCHANGED <<pending, result>>
             \/ \E r \in {"ok", "err"} : Return(r)
      PROVE  KVStep
  <2>1. pc # "closed" /\ pc' # "closed"
    BY <1>1 DEF Landed, Return
  <2>2. Contents' = Contents
    BY <1>1, <2>1, OpenContents
  <2> QED BY <1>1, <2>2, ReturnStep, GotoStep
<1>2. ASSUME pc \in {"flush", "flush_sync", "compact", "merge_sync", "unlinking"},
             doomed = {}, NEW r \in {"ok", "err"}, Return(r),
             UNCHANGED <<memtable, log, tables, disk>>
      PROVE  DurInv' /\ KVStep
  <2>1. DurInv' /\ OpenTables' = OpenTables /\ Committed' = data /\ Committed = data
    BY <1>2, QuietKeeps DEF Return, Quiet, memtable, log, tables, disk
  <2> QED BY <1>1, <1>2, <2>1 DEF Landed
<1>3. pc \notin {"closed", "unlink", "unlinking"} => doomed = {}
  BY DEF DurInv, DiskShape
<1>4. CASE apply
  BY <1>1, <1>4, ApplyKeeps DEF apply, Landed, Goto
<1>5. ASSUME pc \in {"flush", "compact"}, StartFile(next_sstable_id),
             pc' \in {"flush_sync", "merge_sync"}, Goto(pc'),
             UNCHANGED <<memtable, log, tables>>
      PROVE  DurInv' /\ KVStep
  <2>1. DurInv' /\ OpenTables' = OpenTables /\ Committed' = data /\ Committed = data
    BY <1>5, StartKeeps DEF Goto, memtable, log, tables
  <2> QED BY <1>1, <1>5, <2>1 DEF Landed, Goto
<1>6. ASSUME pc \in {"flush_sync", "merge_sync"}, NEW t \in {data, merged},
             FinishFile(next_sstable_id, t), Return("err"),
             UNCHANGED <<memtable, log, tables>>
      PROVE  DurInv' /\ KVStep
  <2>1. DurInv' /\ OpenTables' = OpenTables /\ Committed' = data /\ Committed = data
    BY <1>6, AbandonKeeps DEF Return, memtable, log, tables
  <2> QED BY <1>1, <1>6, <2>1 DEF Landed
<1>7. CASE flush
  BY <1>2, <1>3, <1>5, <1>7 DEF flush, Goto
<1>8. CASE flush_sync
  BY <1>1, <1>8, FlushKeeps DEF flush_sync, Landed, Goto
<1>9. CASE flush_fails
  BY <1>2, <1>3, <1>6, <1>9 DEF flush_fails, AbandonFile
<1>10. CASE clear \/ clear_fails
  BY <1>1, <1>10, ClearKeeps DEF clear, clear_fails, Landed, Goto
<1>11. CASE compact
  <2>1. CASE Len(sstables) < 2 /\ Return("ok") /\ UNCHANGED <<tables, disk>>
    BY <1>2, <1>3, <1>11, <2>1 DEF compact
  <2>2. CASE /\ merged = EmptyTable /\ sstables' = << >> /\ doomed' = old_paths
             /\ pc' = "unlink"
             /\ UNCHANGED <<next_sstable_id, disk, pending, todo, result>>
    BY <1>1, <1>11, <2>2, CompactAwayKeeps DEF compact, Landed, memtable, log, disk
  <2>3. CASE StartFile(next_sstable_id) /\ Goto("merge_sync") /\ UNCHANGED tables
    BY <1>5, <1>11, <2>3 DEF compact, Goto
  <2> QED BY <1>11, <2>1, <2>2, <2>3 DEF compact
<1>12. CASE merge_sync
  BY <1>1, <1>12, MergeKeeps DEF merge_sync, Landed
<1>13. CASE compact_fails
  BY <1>2, <1>3, <1>6, <1>13 DEF compact_fails, AbandonFile
<1>14. CASE remove_file
  BY <1>1, <1>14, RemoveKeeps DEF remove_file, Landed
<1>15. CASE compacted
  BY <1>2, <1>15 DEF compacted
<1> QED
  BY <1>4, <1>7, <1>8, <1>9, <1>10, <1>11, <1>12, <1>13, <1>14, <1>15

\* The calls that leave the log and the files alone.
LEMMA QuietStep ==
    ASSUME IndInv, IndInv', CallInv, DurInv, pc \in {"idle", "txn"}, pc' \in Quiet,
           pc' \in {"flush", "compact"} => pending' = EmptyTable,
           result' \in {"none", result},
           UNCHANGED <<data, log, tables, disk, doomed>>
    PROVE  DurInv' /\ KVStep
<1>1. doomed = {} /\ doomed' = {}
  BY DEF DurInv, DiskShape
<1>2. DurInv' /\ OpenTables' = OpenTables /\ Committed' = data /\ Committed = data
  BY <1>1, QuietKeeps DEF log, tables, disk
<1>3. Contents' = Contents
  BY <1>2, OpenContents DEF Quiet
<1>4. ~Calling /\ ~Calling'
  BY DEF Calling, Quiet
<1> QED BY <1>2, <1>3, <1>4, OtherStep

\* The calls that start to log a batch.
LEMMA BatchStep ==
    ASSUME IndInv, IndInv', DurInv, pc \in {"idle", "txn"}, NEW batch \in Table,
           batch # EmptyTable, Log(batch)
    PROVE  DurInv' /\ KVStep
<1>1. DurInv' /\ OpenTables' = OpenTables /\ Committed' = data /\ Committed = data
  BY LogKeepsShape
<1>2. pc # "closed" /\ pc' # "closed"
  BY DEF Log
<1>3. Contents' = Contents
  BY <1>1, <1>2, OpenContents
<1> QED BY <1>1, <1>3, SubmitStep

\* What the application asks for.
LEMMA ClientStep ==
    ASSUME IndInv, IndInv', CallInv, DurInv,
           \/ open_with_dir \/ open_fails \/ set_memtable_budget
           \/ set_value \/ delete_value
           \/ begin_transaction \/ txn_set_value \/ txn_delete_value
           \/ txn_commit \/ rollback
           \/ call_flush \/ call_compact
    PROVE  DurInv' /\ KVStep
<1>1. CASE open_with_dir
  <2>1. /\ DurInv'
        /\ View(OpenTables', Committed') = View(AllFiles, replay_wal(Stable))
    BY <1>1, OpenKeepsShape
  <2>2. pc = "closed" /\ pc' = "idle" /\ result' = result
    BY <1>1 DEF open_with_dir
  <2>3. (IndInv /\ pc # "closed" /\ DurInv => Contents = View(OpenTables, Committed))'
    BY ContentsOpen, PTL
  <2>4. Contents' = Contents
    BY <2>1, <2>2, <2>3, ContentsClosed
  <2>5. ~Calling /\ ~Calling'
    BY <2>2 DEF Calling
  <2> QED BY <2>1, <2>2, <2>4, <2>5, OtherStep
<1>2. CASE open_fails
  <2>1. UNCHANGED vars
    BY <1>2 DEF open_fails
  <2>2. DurInv'
    BY <2>1 DEF vars, memtable, log, tables, disk, caller, DurInv, ClosedShape,
                DiskShape, OpenShape, LogShape, LogForm, SyncShape, OpenTables, AllFiles
  <2>3. UNCHANGED <<pc, pending, result, Contents>>
    BY <2>1 DEF vars, memtable, log, tables, disk, caller, Contents, DiskView, Stable
  <2>4. UNCHANGED KV!abstract
    BY <2>3 DEF KV!abstract, Calling, HasLanded
  <2> QED BY <2>2, <2>4 DEF KVStep
<1>3. CASE set_memtable_budget \/ begin_transaction \/ call_flush \/ call_compact
  BY <1>3, QuietStep DEF set_memtable_budget, begin_transaction, call_flush,
                         call_compact, CallInv, Quiet, memtable
<1>4. CASE txn_set_value \/ txn_delete_value \/ rollback
  BY <1>4, QuietStep DEF txn_set_value, txn_delete_value, rollback, Quiet, memtable
<1>5. CASE set_value
  <2>1. PICK k \in Keys, v \in Values : pc = "idle" /\ Log(One(k, v))
    BY <1>5 DEF set_value
  <2>2. v \in Entry
    BY DEF Entry
  <2>3. One(k, v) \in Table /\ One(k, v) # EmptyTable
    BY <2>2, OneType DEF KeysOf, EmptyTable
  <2> QED BY <2>1, <2>3, BatchStep
<1>6. CASE delete_value
  <2>1. PICK k \in Keys : pc = "idle" /\ Log(One(k, Tombstone))
    BY <1>6 DEF delete_value
  <2>2. Tombstone \in Entry
    BY DEF Entry
  <2>3. One(k, Tombstone) \in Table /\ One(k, Tombstone) # EmptyTable
    BY <2>2, OneType DEF KeysOf, EmptyTable
  <2> QED BY <2>1, <2>3, BatchStep
<1>7. CASE txn_commit
  <2>1. pc = "txn" /\ pending \in Table
    BY <1>7 DEF txn_commit, IndInv, TypeOK
  <2>2. CASE Goto("idle") /\ UNCHANGED <<memtable, log, sequence, tables, disk>>
    BY <2>1, <2>2, QuietStep DEF Goto, Quiet, memtable
  <2>3. CASE pending # EmptyTable /\ Log(pending)
    BY <2>1, <2>3, BatchStep
  <2> QED BY <1>7, <2>2, <2>3 DEF txn_commit
<1> QED BY <1>1, <1>2, <1>3, <1>4, <1>5, <1>6, <1>7

\* The end of a session.
LEMMA EndStep ==
    ASSUME IndInv, IndInv', CallInv, DurInv, OrderlyFaults,
           close \/ process_crash \/ power_loss
    PROVE  DurInv' /\ KVStep
<1>1. pc # "closed" /\ pc' = "closed" /\ result' = "none"
  BY DEF close, process_crash, power_loss, PowerCut, Interruptible, Down
<1>2. (IndInv /\ pc = "closed" => Contents = View(AllFiles, replay_wal(Stable)))'
  BY ContentsClosed, PTL
<1>3. Contents' = View(AllFiles', replay_wal(Stable'))
  BY <1>1, <1>2
<1>4. Contents = View(OpenTables, Committed)
  BY <1>1, ContentsOpen
<1>5. CASE close \/ process_crash
  <2>1. DurInv' /\ View(AllFiles', replay_wal(Stable')) = View(OpenTables, Committed)
    BY <1>5, CloseKeepsShape, ProcessCrashKeeps
  <2> QED BY <1>1, <1>3, <1>4, <2>1, InterruptStep
<1>6. CASE power_loss
  <2>1. /\ DurInv'
        /\ \/ Contents' = View(OpenTables, Committed)
           \/ pc = "sync" /\ Contents' = View(OpenTables, Overlay(data, pending))
    BY <1>3, <1>6, PowerLossKeeps
  <2>2. CASE Contents' = View(OpenTables, Committed)
    BY <1>1, <1>4, <2>1, <2>2, InterruptStep
  <2>3. CASE pc = "sync" /\ Contents' = View(OpenTables, Overlay(data, pending))
    <3>1. "power_loss" \in Faults
      BY <1>6 DEF power_loss, PowerCut
    <3>2. Committed = data /\ ~HasLanded /\ Calling
      BY <2>3, <3>1 DEF Committed, HasLanded, Calling, CallInv
    <3>3. Contents' = View(Contents, pending)
      BY <1>4, <2>3, <3>2, ViewLands
    <3> QED BY <1>1, <2>1, <3>2, <3>3, InterruptStep
  <2> QED BY <2>1, <2>2, <2>3
<1> QED BY <1>5, <1>6

\* A step of the store keeps the invariant and is a step of the abstract table.
LEMMA NextStep ==
    ASSUME OrderlyFaults
    PROVE  IndInv /\ CallInv /\ DurInv /\ [Next]_vars => DurInv' /\ KVStep
<1> SUFFICES ASSUME IndInv, CallInv, DurInv, [Next]_vars PROVE DurInv' /\ KVStep
  OBVIOUS
<1>1. IndInv'
  BY NextInv
<1>2. CASE Engine
  <2>1. ~(append_fails \/ write_commit_fails \/ sync_commit_fails)
    BY DEF append_fails, write_commit_fails, sync_commit_fails, OrderlyFaults
  <2>2. CASE append \/ write_commit \/ sync_commit
    BY <1>1, <2>2, LoggingStep
  <2>3. CASE \/ apply \/ flush \/ flush_sync \/ flush_fails \/ clear \/ clear_fails
             \/ compact \/ merge_sync \/ compact_fails \/ remove_file \/ compacted
    BY <1>1, <2>3, LandedStep
  <2> QED BY <1>2, <2>1, <2>2, <2>3 DEF Engine
<1>3. CASE close \/ process_crash \/ power_loss
  BY <1>1, <1>3, EndStep
<1>4. CASE \/ open_with_dir \/ open_fails \/ set_memtable_budget
           \/ set_value \/ delete_value
           \/ begin_transaction \/ txn_set_value \/ txn_delete_value
           \/ txn_commit \/ rollback \/ call_flush \/ call_compact
  BY <1>1, <1>4, ClientStep
<1>5. CASE UNCHANGED vars
  <2>1. DurInv'
    BY <1>5 DEF vars, memtable, log, tables, disk, caller, DurInv, ClosedShape,
                DiskShape, OpenShape, LogShape, LogForm, SyncShape, OpenTables, AllFiles
  <2>2. UNCHANGED <<pc, pending, result, Contents>>
    BY <1>5 DEF vars, memtable, log, tables, disk, caller, Contents, DiskView, Stable
  <2>3. UNCHANGED KV!abstract
    BY <2>2 DEF KV!abstract, Calling, HasLanded
  <2> QED BY <2>1, <2>3 DEF KVStep
<1> QED BY <1>2, <1>3, <1>4, <1>5 DEF Next, Client

LEMMA InitStep ==
    Init => CallInv /\ DurInv /\ KV!KVInit
<1> SUFFICES ASSUME Init PROVE CallInv /\ DurInv /\ KV!KVInit
  OBVIOUS
<1>1. /\ pc = "closed" /\ pending = EmptyTable /\ result = "none"
      /\ wal = << >> /\ synced = << >> /\ files = << >>
  BY DEF Init
<1>2. CallInv
  BY <1>1 DEF CallInv
<1>3. DurInv
  BY <1>1 DEF DurInv, ClosedShape
<1>4. DOMAIN files = {}
  BY <1>1
<1>5. AllFiles = EmptyTable
  BY <1>4 DEF AllFiles, Newest, EmptyTable
<1>6. replay_wal(Stable) = EmptyTable
  BY <1>1, EmptyLog DEF Stable
<1>7. Contents = EmptyTable
  <2>1. Contents = View(EmptyTable, EmptyTable)
    BY <1>1, <1>5, <1>6, InitInv, ContentsClosed
  <2> QED BY <2>1, MarkersAssumption DEF View, Live, Overlay, EmptyTable
<1>8. ~Calling /\ HasLanded = FALSE
  BY <1>1 DEF Calling, HasLanded
<1>9. KV!KVInit
  BY <1>1, <1>7, <1>8, KVOperators DEF KV!KVInit
<1> QED BY <1>2, <1>3, <1>9

(***************************************************************************)
(* Whatever the keys, the values, the limits and the sequence of calls,    *)
(* and whatever crashes, torn SSTables and I/O errors of orderly faults    *)
(* befall them, store.rs implements KVTable: set_value, delete_value and   *)
(* Transaction::commit take effect whole and at one step before they       *)
(* return Ok, and flush, compact, close, open_with_dir and recovery change *)
(* no value.                                                               *)
(***************************************************************************)
THEOREM StoreImplementsTable ==
    ASSUME OrderlyFaults
    PROVE  Spec => RefinesKV
<1>1. Init => IndInv /\ CallInv /\ DurInv /\ KV!KVInit
  BY InitInv, InitStep
<1>2. IndInv /\ CallInv /\ DurInv /\ [Next]_vars
          => IndInv' /\ CallInv' /\ DurInv' /\ [KV!KVNext]_(KV!abstract)
  BY NextInv, NextCallInv, NextStep DEF KVStep
<1> QED BY <1>1, <1>2, PTL DEF Spec, RefinesKV, KV!KVSpec

(***************************************************************************)
(* Under the same faults a reader of the open store sees, between two      *)
(* calls, what load_sstables and replay_wal would rebuild after a failure. *)
(***************************************************************************)
THEOREM SessionsMatchDisk ==
    ASSUME OrderlyFaults
    PROVE  Spec => []SessionMatchesDisk
<1>1. Init => IndInv /\ CallInv /\ DurInv
  BY InitInv, InitStep
<1>2. IndInv /\ CallInv /\ DurInv /\ [Next]_vars => IndInv' /\ CallInv' /\ DurInv'
  BY NextInv, NextCallInv, NextStep
<1>3. IndInv /\ DurInv => SessionMatchesDisk
  <2> SUFFICES ASSUME IndInv, DurInv, pc \in {"idle", "txn"}
               PROVE  SessionView = DiskView
    BY DEF SessionMatchesDisk
  <2>1. SessionView = View(OpenTables, data)
    BY OpenFacts DEF SessionView, View
  <2>2. DiskView = View(AllFiles, replay_wal(Stable))
    BY AllFacts DEF DiskView, View
  <2>3. SameOver(OpenTables, replay_wal(Stable), data)
    BY StableSame DEF Committed
  <2>4. SameUnder(OpenTables, AllFiles, data)
    BY DiskAgrees DEF DurInv, DiskShape
  <2> QED BY <2>1, <2>2, <2>3, <2>4, SameView
<1> QED BY <1>1, <1>2, <1>3, PTL DEF Spec

=============================================================================
