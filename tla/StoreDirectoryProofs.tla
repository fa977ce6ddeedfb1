------------------------ MODULE StoreDirectoryProofs ------------------------
(***************************************************************************)
(* A key that is not deleted survives in a directory whose removals are    *)
(* not durable at once: proof for every set of keys, values, limits and    *)
(* faults.                                                                 *)
(***************************************************************************)
EXTENDS StoreDirectory, StoreRefinesKVProofs

(***************************************************************************)
(* The inductive invariant.  A file that is gone, or about to go, is the   *)
(* newest one for none of its values, whichever files come back.  A file   *)
(* that an open table does not list is older than all it lists.  The log   *)
(* amounts to the memtable, or to the table just flushed.                  *)
(***************************************************************************)

\* A newer file has an entry for every value of file m.
Covered(m) ==
    \A k \in Keys : Known[m][k] \in Values =>
        \E id \in DOMAIN Known : id > m /\ Known[id][k] # Absent

RemovedShape ==
    /\ DOMAIN unlinked \subseteq Nat
    /\ IsFiniteSet(DOMAIN unlinked)
    /\ unlinked \in [DOMAIN unlinked -> Table]
    /\ DOMAIN unlinked \cap DOMAIN files = {}
    /\ doomed \subseteq DOMAIN files
    /\ pc \notin {"unlink", "unlinking"} => doomed = {}
    /\ \A m \in DOMAIN unlinked \cup doomed : Covered(m)

ListShape ==
    pc # "closed" =>
        /\ \A id \in DOMAIN files : id < next_sstable_id
        /\ \A id \in DOMAIN files \ SeqRange(sstables), t \in SeqRange(sstables) :
               id < t

\* The first b records of an open log are committed.  (LogForm.)
CommittedShape(b) ==
    /\ LogForm(b)
    /\ pc # "clear" => data = Upto(wal, b)
    /\ pc = "clear" =>
           /\ data = EmptyTable
           /\ unlinked = << >>
           /\ \E s \in SeqRange(sstables) :
                  files[s] = Upto(wal, b) /\ \A id \in DOMAIN files : id <= s
    /\ "power_loss" \in Faults =>
           synced = IF pc = "apply" THEN wal ELSE SubSeq(wal, 1, b)

CommittedLog ==
    IF pc = "closed" THEN "power_loss" \in Faults => synced = wal
                     ELSE \E b \in 0..Len(wal) : CommittedShape(b)

DInv == IndInv /\ RemovedShape /\ ListShape /\ CommittedLog

-----------------------------------------------------------------------------
(***************************************************************************)
(* A key has the value v for good: the last committed record of the log    *)
(* gives it, or no record does and the newest file with an entry for the   *)
(* key gives it, is open and cannot come to be overruled by one that is    *)
(* gone.                                                                   *)
(***************************************************************************)

Listed == IF pc = "closed" THEN DOMAIN files ELSE SeqRange(sstables)
Logged(k) == replay_wal(Stable)[k]
Top(k, v) ==
    \E s \in Listed :
        files[s][k] = v /\ \A id \in DOMAIN Known : Known[id][k] # Absent => id <= s
Firm(k, v) == Logged(k) = v \/ (Logged(k) = Absent /\ Top(k, v))

\* The files on disk and those that may come back.
LEMMA KnownFacts ==
    ASSUME IndInv, RemovedShape
    PROVE  /\ DOMAIN Known = DOMAIN files \cup DOMAIN unlinked
           /\ DOMAIN Known \in SUBSET Nat /\ IsFiniteSet(DOMAIN Known)
           /\ \A id \in DOMAIN files : Known[id] = files[id]
           /\ \A id \in DOMAIN unlinked : Known[id] = unlinked[id]
           /\ \A id \in DOMAIN Known : Known[id] \in Table
           /\ Listed \subseteq DOMAIN files
           /\ Listed \in SUBSET Nat
<1>1. /\ DOMAIN files \subseteq Nat /\ IsFiniteSet(DOMAIN files)
      /\ \A id \in DOMAIN files : files[id] \in Table
  BY DEF IndInv, TypeOK
<1>2. /\ DOMAIN unlinked \subseteq Nat /\ IsFiniteSet(DOMAIN unlinked)
      /\ \A id \in DOMAIN unlinked : unlinked[id] \in Table
      /\ DOMAIN unlinked \cap DOMAIN files = {}
  BY DEF RemovedShape
<1>3. DOMAIN Known = DOMAIN files \cup DOMAIN unlinked
  BY DEF Known
<1>4. IsFiniteSet(DOMAIN Known)
  BY <1>1, <1>2, <1>3, FS_Union
<1>5. /\ \A id \in DOMAIN files : Known[id] = files[id]
      /\ \A id \in DOMAIN unlinked : Known[id] = unlinked[id]
  BY <1>2 DEF Known
<1>6. Listed \subseteq DOMAIN files
  BY OpenFacts DEF Listed
<1> QED BY <1>1, <1>2, <1>3, <1>4, <1>5, <1>6

\* The log that a failure is certain to leave is a log.
LEMMA StableType ==
    ASSUME IndInv
    PROVE  Stable \in Seq(Record) /\ replay_wal(Stable) \in Table
BY ReplayType DEF IndInv, TypeOK, Stable

\* Recovery looks up the log and then the newest files.
LEMMA RecoveredIs ==
    ASSUME NEW fs, NEW k \in Keys
    PROVE  Recovered(fs, k) =
               IF Logged(k) # Absent THEN Logged(k) ELSE Newest(fs, DOMAIN fs)[k]
BY DEF Recovered, Logged, Newest

\* So does a reader of the open table, who is not shown tombstones.
LEMMA ContentsAre ==
    ASSUME IndInv, pc # "closed", NEW k \in Keys, NEW v \in Values
    PROVE  Contents[k] = v <=>
               IF Logged(k) # Absent THEN Logged(k) = v ELSE OpenTables[k] = v
<1>1. Contents = Live(Overlay(OpenTables, replay_wal(Stable)))
  BY OpenFacts DEF Contents
<1>2. v # Tombstone /\ v # Absent
  BY MarkersAssumption
<1> QED BY <1>1, <1>2 DEF Live, Overlay, Logged

\* A file that is the newest one for a key and has a value for it is open.
LEMMA SettledIsFirm ==
    ASSUME DInv, NEW k \in Keys, NEW v \in Values
    PROVE  <<k, v>> \in Settled <=> Firm(k, v)
<1>0. IndInv /\ RemovedShape /\ ListShape /\ v # Absent
  BY MarkersAssumption DEF DInv
<1>1. <<k, v>> \in Settled <=>
        /\ Recovered(files, k) = v /\ Recovered(Known, k) = v
        /\ pc # "closed" => Contents[k] = v
  BY DEF Settled
<1>2. CASE Logged(k) # Absent
  <2>1. Recovered(files, k) = Logged(k) /\ Recovered(Known, k) = Logged(k)
    BY <1>2, RecoveredIs
  <2>2. pc # "closed" => (Contents[k] = v <=> Logged(k) = v)
    BY <1>0, <1>2, ContentsAre
  <2> QED BY <1>1, <1>2, <2>1, <2>2 DEF Firm
<1>3. CASE Logged(k) = Absent
  <2> DEFINE F == DOMAIN files
             D == DOMAIN Known
             S == SeqRange(sstables)
  <2>1. /\ Recovered(files, k) = Newest(files, F)[k]
        /\ Recovered(Known, k) = Newest(Known, D)[k]
    BY <1>3, RecoveredIs
  <2>2. pc # "closed" => (Contents[k] = v <=> Newest(files, S)[k] = v)
    BY <1>0, <1>3, ContentsAre DEF OpenTables
  <2>3. /\ F \in SUBSET Nat /\ IsFiniteSet(F) /\ D \in SUBSET Nat /\ IsFiniteSet(D)
        /\ F \subseteq D /\ D = F \cup DOMAIN unlinked
        /\ \A id \in F : Known[id] = files[id]
    BY <1>0, KnownFacts, AllFacts
  <2>4. pc # "closed" => S \in SUBSET Nat /\ IsFiniteSet(S) /\ S \subseteq F
    BY <1>0, OpenFacts
  <2>5. Firm(k, v) <=> Top(k, v)
    BY <1>0, <1>3 DEF Firm
  <2>6. ASSUME Top(k, v) PROVE <<k, v>> \in Settled
    <3>1. PICK s \in Listed : /\ files[s][k] = v
                              /\ \A id \in D : Known[id][k] # Absent => id <= s
      BY <2>6 DEF Top
    <3>2. s \in F /\ (pc # "closed" => s \in S)
      BY <2>4 DEF Listed
    <3> HIDE DEF F, D, S
    <3>3. IsNewest(Known, D, k, v)
      BY <1>0, <2>3, <3>1, <3>2 DEF IsNewest
    <3>4. IsNewest(files, F, k, v)
      BY <1>0, <2>3, <3>1, <3>2 DEF IsNewest
    <3>5. pc # "closed" => IsNewest(files, S, k, v)
      BY <1>0, <2>3, <2>4, <3>1, <3>2 DEF IsNewest
    <3>6. Newest(Known, D)[k] = v
      BY <2>3, <3>3, NewestIs
    <3>7. Newest(files, F)[k] = v
      BY <2>3, <3>4, NewestIs
    <3>8. pc # "closed" => Newest(files, S)[k] = v
      BY <2>4, <3>5, NewestIs
    <3> QED BY <1>1, <2>1, <2>2, <3>6, <3>7, <3>8
  <2>7. ASSUME <<k, v>> \in Settled PROVE Top(k, v)
    <3>1. /\ Newest(Known, D)[k] = v
          /\ pc # "closed" => Newest(files, S)[k] = v
      BY <1>1, <2>1, <2>2, <2>7
    <3>2. /\ \A m \in DOMAIN unlinked : Covered(m)
          /\ pc # "closed" => \A id \in F \ S, t \in S : id < t
      BY <1>0 DEF RemovedShape, ListShape
    <3>3. IsNewest(Known, D, k, Newest(Known, D)[k])
      <4> HIDE DEF D
      <4> QED BY <2>3, NewestIs
    <3>4. pc # "closed" => IsNewest(files, S, k, Newest(files, S)[k])
      <4> HIDE DEF S
      <4> QED BY <2>4, NewestIs
    <3>5. PICK m \in D : /\ Known[m][k] = v
                         /\ \A id \in D : Known[id][k] # Absent => id <= m
      <4> HIDE DEF D
      <4> QED BY <1>0, <3>1, <3>3 DEF IsNewest
    <3>6. m \in F
      <4>1. SUFFICES ASSUME m \in DOMAIN unlinked PROVE FALSE
        BY <2>3
      <4>2. PICK id \in D : id > m /\ Known[id][k] # Absent
        BY <3>2, <3>5, <4>1 DEF Covered
      <4> QED BY <2>3, <3>5, <4>2
    <3>7. ASSUME pc # "closed" PROVE m \in S
      <4>1. PICK s \in S : files[s][k] = v
        <5> HIDE DEF S
        <5> QED BY <1>0, <3>1, <3>4, <3>7 DEF IsNewest
      <4>2. s \in F /\ s <= m
        BY <1>0, <2>3, <2>4, <3>5, <3>7, <4>1
      <4> HIDE DEF S, F, D
      <4>3. s \in Nat /\ m \in Nat
        BY <2>3, <3>6, <4>2
      <4> QED BY <3>2, <3>6, <3>7, <4>2, <4>3
    <3>8. m \in Listed
      BY <3>6, <3>7 DEF Listed
    <3> QED BY <2>3, <3>5, <3>6, <3>8 DEF Top
  <2> QED BY <2>5, <2>6, <2>7
<1> QED BY <1>2, <1>3

-----------------------------------------------------------------------------
(***************************************************************************)
(* What a step must keep.                                                  *)
(***************************************************************************)

Shapes == RemovedShape /\ ListShape /\ CommittedLog

\* The keys that no write is touching keep their values.
FirmKept ==
    \A k \in Keys, v \in Values : pending[k] = Absent /\ Firm(k, v) => Firm(k, v)'

\* A newest file stays so while no file is closed, changed or added.
LEMMA TopKept ==
    ASSUME NEW k, NEW v, Top(k, v), Listed \subseteq Listed',
           \A s \in Listed : files'[s] = files[s],
           \A id \in DOMAIN Known' : id \in DOMAIN Known /\ Known'[id] = Known[id]
    PROVE  Top(k, v)'
<1>1. PICK s \in Listed : /\ files[s][k] = v
                          /\ \A id \in DOMAIN Known : Known[id][k] # Absent => id <= s
  BY DEF Top
<1>2. s \in Listed' /\ files'[s][k] = v
  BY <1>1
<1>3. \A id \in DOMAIN Known' : Known'[id][k] # Absent => id <= s
  BY <1>1
<1> QED BY <1>2, <1>3 DEF Top

\* The same of all keys, when the log gives them what it gave.
LEMMA FilesKept ==
    ASSUME Listed \subseteq Listed', \A s \in Listed : files'[s] = files[s],
           \A id \in DOMAIN Known' : id \in DOMAIN Known /\ Known'[id] = Known[id],
           \A k \in Keys : pending[k] = Absent => Logged(k)' = Logged(k)
    PROVE  FirmKept
<1>1. SUFFICES ASSUME NEW k \in Keys, NEW v \in Values, pending[k] = Absent, Firm(k, v)
               PROVE  Firm(k, v)'
  BY DEF FirmKept
<1>2. Logged(k)' = Logged(k)
  BY <1>1
<1>3. CASE Logged(k) = v
  BY <1>2, <1>3 DEF Firm
<1>4. CASE Logged(k) = Absent /\ Top(k, v)
  <2>1. Top(k, v)'
    BY <1>4, TopKept
  <2> QED BY <1>2, <1>4, <2>1 DEF Firm
<1> QED BY <1>1, <1>3, <1>4 DEF Firm

\* What is read is the same when nothing it is read from changes.
LEMMA SameSources ==
    ASSUME UNCHANGED <<files, unlinked, sstables, wal, synced>>,
           pc' = "closed" <=> pc = "closed"
    PROVE  FirmKept
<1>1. Known' = Known /\ Stable' = Stable /\ Listed' = Listed
  BY DEF Known, Stable, Listed
<1>2. \A k : Logged(k)' = Logged(k)
  BY <1>1 DEF Logged
<1> QED BY <1>1, <1>2, FilesKept

\* Of an open log, the committed part decides for a key that is not written.
LEMMA LoggedOpen ==
    ASSUME IndInv, pc # "closed", NEW b \in 0..Len(wal), CommittedShape(b),
           NEW k \in Keys, pending[k] = Absent
    PROVE  Logged(k) = Upto(wal, b)[k]
<1>1. wal \in Seq(Record) /\ Len(wal) \in Nat /\ LogForm(b)
  BY DEF IndInv, TypeOK, CommittedShape
<1>2. \E n \in b..Len(wal) : Stable = SubSeq(wal, 1, n)
  <2>1. b \in b..Len(wal) /\ Len(wal) \in b..Len(wal) /\ SubSeq(wal, 1, Len(wal)) = wal
    BY <1>1, WholeSeq
  <2> QED BY <2>1 DEF Stable, CommittedShape
<1>3. PICK n \in b..Len(wal) : Stable = SubSeq(wal, 1, n)
  BY <1>2
<1>4. replay_wal(Stable) \in {Upto(wal, b), Overlay(Upto(wal, b), pending)}
  BY <1>1, <1>3, PrefixReplay
<1>5. Overlay(Upto(wal, b), pending)[k] = Upto(wal, b)[k]
  BY DEF Overlay
<1> QED BY <1>4, <1>5 DEF Logged

\* Nothing happens to the files, and none is being removed.
LEMMA SameDisk ==
    ASSUME RemovedShape, ListShape, pc # "closed",
           UNCHANGED <<files, unlinked, sstables, next_sstable_id>>,
           doomed = {}, doomed' = {}
    PROVE  RemovedShape' /\ ListShape'
<1>1. Known' = Known
  BY DEF Known
<1>2. RemovedShape'
  BY <1>1 DEF RemovedShape, Covered
<1> QED BY <1>2 DEF ListShape

Writing == {"append", "commit", "sync", "apply"}

\* A step between writes that leaves the log and the files alone.
LEMMA NothingWritten ==
    ASSUME DInv, pc \notin Writing \cup {"closed", "clear", "unlink"},
           pc' \notin Writing \cup {"closed", "clear"}, doomed = {}, doomed' = {},
           UNCHANGED <<data, wal, synced, files, unlinked, sstables, next_sstable_id>>
    PROVE  Shapes' /\ FirmKept
<1>1. RemovedShape' /\ ListShape'
  BY SameDisk DEF DInv
<1>2. FirmKept
  BY SameSources
<1>3. PICK b \in 0..Len(wal) : CommittedShape(b)
  BY DEF DInv, CommittedLog
<1>4. CommittedShape(b)'
  BY <1>3 DEF CommittedShape, LogForm, Writing
<1>5. CommittedLog'
  BY <1>4 DEF CommittedLog
<1> QED BY <1>1, <1>2, <1>5 DEF Shapes

\* A call starts to log its batch.
LEMMA LogDirectory ==
    ASSUME DInv, pc \in {"idle", "txn"}, NEW batch \in Table, Log(batch),
           UNCHANGED unlinked
    PROVE  Shapes' /\ FirmKept
<1>0. /\ UNCHANGED <<data, wal, synced, files, sstables, next_sstable_id, doomed>>
      /\ pc' = "append" /\ pending' = batch /\ todo' = KeysOf(batch)
  BY DEF Log, memtable, log, tables, disk
<1>1. doomed = {}
  BY DEF DInv, RemovedShape
<1>2. RemovedShape' /\ ListShape'
  BY <1>0, <1>1, SameDisk DEF DInv
<1>3. FirmKept
  BY <1>0, SameSources
<1>4. PICK b \in 0..Len(wal) : CommittedShape(b)
  BY DEF DInv, CommittedLog
<1>5. b = Len(wal)
  BY <1>4 DEF CommittedShape, LogForm
<1>6. \A k \in Keys : pending'[k] # Absent => k \in todo'
  BY <1>0 DEF KeysOf
<1>7. CommittedShape(b)'
  BY <1>0, <1>4, <1>5, <1>6 DEF CommittedShape, LogForm
<1>8. CommittedLog'
  BY <1>0, <1>4, <1>7 DEF CommittedLog
<1> QED BY <1>2, <1>3, <1>8 DEF Shapes

\* Steps of an open table that change the log and leave its committed part.
LEMMA CommittedKept ==
    ASSUME IndInv, IndInv', pc # "closed", pc' # "closed",
           NEW b \in 0..Len(wal), CommittedShape(b), CommittedShape(b)',
           b \in 0..Len(wal'), Upto(wal', b) = Upto(wal, b), pending' = pending
    PROVE  \A k \in Keys : pending[k] = Absent => Logged(k)' = Logged(k)
<1>1. SUFFICES ASSUME NEW k \in Keys, pending[k] = Absent PROVE Logged(k)' = Logged(k)
  OBVIOUS
<1>2. Logged(k) = Upto(wal, b)[k]
  BY <1>1, LoggedOpen
<1>3. (IndInv /\ pc # "closed" /\ b \in 0..Len(wal) /\ CommittedShape(b)
         /\ pending[k] = Absent => Logged(k) = Upto(wal, b)[k])'
  BY LoggedOpen, PTL
<1>4. Logged(k)' = Upto(wal', b)[k]
  BY <1>1, <1>3 DEF Upto
<1> QED BY <1>2, <1>4

\* A record or the COMMIT is written to the log.
LEMMA RecordWritten ==
    ASSUME DInv, IndInv', append \/ write_commit, UNCHANGED unlinked
    PROVE  Shapes' /\ FirmKept
<1>0. /\ UNCHANGED <<data, synced, files, sstables, next_sstable_id, doomed, pending>>
      /\ pc \in {"append", "commit"} /\ pc' \in {"append", "commit", "sync"}
  BY DEF append, write_commit, Goto, memtable, tables, disk
<1>1. doomed = {}
  BY <1>0 DEF DInv, RemovedShape
<1>2. RemovedShape' /\ ListShape'
  BY <1>0, <1>1, SameDisk DEF DInv
<1>3. PICK b \in 0..Len(wal) : CommittedShape(b)
  BY <1>0 DEF DInv, CommittedLog
<1>4. /\ LogForm(b)' /\ b \in 0..Len(wal')
      /\ Upto(wal', b) = Upto(wal, b) /\ SubSeq(wal', 1, b) = SubSeq(wal, 1, b)
  BY <1>3, AppendForm, WriteCommitForm DEF DInv, CommittedShape
<1>5. CommittedShape(b)'
  BY <1>0, <1>3, <1>4 DEF CommittedShape
<1>6. CommittedLog'
  BY <1>0, <1>4, <1>5 DEF CommittedLog
<1>7. \A k \in Keys : pending[k] = Absent => Logged(k)' = Logged(k)
  BY <1>0, <1>3, <1>4, <1>5, CommittedKept DEF DInv
<1>8. Known' = Known /\ Listed' = Listed
  BY <1>0 DEF Known, Listed
<1>9. FirmKept
  BY <1>0, <1>7, <1>8, FilesKept
<1> QED BY <1>2, <1>6, <1>9 DEF Shapes

\* The batch is in the memtable.
LEMMA BatchApplied ==
    ASSUME DInv, apply, UNCHANGED unlinked
    PROVE  Shapes' /\ FirmKept
<1>0. /\ UNCHANGED <<wal, synced, files, sstables, next_sstable_id>>
      /\ pc = "apply" /\ data' = Overlay(data, pending)
      /\ pc' \in {"idle", "flush"} /\ doomed' \in {doomed, {}}
  BY DEF apply, Goto, Return, log, tables, disk
<1>1. doomed = {}
  BY <1>0 DEF DInv, RemovedShape
<1>2. RemovedShape' /\ ListShape'
  BY <1>0, <1>1, SameDisk DEF DInv
<1>3. FirmKept
  BY <1>0, SameSources
<1>4. PICK b \in 0..Len(wal) : CommittedShape(b)
  BY <1>0 DEF DInv, CommittedLog
<1>5. wal \in Seq(Record) /\ Len(wal) \in Nat
  BY DEF DInv, IndInv, TypeOK
<1>6. PICK n \in Nat : n = Len(wal)
  BY <1>5
<1>7. /\ data' = Upto(wal, n) /\ n # 0 /\ wal[n].op = "commit"
      /\ \A i \in 1..n : wal[i].op # "torn"
  BY <1>0, <1>4, <1>6 DEF CommittedShape, LogForm
<1>8. LogForm(n)'
  BY <1>0, <1>6, <1>7 DEF LogForm
<1>9. "power_loss" \in Faults => synced' = SubSeq(wal', 1, n)
  BY <1>0, <1>4, <1>5, <1>6, WholeSeq DEF CommittedShape
<1>10. CommittedShape(n)'
  BY <1>0, <1>7, <1>8, <1>9 DEF CommittedShape
<1>11. CommittedLog'
  BY <1>0, <1>6, <1>10 DEF CommittedLog
<1> QED BY <1>2, <1>3, <1>11 DEF Shapes

-----------------------------------------------------------------------------
(***************************************************************************)
(* Steps that fsync: what was removed is gone.                             *)
(***************************************************************************)

\* With nothing left to come back, the files are all there is.
LEMMA NothingBack ==
    ASSUME NEW fs, NEW un, NEW T, fs \in [DOMAIN fs -> T], un = << >>
    PROVE  [id \in DOMAIN fs \cup DOMAIN un |->
               IF id \in DOMAIN fs THEN fs[id] ELSE un[id]] = fs
<1>1. DOMAIN un = {}
  BY SMT
<1>2. DOMAIN fs \cup DOMAIN un = DOMAIN fs
  BY <1>1
<1> QED BY <1>2

\* Files that stay, with no removal under way and none to come back.
LEMMA AllDurable ==
    ASSUME unlinked' = << >>, doomed' = {}
    PROVE  RemovedShape'
<1>1. unlinked' \in [{} -> Table] /\ DOMAIN unlinked' = {}
  BY SMT
<1>2. IsFiniteSet({})
  BY FS_EmptySet
<1> QED BY <1>1, <1>2 DEF RemovedShape

LEMMA CommitSynced ==
    ASSUME DInv, IndInv', sync_commit, unlinked' = << >>
    PROVE  Shapes' /\ FirmKept
<1>0. /\ UNCHANGED <<data, wal, files, sstables, next_sstable_id, doomed, pending, todo>>
      /\ pc = "sync" /\ pc' = "apply" /\ synced' = wal
  BY DEF sync_commit, sync_all, Goto, memtable, tables, disk
<1>1. doomed' = {} /\ files' \in [DOMAIN files' -> Table]
  BY <1>0 DEF DInv, RemovedShape, IndInv, TypeOK
<1>2. RemovedShape'
  BY <1>1, AllDurable
<1>3. ListShape'
  BY <1>0 DEF DInv, ListShape
<1>4. PICK b \in 0..Len(wal) : CommittedShape(b)
  BY <1>0 DEF DInv, CommittedLog
<1>5. CommittedShape(b)'
  BY <1>0, <1>4 DEF CommittedShape, LogForm
<1>6. CommittedLog'
  BY <1>0, <1>4, <1>5 DEF CommittedLog
<1>7. \A k \in Keys : pending[k] = Absent => Logged(k)' = Logged(k)
  BY <1>0, <1>4, <1>5, CommittedKept DEF DInv
<1>8. Known' = files'
  BY <1>1, NothingBack DEF Known
<1>9. \A id \in DOMAIN files : id \in DOMAIN Known /\ Known[id] = files[id]
  BY KnownFacts DEF DInv
<1>10. Listed' = Listed
  BY <1>0 DEF Listed
<1>11. FirmKept
  BY <1>0, <1>7, <1>8, <1>9, <1>10, FilesKept
<1> QED BY <1>2, <1>3, <1>6, <1>11 DEF Shapes

\* The new file of a flush or a compaction is the newest of all.
LEMMA FileAdded ==
    ASSUME DInv, pc # "closed", NEW t \in Table
    PROVE  LET fs == With(files, next_sstable_id, t) IN
           /\ DOMAIN fs = DOMAIN files \cup {next_sstable_id}
           /\ next_sstable_id \in Nat /\ next_sstable_id \notin DOMAIN files
           /\ fs[next_sstable_id] = t
           /\ \A id \in DOMAIN files : id < next_sstable_id /\ fs[id] = files[id]
           /\ fs \in [DOMAIN fs -> Table]
<1> DEFINE fs == With(files, next_sstable_id, t)
<1>1. /\ DOMAIN files \subseteq Nat /\ IsFiniteSet(DOMAIN files)
      /\ files \in [DOMAIN files -> Table] /\ next_sstable_id \in Nat
  BY DEF DInv, IndInv, TypeOK
<1>2. \A id \in DOMAIN files : id < next_sstable_id
  BY DEF DInv, ListShape
<1>3. next_sstable_id \notin DOMAIN files
  BY <1>1, <1>2
<1>4. /\ DOMAIN fs = DOMAIN files \cup {next_sstable_id}
      /\ fs[next_sstable_id] = t
      /\ \A id \in DOMAIN files : fs[id] = files[id]
  BY <1>3 DEF With
<1>5. fs \in [DOMAIN fs -> Table]
  BY <1>1, WithType
<1> HIDE DEF fs
<1>6. /\ DOMAIN fs = DOMAIN files \cup {next_sstable_id}
      /\ next_sstable_id \in Nat /\ next_sstable_id \notin DOMAIN files
      /\ fs[next_sstable_id] = t
      /\ \A id \in DOMAIN files : id < next_sstable_id /\ fs[id] = files[id]
      /\ fs \in [DOMAIN fs -> Table]
  BY <1>1, <1>2, <1>3, <1>4, <1>5
<1> QED BY <1>6 DEF fs

\* The memtable is an SSTable: it has no entry for a key that the log has none for.
LEMMA FlushSynced ==
    ASSUME DInv, flush_sync, unlinked' = << >>
    PROVE  Shapes' /\ FirmKept
<1> DEFINE n == next_sstable_id
           S == SeqRange(sstables)
<1>0. /\ UNCHANGED <<wal, synced, pending, doomed>>
      /\ pc = "flush_sync" /\ pc' = "clear"
      /\ files' = With(files, n, data) /\ data' = EmptyTable
      /\ sstables' = <<n>> \o sstables /\ next_sstable_id' = n + 1
  BY DEF flush_sync, FinishFile, Goto, log
<1>1. data \in Table /\ sstables \in Seq(Nat)
  BY DEF DInv, IndInv, TypeOK
<1>2. /\ DOMAIN files' = DOMAIN files \cup {n} /\ n \in Nat /\ n \notin DOMAIN files
      /\ files'[n] = data
      /\ \A id \in DOMAIN files : id < n /\ files'[id] = files[id]
      /\ files' \in [DOMAIN files' -> Table]
  <2>1. pc # "closed" /\ files' = With(files, n, data)
    BY <1>0
  <2> QED BY <1>1, <2>1, FileAdded
<1>3. DOMAIN files \subseteq Nat /\ S \subseteq DOMAIN files
  BY <1>0, OpenFacts DEF DInv, IndInv, TypeOK
<1>4. SeqRange(sstables') = S \cup {n}
  <2>1. \A i \in 1..Len(sstables') : sstables'[i] = IF i = 1 THEN n ELSE sstables[i - 1]
    BY <1>0, <1>1, <1>2
  <2>2. Len(sstables') = Len(sstables) + 1 /\ Len(sstables) \in Nat
    BY <1>0, <1>1, <1>2
  <2>3. sstables'[1] = n /\ \A i \in 1..Len(sstables) : sstables'[i + 1] = sstables[i]
    BY <2>1, <2>2
  <2>4. ASSUME NEW x \in SeqRange(sstables') PROVE x \in S \cup {n}
    <3>1. PICK i \in 1..Len(sstables') : x = sstables'[i]
      BY DEF SeqRange
    <3>2. i = 1 \/ i - 1 \in 1..Len(sstables)
      BY <2>2
    <3> QED BY <2>1, <3>1, <3>2 DEF SeqRange
  <2>5. ASSUME NEW x \in S PROVE x \in SeqRange(sstables')
    <3>1. PICK i \in 1..Len(sstables) : x = sstables[i]
      BY DEF SeqRange
    <3>2. i + 1 \in 1..Len(sstables')
      BY <2>2
    <3> QED BY <2>3, <3>1, <3>2 DEF SeqRange
  <2>6. n \in SeqRange(sstables')
    BY <2>2, <2>3 DEF SeqRange
  <2> QED BY <2>4, <2>5, <2>6
<1>5. doomed' = {}
  BY <1>0 DEF DInv, RemovedShape
<1>6. RemovedShape'
  BY <1>5, AllDurable
<1>7. ListShape'
  <2>1. \A id \in DOMAIN files' : id < next_sstable_id'
    BY <1>0, <1>2, <1>3
  <2>2. \A id \in DOMAIN files \ S, t \in S : id < t
    BY <1>0 DEF DInv, ListShape
  <2>3. \A id \in DOMAIN files' \ SeqRange(sstables') : id \in DOMAIN files \ S
    BY <1>2, <1>4
  <2> HIDE DEF n, S
  <2>4. \A id \in DOMAIN files' \ SeqRange(sstables'), t \in SeqRange(sstables') : id < t
    BY <1>2, <1>4, <2>2, <2>3
  <2> QED BY <2>1, <2>4 DEF ListShape
<1>8. PICK b \in 0..Len(wal) : CommittedShape(b)
  BY <1>0 DEF DInv, CommittedLog
<1>9. data = Upto(wal, b)
  BY <1>0, <1>8 DEF CommittedShape
<1>10. CommittedShape(b)'
  <2>1. \A id \in DOMAIN files' : id <= n
    BY <1>2, <1>3
  <2>2. n \in SeqRange(sstables') /\ files'[n] = Upto(wal', b)
    BY <1>0, <1>2, <1>4, <1>9
  <2>3. LogForm(b)'
    BY <1>0, <1>8 DEF CommittedShape, LogForm
  <2>4. "power_loss" \in Faults => synced' = SubSeq(wal', 1, b)
    BY <1>0, <1>8 DEF CommittedShape
  <2> HIDE DEF n
  <2> QED BY <1>0, <2>1, <2>2, <2>3, <2>4 DEF CommittedShape
<1>11. CommittedLog'
  BY <1>0, <1>8, <1>10 DEF CommittedLog
<1>12. Known' = files'
  BY <1>2, NothingBack DEF Known
<1>13. FirmKept
  <2>1. SUFFICES ASSUME NEW k \in Keys, NEW v \in Values, pending[k] = Absent, Firm(k, v)
                 PROVE  Firm(k, v)'
    BY DEF FirmKept
  <2>2. Logged(k)' = Logged(k)
    BY <1>0 DEF Logged, Stable
  <2>3. CASE Logged(k) = v
    BY <2>2, <2>3 DEF Firm
  <2>4. CASE Logged(k) = Absent /\ Top(k, v)
    <3>1. data[k] = Absent
      BY <1>0, <1>8, <1>9, <2>1, <2>4, LoggedOpen DEF DInv
    <3>2. PICK s \in S : /\ files[s][k] = v
                         /\ \A id \in DOMAIN Known : Known[id][k] # Absent => id <= s
      BY <1>0, <2>4 DEF Top, Listed
    <3>3. \A id \in DOMAIN files : id \in DOMAIN Known /\ Known[id] = files[id]
      BY KnownFacts DEF DInv
    <3>4. \A id \in DOMAIN files' : files'[id][k] # Absent => id <= s
      BY <1>2, <3>1, <3>2, <3>3
    <3>5. s \in Listed' /\ files'[s][k] = v
      BY <1>0, <1>2, <1>3, <1>4, <3>2 DEF Listed
    <3>6. Top(k, v)'
      BY <1>12, <3>4, <3>5 DEF Top
    <3> QED BY <2>2, <2>4, <3>6 DEF Firm
  <2> QED BY <2>1, <2>3, <2>4 DEF Firm
<1> QED BY <1>6, <1>7, <1>11, <1>13 DEF Shapes

\* The log is empty: what it held is in the newest file.
LEMMA LogCleared ==
    ASSUME DInv, IndInv', clear, unlinked' = << >>
    PROVE  Shapes' /\ FirmKept
<1>0. /\ UNCHANGED <<data, files, sstables, next_sstable_id>>
      /\ pc = "clear" /\ pc' \in {"idle", "compact"}
      /\ wal' = << >> /\ synced' = << >> /\ doomed' \in {doomed, {}}
  BY DEF clear, Goto, Return, memtable, tables, disk
<1>1. doomed' = {} /\ files' \in [DOMAIN files' -> Table]
  BY <1>0 DEF DInv, RemovedShape, IndInv, TypeOK
<1>2. RemovedShape'
  BY <1>1, AllDurable
<1>3. ListShape'
  BY <1>0 DEF DInv, ListShape
<1>4. PICK b \in 0..Len(wal) : CommittedShape(b)
  BY <1>0 DEF DInv, CommittedLog
<1>5. PICK t \in SeqRange(sstables) :
        files[t] = Upto(wal, b) /\ \A id \in DOMAIN files : id <= t
  BY <1>0, <1>4 DEF CommittedShape
<1>6. data' = EmptyTable /\ unlinked = << >>
  BY <1>0, <1>4 DEF CommittedShape
<1>7. CommittedShape(0)'
  <2>1. Len(wal') = 0 /\ SubSeq(wal', 1, 0) = << >>
    BY <1>0
  <2>2. Upto(wal', 0) = EmptyTable
    BY UptoNone
  <2>3. LogForm(0)'
    BY <1>0, <2>1 DEF LogForm
  <2> QED BY <1>0, <1>6, <2>1, <2>2, <2>3 DEF CommittedShape
<1>8. CommittedLog'
  BY <1>0, <1>7 DEF CommittedLog
<1>9. Known' = files' /\ Known = files
  BY <1>0, <1>1, <1>6, NothingBack DEF Known
<1>10. Listed' = Listed /\ Listed = SeqRange(sstables)
  BY <1>0 DEF Listed
<1>11. FirmKept
  <2>1. SUFFICES ASSUME NEW k \in Keys, NEW v \in Values, pending[k] = Absent, Firm(k, v)
                 PROVE  Firm(k, v)'
    BY DEF FirmKept
  <2>2. Logged(k)' = Absent
    BY <1>0, EmptyLog DEF Logged, Stable, EmptyTable
  <2>3. Logged(k) = files[t][k]
    BY <1>0, <1>4, <1>5, <2>1, LoggedOpen DEF DInv
  <2>4. Top(k, v)'
    <3>1. CASE Logged(k) = v
      BY <1>0, <1>5, <1>9, <1>10, <2>3, <3>1 DEF Top
    <3>2. CASE Logged(k) = Absent /\ Top(k, v)
      BY <1>0, <1>9, <1>10, <3>2, TopKept
    <3> QED BY <2>1, <3>1, <3>2 DEF Firm
  <2> QED BY <2>2, <2>4 DEF Firm
<1> QED BY <1>2, <1>3, <1>8, <1>11 DEF Shapes

-----------------------------------------------------------------------------
(***************************************************************************)
(* Compaction.                                                             *)
(***************************************************************************)

\* A new file is opened at an id that no file has.
LEMMA FileStarted ==
    ASSUME DInv, pc # "closed", StartFile(next_sstable_id)
    PROVE  files' = files
<1>1. /\ DOMAIN files \subseteq Nat /\ next_sstable_id \in Nat
      /\ files \in [DOMAIN files -> Table]
      /\ \A id \in DOMAIN files : id < next_sstable_id
  BY DEF DInv, IndInv, TypeOK, ListShape
<1>2. DOMAIN files \ {next_sstable_id} = DOMAIN files
  BY <1>1
<1>3. files' = [id \in DOMAIN files |-> files[id]]
  BY <1>2 DEF StartFile, Without
<1> QED BY <1>1, <1>3

\* The merged table has the value of every key whose newest file gives one.
LEMMA TopIsMerged ==
    ASSUME DInv, pc # "closed", NEW k \in Keys, NEW v \in Values, Top(k, v)
    PROVE  merged[k] = v
<1> DEFINE S == SeqRange(sstables)
<1>1. /\ S \in SUBSET Nat /\ IsFiniteSet(S) /\ S \subseteq DOMAIN files
      /\ Merge(files, sstables) = Newest(files, S)
  BY OpenFacts DEF DInv, OpenTables
<1>2. PICK s \in S : /\ files[s][k] = v
                     /\ \A id \in DOMAIN Known : Known[id][k] # Absent => id <= s
  BY DEF Top, Listed
<1>3. \A id \in DOMAIN files : id \in DOMAIN Known /\ Known[id] = files[id]
  BY KnownFacts DEF DInv
<1>4. v # Absent /\ v # Tombstone
  BY MarkersAssumption
<1> HIDE DEF S
<1>5. IsNewest(files, S, k, v)
  BY <1>1, <1>2, <1>3, <1>4 DEF IsNewest
<1>6. Newest(files, S)[k] = v
  BY <1>1, <1>5, NewestIs
<1> QED BY <1>1, <1>4, <1>6 DEF merged, Live

\* A value of an open file that is not merged has been overruled.
LEMMA OverruledOrMerged ==
    ASSUME DInv, pc # "closed", NEW m \in SeqRange(sstables), NEW k \in Keys,
           files[m][k] \in Values
    PROVE  \/ merged[k] # Absent
           \/ \E id \in SeqRange(sstables) : id > m /\ files[id][k] # Absent
<1> DEFINE S == SeqRange(sstables)
<1>1. /\ S \in SUBSET Nat /\ IsFiniteSet(S)
      /\ Merge(files, sstables) = Newest(files, S)
  BY OpenFacts DEF DInv, OpenTables
<1>2. files[m][k] # Absent /\ files[m][k] # Tombstone
  BY MarkersAssumption
<1> HIDE DEF S
<1>3. IsNewest(files, S, k, Newest(files, S)[k])
  BY <1>1, NewestIs
<1>4. PICK j \in S : /\ Newest(files, S)[k] = files[j][k] /\ files[j][k] # Absent
                     /\ \A id \in S : files[id][k] # Absent => id <= j
  BY <1>2, <1>3 DEF IsNewest, S
<1>5. CASE j = m
  <2>1. merged[k] = files[m][k]
    BY <1>1, <1>2, <1>4, <1>5 DEF merged, Live
  <2> QED BY <1>2, <2>1
<1>6. CASE j # m
  <2>1. m \in S /\ m <= j
    BY <1>2, <1>4 DEF S
  <2>2. m \in Nat /\ j \in Nat
    BY <1>1, <2>1
  <2>3. j > m
    BY <1>6, <2>1, <2>2
  <2> QED BY <1>4, <2>3 DEF S
<1> QED BY <1>5, <1>6

\* Nothing is left to merge: no key had a value, and all open files go.
LEMMA CompactedAway ==
    ASSUME DInv, pc = "compact", merged = EmptyTable, sstables' = << >>,
           doomed' = old_paths, pc' = "unlink",
           UNCHANGED <<data, wal, synced, files, next_sstable_id, unlinked>>
    PROVE  Shapes' /\ FirmKept
<1> DEFINE S == SeqRange(sstables)
<1>1. Known' = Known /\ doomed' = S
  BY DEF Known, old_paths
<1>2. S \subseteq DOMAIN files
  BY OpenFacts DEF DInv
<1>3. \A id \in DOMAIN files : id \in DOMAIN Known /\ Known[id] = files[id]
  BY KnownFacts DEF DInv
<1>4. \A m \in S : Covered(m)
  <2>1. SUFFICES ASSUME NEW m \in S, NEW k \in Keys, Known[m][k] \in Values
                 PROVE  \E id \in DOMAIN Known : id > m /\ Known[id][k] # Absent
    BY DEF Covered
  <2>2. files[m][k] \in Values
    BY <1>2, <1>3, <2>1
  <2>3. merged[k] = Absent
    BY DEF EmptyTable
  <2>4. PICK id \in S : id > m /\ files[id][k] # Absent
    BY <2>2, <2>3, OverruledOrMerged
  <2> QED BY <1>2, <1>3, <2>4
<1>5. RemovedShape'
  <2>1. RemovedShape
    BY DEF DInv
  <2> HIDE DEF S
  <2>2. \A m \in DOMAIN unlinked' \cup doomed' : Covered(m)'
    BY <1>1, <1>4, <2>1 DEF RemovedShape, Covered
  <2> QED BY <1>1, <1>2, <2>1, <2>2 DEF RemovedShape
<1>6. SeqRange(sstables') = {}
  BY DEF SeqRange
<1>7. ListShape'
  BY <1>6 DEF DInv, ListShape
<1>8. PICK b \in 0..Len(wal) : CommittedShape(b)
  BY DEF DInv, CommittedLog
<1>9. CommittedShape(b)'
  BY <1>8 DEF CommittedShape, LogForm
<1>10. CommittedLog'
  BY <1>9 DEF CommittedLog
<1>11. FirmKept
  <2>1. SUFFICES ASSUME NEW k \in Keys, NEW v \in Values, Firm(k, v)
                 PROVE  Firm(k, v)'
    BY DEF FirmKept
  <2>2. Logged(k)' = Logged(k)
    BY DEF Logged, Stable
  <2>3. ~Top(k, v)
    <3>1. merged[k] = Absent /\ v # Absent
      BY MarkersAssumption DEF EmptyTable
    <3> QED BY <3>1, TopIsMerged
  <2> QED BY <2>1, <2>2, <2>3 DEF Firm
<1> QED BY <1>5, <1>7, <1>10, <1>11 DEF Shapes

\* The merged table takes the place of all open files, which are to go.
LEMMA MergeSynced ==
    ASSUME DInv, merge_sync, unlinked' = << >>
    PROVE  Shapes' /\ FirmKept
<1> DEFINE n == next_sstable_id
           S == SeqRange(sstables)
<1>0. /\ UNCHANGED <<data, wal, synced, pending>>
      /\ pc = "merge_sync" /\ pc' = "unlink" /\ doomed' = S
      /\ files' = With(files, n, merged)
      /\ sstables' = <<n>> /\ next_sstable_id' = n + 1
  BY DEF merge_sync, FinishFile, log, memtable, old_paths
<1>1. merged \in Table
  BY <1>0, MergedType DEF DInv
<1>2. /\ DOMAIN files' = DOMAIN files \cup {n} /\ n \in Nat /\ n \notin DOMAIN files
      /\ files'[n] = merged
      /\ \A id \in DOMAIN files : id < n /\ files'[id] = files[id]
      /\ files' \in [DOMAIN files' -> Table]
  <2>1. pc # "closed" /\ files' = With(files, n, merged)
    BY <1>0
  <2> QED BY <1>1, <2>1, FileAdded
<1>3. DOMAIN files \subseteq Nat /\ S \subseteq DOMAIN files
  BY <1>0, OpenFacts DEF DInv, IndInv, TypeOK
<1>4. SeqRange(sstables') = {n}
  BY <1>0 DEF SeqRange
<1>5. Known' = files'
  BY <1>2, NothingBack DEF Known
<1>6. \A m \in S : Covered(m)'
  <2>1. SUFFICES ASSUME NEW m \in S, NEW k \in Keys, files'[m][k] \in Values
                 PROVE  \E id \in DOMAIN files' : id > m /\ files'[id][k] # Absent
    BY <1>5 DEF Covered
  <2>2. files[m][k] \in Values
    BY <1>2, <1>3, <2>1
  <2>3. CASE merged[k] # Absent
    <3>1. n \in DOMAIN files' /\ n > m
      BY <1>2, <1>3
    <3> QED BY <1>2, <2>3, <3>1
  <2>4. CASE \E id \in S : id > m /\ files[id][k] # Absent
    BY <1>2, <1>3, <2>4
  <2> QED BY <1>0, <2>2, <2>3, <2>4, OverruledOrMerged
<1>7. RemovedShape'
  <2>1. unlinked' \in [{} -> Table] /\ DOMAIN unlinked' = {} /\ IsFiniteSet({})
    BY FS_EmptySet, SMT
  <2> HIDE DEF S
  <2> QED BY <1>0, <1>2, <1>3, <1>6, <2>1 DEF RemovedShape
<1>8. ListShape'
  <2>1. \A id \in DOMAIN files' : id < next_sstable_id'
    BY <1>0, <1>2, <1>3
  <2>2. \A id \in DOMAIN files' \ SeqRange(sstables'), t \in SeqRange(sstables') : id < t
    BY <1>2, <1>4
  <2> QED BY <2>1, <2>2 DEF ListShape
<1>9. PICK b \in 0..Len(wal) : CommittedShape(b)
  BY <1>0 DEF DInv, CommittedLog
<1>10. CommittedShape(b)'
  BY <1>0, <1>9 DEF CommittedShape, LogForm
<1>11. CommittedLog'
  BY <1>0, <1>9, <1>10 DEF CommittedLog
<1>12. FirmKept
  <2>1. SUFFICES ASSUME NEW k \in Keys, NEW v \in Values, Firm(k, v)
                 PROVE  Firm(k, v)'
    BY DEF FirmKept
  <2>2. Logged(k)' = Logged(k)
    BY <1>0 DEF Logged, Stable
  <2>3. CASE Logged(k) = v
    BY <2>2, <2>3 DEF Firm
  <2>4. CASE Logged(k) = Absent /\ Top(k, v)
    <3>1. merged[k] = v
      BY <1>0, <2>4, TopIsMerged
    <3>2. \A id \in DOMAIN files' : id <= n
      BY <1>2, <1>3
    <3>3. n \in Listed'
      BY <1>0, <1>4 DEF Listed
    <3>4. Top(k, v)'
      BY <1>2, <1>5, <3>1, <3>2, <3>3 DEF Top
    <3> QED BY <2>2, <2>4, <3>4 DEF Firm
  <2> QED BY <2>1, <2>3, <2>4 DEF Firm
<1> QED BY <1>7, <1>8, <1>11, <1>12 DEF Shapes

\* A file that compact removes, or fails to, was overruled by newer ones.
LEMMA FileRemoved ==
    ASSUME DInv, unlink
    PROVE  Shapes' /\ FirmKept
<1> DEFINE m == Max(doomed)
           S == SeqRange(sstables)
<1>0. /\ UNCHANGED <<data, wal, synced, sstables, next_sstable_id>>
      /\ pc \in {"unlink", "unlinking"} /\ pc' = "unlinking" /\ doomed # {}
      /\ doomed' = doomed \ {m}
      /\ \/ files' = Without(files, {m})
         \/ files' = files
      /\ unlinked' = IF files' = files THEN unlinked ELSE With(unlinked, m, files[m])
  BY DEF unlink, remove_file, log, memtable, tables
<1>1. /\ doomed \subseteq DOMAIN files /\ DOMAIN files \subseteq Nat
      /\ IsFiniteSet(DOMAIN files) /\ files \in [DOMAIN files -> Table]
  BY DEF DInv, IndInv, TypeOK, RemovedShape
<1>2. m \in doomed
  <2>1. doomed \in SUBSET Nat /\ IsFiniteSet(doomed)
    BY <1>1, FS_Subset
  <2> QED BY <1>0, <2>1, MaxOfFinite
<1>3. m \notin S /\ m \in DOMAIN files /\ m \in Nat
  BY <1>1, <1>2 DEF DInv, IndInv, ObsoleteOnly
<1>4. /\ RemovedShape /\ ListShape /\ S \subseteq DOMAIN files
  BY <1>0, OpenFacts DEF DInv
<1> HIDE DEF m, S
<1>5. /\ Known' = Known
      /\ DOMAIN unlinked' \cap DOMAIN files' = {}
      /\ DOMAIN unlinked' \subseteq Nat /\ IsFiniteSet(DOMAIN unlinked')
      /\ unlinked' \in [DOMAIN unlinked' -> Table]
      /\ DOMAIN unlinked' \subseteq DOMAIN unlinked \cup {m}
      /\ DOMAIN files \ {m} \subseteq DOMAIN files' /\ DOMAIN files' \subseteq DOMAIN files
      /\ \A id \in DOMAIN files' : files'[id] = files[id]
  <2>1. CASE files' = files
    BY <1>0, <1>4, <2>1 DEF Known, RemovedShape
  <2>2. CASE files' # files
    <3>1. files' = Without(files, {m}) /\ unlinked' = With(unlinked, m, files[m])
      BY <1>0, <2>2
    <3>2. /\ DOMAIN files' = DOMAIN files \ {m}
          /\ \A id \in DOMAIN files' : files'[id] = files[id]
      BY <3>1 DEF Without
    <3>3. /\ DOMAIN unlinked \subseteq Nat /\ IsFiniteSet(DOMAIN unlinked)
          /\ unlinked \in [DOMAIN unlinked -> Table] /\ files[m] \in Table
          /\ DOMAIN unlinked \cap DOMAIN files = {}
      BY <1>1, <1>3, <1>4 DEF RemovedShape
    <3>4. /\ DOMAIN unlinked' = DOMAIN unlinked \cup {m}
          /\ DOMAIN unlinked' \subseteq Nat /\ IsFiniteSet(DOMAIN unlinked')
          /\ unlinked' \in [DOMAIN unlinked' -> Table]
      BY <1>3, <3>1, <3>3, WithType
    <3>5. \A id \in DOMAIN unlinked' :
              unlinked'[id] = IF id = m THEN files[m] ELSE unlinked[id]
      BY <3>1 DEF With
    <3>6. DOMAIN files' \cup DOMAIN unlinked' = DOMAIN files \cup DOMAIN unlinked
      BY <1>3, <3>2, <3>4
    <3>7. \A id \in DOMAIN files \cup DOMAIN unlinked :
            (IF id \in DOMAIN files' THEN files'[id] ELSE unlinked'[id])
              = IF id \in DOMAIN files THEN files[id] ELSE unlinked[id]
      BY <1>3, <3>2, <3>3, <3>4, <3>5
    <3>8. Known' = Known
      BY <3>6, <3>7 DEF Known
    <3> QED BY <3>2, <3>3, <3>4, <3>8
  <2> QED BY <2>1, <2>2
<1>6. RemovedShape'
  <2>1. \A i \in DOMAIN unlinked' \cup doomed' : i \in DOMAIN unlinked \cup doomed
    BY <1>0, <1>2, <1>5
  <2>2. \A i \in DOMAIN unlinked \cup doomed : Covered(i)
    BY <1>4 DEF RemovedShape
  <2>3. \A i \in DOMAIN unlinked' \cup doomed' : Covered(i)'
    BY <1>5, <2>1, <2>2 DEF Covered
  <2>4. doomed' \subseteq DOMAIN files'
    BY <1>0, <1>1, <1>5
  <2> QED BY <1>0, <1>5, <2>3, <2>4 DEF RemovedShape
<1>7. ListShape'
  BY <1>0, <1>4, <1>5 DEF ListShape
<1>8. PICK b \in 0..Len(wal) : CommittedShape(b)
  BY <1>0 DEF DInv, CommittedLog
<1>9. CommittedShape(b)'
  BY <1>0, <1>8 DEF CommittedShape, LogForm
<1>10. CommittedLog'
  BY <1>0, <1>8, <1>9 DEF CommittedLog
<1>11. FirmKept
  <2>1. Listed' = S /\ Listed = S
    BY <1>0 DEF Listed, S
  <2>2. \A s \in S : files'[s] = files[s]
    BY <1>3, <1>4, <1>5
  <2>3. \A k : Logged(k)' = Logged(k)
    BY <1>0 DEF Logged, Stable
  <2> QED BY <1>5, <2>1, <2>2, <2>3, FilesKept
<1> QED BY <1>6, <1>7, <1>10, <1>11 DEF Shapes

-----------------------------------------------------------------------------
(***************************************************************************)
(* The ends of a session and the next one.                                 *)
(***************************************************************************)

\* Recovery leaves a log from which it would bring back the same.
LEMMA Reopened ==
    ASSUME DInv, reopen
    PROVE  Shapes' /\ FirmKept
<1>0. /\ UNCHANGED <<files, pending>> /\ pc = "closed" /\ pc' = "idle" /\ doomed' = {}
      /\ sstables' = NewestFirst(DOMAIN files)
      /\ next_sstable_id' = first_free_id(DOMAIN files)
      /\ wal' = read_for_recovery(wal)
      /\ synced' = IF Len(wal') < Len(wal) THEN wal' ELSE synced
      /\ unlinked' \in {unlinked, << >>}
  BY DEF reopen, open_with_dir, disk
<1>1. /\ wal \in Seq(Record) /\ Len(wal) \in Nat /\ IndInv /\ RemovedShape
      /\ DOMAIN files \in SUBSET Nat /\ IsFiniteSet(DOMAIN files)
      /\ files \in [DOMAIN files -> Table]
  BY DEF DInv, IndInv, TypeOK
<1>2. /\ wal' \in Seq(Record) /\ Len(wal') = parse_buffer(wal)
      /\ parse_buffer(wal) \in 0..Len(wal)
      /\ \A i \in 1..parse_buffer(wal) : wal'[i] = wal[i]
  BY <1>0, <1>1, RecoveryIsPrefix, ParseBound
<1>3. PICK b \in 0..Len(wal) : b = parse_buffer(wal)
  BY <1>2
<1>4. b = Len(wal') /\ LogForm(b)' /\ data' = Upto(wal', b)
  BY <1>1, <1>3, ReopenForm DEF reopen
<1>5. "power_loss" \in Faults => synced' = wal'
  <2>1. "power_loss" \in Faults => synced = wal
    BY <1>0 DEF DInv, CommittedLog
  <2>2. ASSUME ~(Len(wal') < Len(wal)) PROVE wal' = wal
    <3>1. Len(wal') = Len(wal)
      BY <1>1, <1>2, <2>2
    <3> QED BY <1>1, <1>2, <3>1
  <2> QED BY <1>0, <2>1, <2>2
<1>6. CommittedLog'
  <2>1. SubSeq(wal', 1, b) = wal'
    BY <1>2, <1>4, WholeSeq
  <2>2. CommittedShape(b)'
    BY <1>0, <1>4, <1>5, <2>1 DEF CommittedShape
  <2>3. b \in 0..Len(wal')
    BY <1>3, <1>4
  <2> QED BY <1>0, <2>2, <2>3 DEF CommittedLog
<1>7. SeqRange(sstables') = DOMAIN files
  BY <1>0, <1>1, AllFacts
<1>8. ListShape'
  BY <1>0, <1>1, <1>7, FirstFreeId DEF ListShape
<1>9. RemovedShape' /\ \A id \in DOMAIN Known' : id \in DOMAIN Known /\ Known'[id] = Known[id]
  <2>1. CASE unlinked' = unlinked
    <3>1. Known' = Known
      BY <1>0, <2>1 DEF Known
    <3>2. RemovedShape'
      BY <1>0, <1>1, <2>1, <3>1 DEF RemovedShape, Covered
    <3> QED BY <3>1, <3>2
  <2>2. CASE unlinked' = << >>
    <3>1. RemovedShape'
      BY <1>0, <2>2, AllDurable
    <3>2. Known' = files
      BY <1>0, <1>1, <2>2, NothingBack DEF Known
    <3>3. \A id \in DOMAIN files : id \in DOMAIN Known /\ Known[id] = files[id]
      BY <1>1, KnownFacts
    <3> QED BY <3>1, <3>2, <3>3
  <2> QED BY <1>0, <2>1, <2>2
<1>10. \A k : Logged(k)' = Logged(k)
  <2>1. replay_wal(wal') = replay_wal(wal)
    BY <1>0, <1>1, RecoveryIdempotent
  <2>2. "power_loss" \in Faults => synced = wal
    BY <1>0 DEF DInv, CommittedLog
  <2> QED BY <1>5, <2>1, <2>2 DEF Logged, Stable
<1>11. Listed' = DOMAIN files /\ Listed = DOMAIN files
  BY <1>0, <1>7 DEF Listed
<1>12. FirmKept
  BY <1>0, <1>9, <1>10, <1>11, FilesKept
<1> QED BY <1>6, <1>8, <1>9, <1>12 DEF Shapes

\* The Store is dropped between two calls.
LEMMA Closed ==
    ASSUME DInv, close, UNCHANGED unlinked
    PROVE  Shapes' /\ FirmKept
<1>0. /\ UNCHANGED <<wal, synced, files>> /\ pc = "idle" /\ pc' = "closed" /\ doomed' = {}
  BY DEF close, Down, log, disk
<1>1. IndInv /\ RemovedShape /\ wal \in Seq(Record)
  BY DEF DInv, IndInv, TypeOK
<1>2. Known' = Known
  BY <1>0 DEF Known
<1>3. RemovedShape'
  BY <1>0, <1>1, <1>2 DEF RemovedShape, Covered
<1>4. PICK b \in 0..Len(wal) : CommittedShape(b)
  BY <1>0 DEF DInv, CommittedLog
<1>5. b = Len(wal)
  BY <1>0, <1>4 DEF CommittedShape, LogForm
<1>6. CommittedLog'
  BY <1>0, <1>1, <1>4, <1>5, WholeSeq DEF CommittedShape, CommittedLog
<1>7. ListShape'
  BY <1>0 DEF ListShape
<1>8. Listed' = DOMAIN files /\ Listed \subseteq DOMAIN files
  BY <1>0, <1>1, KnownFacts DEF Listed
<1>9. \A k : Logged(k)' = Logged(k)
  BY <1>0 DEF Logged, Stable
<1>10. FirmKept
  BY <1>0, <1>2, <1>8, <1>9, FilesKept
<1> QED BY <1>3, <1>6, <1>7, <1>10 DEF Shapes

\* A power loss leaves a part of the log that has all that is committed.
LEMMA SurvivorsHave ==
    ASSUME IndInv, NEW b \in 0..Len(wal), CommittedShape(b),
           "power_loss" \in Faults, NEW s \in Survivors
    PROVE  \E n \in b..Len(wal) : s = SubSeq(wal, 1, n)
<1>1. wal \in Seq(Record) /\ Len(wal) \in Nat /\ synced \in Seq(Record)
  BY DEF IndInv, TypeOK
<1> DEFINE lo == IF IsPrefixOf(synced, wal) THEN Len(synced) ELSE 0
<1>2. s = synced \/ \E n \in lo..Len(wal) : s = SubSeq(wal, 1, n)
  BY DEF Survivors
<1>3. PICK c \in b..Len(wal) : synced = SubSeq(wal, 1, c)
  <2>1. b \in b..Len(wal) /\ Len(wal) \in b..Len(wal) /\ SubSeq(wal, 1, Len(wal)) = wal
    BY <1>1, WholeSeq
  <2> QED BY <2>1 DEF CommittedShape
<1>4. Len(synced) = c
  BY <1>1, <1>3
<1>5. lo = c
  BY <1>1, <1>3, <1>4 DEF IsPrefixOf
<1> HIDE DEF lo
<1>6. \A n \in lo..Len(wal) : n \in b..Len(wal)
  BY <1>1, <1>3, <1>5
<1> QED BY <1>2, <1>3, <1>6

\* The machine dies.
LEMMA PowerFailed ==
    ASSUME DInv, power_failure
    PROVE  IndInv' /\ Shapes' /\ FirmKept
<1> DEFINE n == next_sstable_id
<1>0. /\ "power_loss" \in Faults /\ Interruptible /\ Down /\ pc # "closed"
      /\ synced' = wal' /\ pc' = "closed" /\ doomed' = {} /\ unlinked' = << >>
  BY DEF power_failure, PowerCut, Down, Interruptible
<1>1. PICK s \in Survivors : wal' = s \/ wal' = Append(s, torn_record)
  BY DEF power_failure, PowerCut
<1>2. PICK left \in LeftFiles, back \in SUBSET DOMAIN unlinked :
        /\ back \cap DOMAIN left[1] = {}
        /\ files' = [id \in DOMAIN left[1] \cup back |->
                       IF id \in back THEN unlinked[id] ELSE left[1][id]]
        /\ torn' = left[2]
  <2>1. PICK left \in LeftFiles :
          \E back \in SUBSET (DOMAIN unlinked \ (DOMAIN left[1] \cup left[2])) :
            /\ files' = [id \in DOMAIN left[1] \cup back |->
                           IF id \in back THEN unlinked[id] ELSE left[1][id]]
            /\ torn' = left[2]
    BY DEF power_failure
  <2>2. PICK back \in SUBSET (DOMAIN unlinked \ (DOMAIN left[1] \cup left[2])) :
          /\ files' = [id \in DOMAIN left[1] \cup back |->
                         IF id \in back THEN unlinked[id] ELSE left[1][id]]
          /\ torn' = left[2]
    BY <2>1
  <2>3. back \in SUBSET DOMAIN unlinked /\ back \cap DOMAIN left[1] = {}
    OBVIOUS
  <2> QED BY <2>2, <2>3
<1>3. /\ IndInv /\ RemovedShape /\ n \in Nat /\ data \in Table /\ merged \in Table
      /\ files \in [DOMAIN files -> Table] /\ DOMAIN files \subseteq Nat
      /\ IsFiniteSet(DOMAIN files) /\ torn \subseteq Nat
      /\ wal \in Seq(Record)
  BY <1>0, MergedType DEF DInv, IndInv, TypeOK
<1>4. left[2] \in {torn, torn \ {n}}
  BY DEF LeftFiles, disk
<1>5. /\ DOMAIN files \subseteq DOMAIN left[1] /\ DOMAIN left[1] \subseteq DOMAIN files \cup {n}
      /\ \A id \in DOMAIN files : left[1][id] = files[id] /\ id < n
      /\ left[1] \in [DOMAIN left[1] -> Table]
      /\ n \in DOMAIN left[1] => \/ pc = "flush_sync" /\ left[1][n] = data
                                 \/ pc = "merge_sync" /\ left[1][n] = merged
  <2>1. \A id \in DOMAIN files : id < n
    BY <1>0 DEF DInv, ListShape
  <2>2. n \notin DOMAIN files
    BY <1>3, <2>1
  <2>3. CASE left[1] = files
    BY <1>3, <2>1, <2>2, <2>3
  <2>4. CASE pc = "flush_sync" /\ left[1] = With(files, n, data)
    BY <1>0, <1>3, <2>1, <2>4, FileAdded
  <2>5. CASE pc = "merge_sync" /\ left[1] = With(files, n, merged)
    BY <1>0, <1>3, <2>1, <2>5, FileAdded
  <2> QED BY <2>3, <2>4, <2>5 DEF LeftFiles, disk
<1>6. /\ DOMAIN files' = DOMAIN left[1] \cup back
      /\ \A id \in DOMAIN left[1] : files'[id] = left[1][id]
      /\ \A id \in back : files'[id] = unlinked[id]
  BY <1>2
<1>7. /\ DOMAIN files' \subseteq Nat /\ IsFiniteSet(DOMAIN files')
      /\ files' \in [DOMAIN files' -> Table] /\ torn' \subseteq Nat
  <2>1. /\ DOMAIN unlinked \subseteq Nat /\ IsFiniteSet(DOMAIN unlinked)
        /\ unlinked \in [DOMAIN unlinked -> Table]
    BY <1>3 DEF RemovedShape
  <2>2. DOMAIN left[1] \subseteq Nat
    BY <1>3, <1>5
  <2>3. IsFiniteSet(DOMAIN left[1])
    <3>1. IsFiniteSet(DOMAIN files \cup {n})
      BY <1>3, FS_AddElement
    <3> QED BY <1>5, <3>1, FS_Subset
  <2>4. IsFiniteSet(back)
    BY <2>1, FS_Subset
  <2>5. IsFiniteSet(DOMAIN files')
    <3> DEFINE A == DOMAIN left[1]
    <3>1. DOMAIN files' = A \cup back /\ IsFiniteSet(A)
      BY <1>6, <2>3
    <3> HIDE DEF A
    <3>2. IsFiniteSet(A \cup back)
      BY <2>4, <3>1, FS_Union
    <3> QED BY <3>1, <3>2
  <2>6. \A id \in DOMAIN left[1] \cup back :
            (IF id \in back THEN unlinked[id] ELSE left[1][id]) \in Table
    BY <1>5, <2>1
  <2>7. files' \in [DOMAIN left[1] \cup back -> Table]
    BY <1>2, <2>6
  <2>8. files' \in [DOMAIN files' -> Table]
    BY <1>6, <2>7
  <2> QED BY <1>2, <1>3, <1>4, <1>6, <2>1, <2>2, <2>5, <2>8
<1>8. wal' \in Seq(Record)
  <2>1. s \in Seq(Record)
    BY <1>3, SurvivorsType
  <2>2. torn_record \in Record
    BY MarkerTypes
  <2> QED BY <1>1, <2>1, <2>2
<1>9. IndInv'
  BY <1>0, <1>3, <1>7, <1>8, DownKeeps
<1>10. Shapes'
  BY <1>0, AllDurable DEF Shapes, ListShape, CommittedLog
<1>11. PICK b \in 0..Len(wal) : CommittedShape(b)
  BY <1>0 DEF DInv, CommittedLog
<1>12. \A k \in Keys : pending[k] = Absent =>
          Logged(k) = Upto(wal, b)[k] /\ Logged(k)' = Upto(wal, b)[k]
  <2>1. SUFFICES ASSUME NEW k \in Keys, pending[k] = Absent
                 PROVE  Logged(k) = Upto(wal, b)[k] /\ Logged(k)' = Upto(wal, b)[k]
    OBVIOUS
  <2>2. PICK c \in b..Len(wal) : s = SubSeq(wal, 1, c)
    BY <1>0, <1>3, <1>11, SurvivorsHave
  <2>3. replay_wal(wal') \in {Upto(wal, b), Overlay(Upto(wal, b), pending)}
    BY <1>1, <1>3, <1>11, <2>2, PrefixReplay DEF CommittedShape
  <2>4. Overlay(Upto(wal, b), pending)[k] = Upto(wal, b)[k]
    BY <2>1 DEF Overlay
  <2>5. Logged(k)' = replay_wal(wal')[k]
    BY <1>0 DEF Logged, Stable
  <2>6. Logged(k) = Upto(wal, b)[k]
    BY <1>0, <1>3, <1>11, <2>1, LoggedOpen
  <2> QED BY <2>3, <2>4, <2>5, <2>6
<1>13. Known' = files' /\ Listed' = DOMAIN files'
  BY <1>0, <1>7, NothingBack DEF Known, Listed
<1>14. FirmKept
  <2>1. SUFFICES ASSUME NEW k \in Keys, NEW v \in Values, pending[k] = Absent, Firm(k, v)
                 PROVE  Firm(k, v)'
    BY DEF FirmKept
  <2>2. Logged(k)' = Logged(k) /\ Logged(k) = Upto(wal, b)[k]
    BY <1>12, <2>1
  <2>3. CASE Logged(k) = v
    BY <2>2, <2>3 DEF Firm
  <2>4. CASE Logged(k) = Absent /\ Top(k, v)
    <3>1. PICK t \in Listed : /\ files[t][k] = v
                              /\ \A id \in DOMAIN Known : Known[id][k] # Absent => id <= t
      BY <2>4 DEF Top
    <3>2. /\ t \in DOMAIN files /\ t \in Nat
          /\ \A id \in DOMAIN files : id \in DOMAIN Known /\ Known[id] = files[id]
          /\ \A id \in DOMAIN unlinked : id \in DOMAIN Known /\ Known[id] = unlinked[id]
      BY <1>3, KnownFacts
    <3>3. \A id \in DOMAIN files' : files'[id][k] # Absent => id = n \/ id <= t
      <4>1. ASSUME NEW id \in DOMAIN files', files'[id][k] # Absent, id # n
            PROVE  id <= t
        <5>1. CASE id \in back
          BY <1>2, <1>6, <3>1, <3>2, <4>1, <5>1
        <5>2. CASE id \in DOMAIN left[1]
          <6>1. id \in DOMAIN files /\ files'[id] = files[id]
            BY <1>5, <1>6, <4>1, <5>2
          <6> QED BY <3>1, <3>2, <4>1, <6>1
        <5> QED BY <1>6, <5>1, <5>2
      <4> QED BY <4>1
    <3>4. /\ t \in DOMAIN files' /\ files'[t][k] = v /\ t < n
          /\ n \in DOMAIN left[1] => n \in DOMAIN files' /\ files'[n] = left[1][n]
      BY <1>5, <1>6, <3>1, <3>2
    <3>5. Top(k, v)'
      <4>1. CASE n \in DOMAIN left[1] /\ pc = "merge_sync" /\ left[1][n] = merged
        <5>1. files'[n][k] = v /\ n \in DOMAIN files'
          BY <1>0, <2>4, <3>4, <4>1, TopIsMerged
        <5> HIDE DEF n
        <5>2. \A id \in DOMAIN files' : files'[id][k] # Absent => id <= n
          BY <1>3, <1>7, <3>2, <3>3, <3>4
        <5> QED BY <1>13, <5>1, <5>2 DEF Top
      <4>2. CASE n \in DOMAIN files' => files'[n][k] = Absent
        <5> HIDE DEF n
        <5>1. \A id \in DOMAIN files' : files'[id][k] # Absent => id <= t
          BY <3>3, <4>2
        <5> QED BY <1>13, <3>4, <5>1 DEF Top
      <4>3. CASE n \in DOMAIN left[1] /\ pc = "flush_sync" /\ left[1][n] = data
        <5>1. data = Upto(wal, b)
          BY <1>11, <4>3 DEF CommittedShape
        <5> QED BY <2>2, <2>4, <3>4, <4>2, <4>3, <5>1
      <4>4. CASE n \notin DOMAIN left[1]
        <5>1. n \in back => n <= t \/ files'[n][k] = Absent
          BY <1>2, <1>6, <3>1, <3>2
        <5> QED BY <1>3, <1>6, <3>2, <3>4, <4>2, <4>4, <5>1
      <4> QED BY <1>5, <4>1, <4>3, <4>4
    <3> QED BY <2>2, <2>4, <3>5 DEF Firm
  <2> QED BY <2>1, <2>3, <2>4 DEF Firm
<1> QED BY <1>9, <1>10, <1>14

-----------------------------------------------------------------------------
(***************************************************************************)
(* All steps, and the theorems.                                            *)
(***************************************************************************)

LEMMA ElsewhereKeeps ==
    ASSUME DInv, IndInv', Elsewhere
    PROVE  Shapes' /\ FirmKept
<1>0. UNCHANGED unlinked /\ pending \in Table
  BY DEF Elsewhere, DInv, IndInv, TypeOK
<1>1. CASE append \/ write_commit
  BY <1>0, <1>1, RecordWritten
<1>2. CASE apply
  BY <1>0, <1>2, BatchApplied
<1>3. CASE close
  BY <1>0, <1>3, Closed
<1>4. pc \notin {"unlink", "unlinking"} => doomed = {}
  BY DEF DInv, RemovedShape
<1>5. CASE flush
  <2>1. /\ pc = "flush" /\ pc' \in {"idle", "flush_sync"} /\ doomed' \in {doomed, {}}
        /\ UNCHANGED <<data, wal, synced, sstables, next_sstable_id>>
        /\ UNCHANGED files \/ StartFile(next_sstable_id)
    BY <1>5 DEF flush, Return, Goto, memtable, log, tables, disk
  <2>2. files' = files
    BY <2>1, FileStarted
  <2> QED BY <1>0, <1>4, <2>1, <2>2, NothingWritten DEF Writing
<1>6. CASE compact
  <2>1. pc = "compact" /\ UNCHANGED <<data, wal, synced>>
    BY <1>6 DEF compact, memtable, log
  <2>2. CASE /\ merged = EmptyTable /\ sstables' = << >> /\ doomed' = old_paths
             /\ pc' = "unlink" /\ UNCHANGED <<files, next_sstable_id>>
    BY <1>0, <2>1, <2>2, CompactedAway
  <2>3. CASE /\ pc' \in {"idle", "merge_sync"} /\ doomed' \in {doomed, {}}
             /\ UNCHANGED <<sstables, next_sstable_id>>
             /\ UNCHANGED files \/ StartFile(next_sstable_id)
    <3>1. files' = files
      BY <2>1, <2>3, FileStarted
    <3> QED BY <1>0, <1>4, <2>1, <2>3, <3>1, NothingWritten DEF Writing
  <2> QED BY <1>6, <2>2, <2>3 DEF compact, Return, Goto, tables, disk
<1>7. CASE compacted
  <2>1. /\ pc = "unlinking" /\ pc' = "idle" /\ doomed = {} /\ doomed' = {}
        /\ UNCHANGED <<data, wal, synced, files, sstables, next_sstable_id>>
    BY <1>7 DEF compacted, Return, memtable, log, tables, disk
  <2> QED BY <1>0, <2>1, NothingWritten DEF Writing
<1>8. CASE \/ begin_transaction \/ txn_set_value \/ txn_delete_value
           \/ txn_commit /\ pending = EmptyTable
           \/ rollback \/ call_flush \/ call_compact
  <2>1. /\ pc \in {"idle", "txn"} /\ pc' \in {"idle", "txn", "flush", "compact"}
        /\ UNCHANGED <<data, wal, synced, files, sstables, next_sstable_id, doomed>>
    BY <1>8 DEF begin_transaction, txn_set_value, txn_delete_value, txn_commit, rollback,
                call_flush, call_compact, Goto, memtable, log, tables, disk
  <2> QED BY <1>0, <1>4, <2>1, NothingWritten DEF Writing
<1>9. CASE set_value \/ delete_value \/ (txn_commit /\ pending # EmptyTable)
  <2>1. \A k \in Keys, e \in Entry : One(k, e) \in Table
    BY OneType
  <2>2. PICK batch \in Table : Log(batch) /\ pc \in {"idle", "txn"}
    BY <1>0, <1>9, <2>1 DEF set_value, delete_value, txn_commit, Entry
  <2> QED BY <1>0, <2>2, LogDirectory
<1> QED BY <1>1, <1>2, <1>3, <1>5, <1>6, <1>7, <1>8, <1>9 DEF Elsewhere

\* Every step keeps the invariant and the values of the keys it does not write.
LEMMA DirectoryStep ==
    ASSUME DInv, [DNext]_<<vars, unlinked>>
    PROVE  DInv' /\ FirmKept
<1>1. CASE unlink \/ fsync \/ reopen \/ Elsewhere
  <2>1. Next
    BY <1>1 DEF unlink, fsync, reopen, Elsewhere, Next, Engine, Client
  <2>2. IndInv'
    BY <2>1, NextInv DEF DInv
  <2>3. CASE fsync
    BY <2>2, <2>3, CommitSynced, FlushSynced, LogCleared, MergeSynced
       DEF fsync, DInv, Shapes
  <2> QED BY <1>1, <2>2, <2>3, FileRemoved, Reopened, ElsewhereKeeps DEF DInv, Shapes
<1>2. CASE power_failure
  BY <1>2, PowerFailed DEF DInv, Shapes
<1>3. CASE UNCHANGED <<vars, unlinked>>
  <2>1. UNCHANGED <<data, wal, synced, files, unlinked, sstables, next_sstable_id, pc,
                    pending, todo, doomed>> /\ UNCHANGED vars
    BY <1>3 DEF vars, memtable, log, tables, disk, caller
  <2>2. IndInv'
    BY <2>1, NextInv DEF DInv
  <2>3. FirmKept
    BY <2>1, SameSources
  <2>4. Known' = Known
    BY <2>1 DEF Known
  <2>5. RemovedShape' /\ ListShape'
    BY <2>1, <2>4 DEF DInv, RemovedShape, Covered, ListShape
  <2>6. \A b : CommittedShape(b) => CommittedShape(b)'
    BY <2>1 DEF CommittedShape, LogForm
  <2>7. CommittedLog'
    BY <2>1, <2>6 DEF DInv, CommittedLog
  <2> QED BY <2>2, <2>3, <2>5, <2>7 DEF DInv
<1> QED BY <1>1, <1>2, <1>3 DEF DNext

LEMMA DirectoryInit == DInit => DInv
<1> SUFFICES ASSUME DInit PROVE DInv
  OBVIOUS
<1>1. IndInv /\ pc = "closed" /\ doomed = {} /\ unlinked = << >> /\ synced = wal
  BY InitInv DEF DInit, Init
<1>2. unlinked \in [{} -> Table] /\ DOMAIN unlinked = {} /\ IsFiniteSet({})
  BY <1>1, FS_EmptySet, SMT
<1>3. RemovedShape
  BY <1>1, <1>2 DEF RemovedShape
<1> QED BY <1>1, <1>3 DEF DInv, ListShape, CommittedLog

\* The values that are settled are those that a step keeps.
LEMMA SettledStep ==
    ASSUME DInv, [DNext]_<<vars, unlinked>>
    PROVE  {kv \in Settled : pending[kv[1]] = Absent} \subseteq Settled'
<1>1. DInv' /\ FirmKept
  BY DirectoryStep
<1>2. SUFFICES ASSUME NEW kv \in Settled, pending[kv[1]] = Absent PROVE kv \in Settled'
  OBVIOUS
<1>3. PICK k \in Keys, v \in Values : kv = <<k, v>>
  BY DEF Settled
<1>4. Firm(k, v)
  BY <1>2, <1>3, SettledIsFirm
<1>5. Firm(k, v)'
  BY <1>1, <1>2, <1>3, <1>4 DEF FirmKept
<1>6. (DInv => (<<k, v>> \in Settled <=> Firm(k, v)))'
  BY SettledIsFirm, PTL
<1> QED BY <1>1, <1>3, <1>5, <1>6

\* However removals, fsyncs, power losses and files that come back follow one
\* another, compact never has an open file on its list of files to remove.
THEOREM DirectoryInvariant == DSpec => []DInv /\ []ObsoleteOnly
<1>1. DInv /\ [DNext]_<<vars, unlinked>> => DInv'
  BY DirectoryStep
<1>2. DInv => ObsoleteOnly
  BY DEF DInv, IndInv
<1> QED BY DirectoryInit, <1>1, <1>2, PTL DEF DSpec

\* A key that is not deleted keeps its value until a write touches it, however
\* compactions are cut short and whichever of the files they removed (store.rs
\* compact) are back after a power loss: for every set of keys and values,
\* every threshold, budget and number of tables.
THEOREM ValuesSurvive == DSpec => LiveKeysSurvive
<1>1. DInv /\ [DNext]_<<vars, unlinked>> => DInv'
  BY DirectoryStep
<1> DEFINE Kept == Sources' # Sources =>
                     {kv \in Settled : pending[kv[1]] = Absent} \subseteq Settled'
<1>2. DInv /\ [DNext]_<<vars, unlinked>> => [Kept]_<<vars, unlinked>>
  BY SettledStep
<1>3. LiveKeysSurvive <=> [][Kept]_<<vars, unlinked>>
  BY DEF LiveKeysSurvive
<1> HIDE DEF Kept
<1> QED BY DirectoryInit, <1>1, <1>2, <1>3, PTL DEF DSpec

=============================================================================
