------------------------------- MODULE Store -------------------------------
(***************************************************************************)
(* The storage engine of one table (ferrumdb-core, store.rs) over its      *)
(* write-ahead log and its SSTable files.                                  *)
(*                                                                         *)
(* A Store is used through &mut self by one caller at a time, so calls do  *)
(* not overlap.  What interleaves with a call is failure: an action is one *)
(* durable effect of a call (one write, one fsync, one unlink), and        *)
(* between any two of them the process may die or the next system call may *)
(* return an error.  Faults selects the failures a run exposes.            *)
(***************************************************************************)
EXTENDS Wal

CONSTANTS
    MAX_SSTABLES,                 \* compaction threshold
    DEFAULT_MEMTABLE_MAX_BYTES,   \* budget of a freshly opened table
    Budgets,                      \* arguments of set_memtable_budget
    Faults,                       \* the failures that may happen
    MaxSequence,                  \* bound: highest sequence number issued
    MaxSstId                      \* bound: highest SSTable id issued

FaultKinds ==
    {"process_crash",   \* the process dies; the page cache survives
     "power_loss",      \* the machine dies; only fsynced bytes are certain
     "cleanup_crash",   \* ... even between two unlinks of a compaction
     "torn_sst",        \* an interrupted SSTable write leaves a partial file
     "unlink_error",    \* remove_file fails
     "wal_error",       \* write_all or sync_all on wal.log fails
     "wal_torn",        \* ... after some bytes of the record were written
     "sst_error",       \* reading, writing or syncing an SSTable fails
     "clear_error"}     \* Wal::clear fails

ASSUME LimitsAssumption ==
    /\ MAX_SSTABLES \in Nat \ {0}
    /\ DEFAULT_MEMTABLE_MAX_BYTES \in Nat
    /\ Budgets \subseteq Nat
    /\ MaxSequence \in Nat
    /\ MaxSstId \in Nat

ASSUME FaultsAssumption == Faults \subseteq FaultKinds

VARIABLES
    data,                 \* the memtable
    memtable_bytes,       \* its running size estimate
    memtable_max_bytes,   \* its budget
    wal,                  \* wal.log as the process would read it back
    synced,               \* wal.log as of its last fsync
    sequence,             \* the counter; a closed table keeps the last value
    sstables,             \* ids of the open SSTables, newest first
    next_sstable_id,
    files,                \* id -> contents of every complete SSTable file
    torn,                 \* ids of the SSTable files that are incomplete
    pc,                   \* what the engine does next
    pending,              \* writes of the transaction or call in progress
    todo,                 \* keys of pending that are not logged yet
    doomed,               \* old_paths that compact has still to remove
    result                \* how the last write call returned

memtable == <<data, memtable_bytes, memtable_max_bytes>>
log == <<wal, synced>>
tables == <<sstables, next_sstable_id>>
disk == <<files, torn>>
caller == <<pc, pending, todo, doomed, result>>
vars == <<memtable, log, sequence, tables, disk, caller>>

-----------------------------------------------------------------------------
\* Pieces of the actions.

SeqRange(s) == {s[i] : i \in 1..Len(s)}
With(fs, id, t) ==
    [i \in DOMAIN fs \cup {id} |-> IF i = id THEN t ELSE fs[i]]
Without(fs, S) == [i \in DOMAIN fs \ S |-> fs[i]]

\* A call ends; the outcome of a write is remembered.
Return(r) ==
    /\ pc' = "idle"
    /\ pending' = EmptyTable
    /\ todo' = {}
    /\ doomed' = {}
    /\ result' = IF pending = EmptyTable THEN "none" ELSE r

\* The call goes on with the step at label.
Goto(label) ==
    /\ pc' = label
    /\ UNCHANGED <<pending, todo, doomed, result>>

\* A call that writes the entries of batch starts to log them.
Log(batch) ==
    /\ sequence + Cardinality(KeysOf(batch)) <= MaxSequence
    /\ next_sstable_id < MaxSstId
    /\ pc' = "append"
    /\ pending' = batch
    /\ todo' = KeysOf(batch)
    /\ result' = "none"
    /\ UNCHANGED <<memtable, log, sequence, tables, disk, doomed>>

\* The process is gone, and with it everything that was in memory.
Down ==
    /\ data' = EmptyTable
    /\ memtable_bytes' = 0
    /\ memtable_max_bytes' = DEFAULT_MEMTABLE_MAX_BYTES
    /\ sstables' = << >>
    /\ next_sstable_id' = 1
    /\ pc' = "closed"
    /\ pending' = EmptyTable
    /\ todo' = {}
    /\ doomed' = {}
    /\ result' = "none"
    /\ UNCHANGED sequence

Init ==
    /\ data = EmptyTable
    /\ memtable_bytes = 0
    /\ memtable_max_bytes = DEFAULT_MEMTABLE_MAX_BYTES
    /\ wal = << >>
    /\ synced = << >>
    /\ sequence = 0
    /\ sstables = << >>
    /\ next_sstable_id = 1
    /\ files = << >>
    /\ torn = {}
    /\ pc = "closed"
    /\ pending = EmptyTable
    /\ todo = {}
    /\ doomed = {}
    /\ result = "none"

-----------------------------------------------------------------------------
(***************************************************************************)
(* Opening: load_sstables, then replay_wal.  A table set with a file that  *)
(* SsTable::open rejects cannot be opened at all.                          *)
(***************************************************************************)

\* A regression in which the newest file's own id is handed out again.
last_used_id(ids) == Max({0} \cup ids)

\* The id after the newest file's, 1 in an empty directory.
first_free_id(ids) == Max({0} \cup ids) + 1

open_with_dir ==
    /\ pc = "closed"
    /\ torn = {}
    /\ sstables' = NewestFirst(DOMAIN files)
    /\ next_sstable_id' = first_free_id(DOMAIN files)
    /\ data' = replay_wal(wal)
    /\ memtable_bytes' = Footprint(replay_wal(wal))
    /\ memtable_max_bytes' = DEFAULT_MEMTABLE_MAX_BYTES
    /\ sequence' = replay_sequence(wal)
    /\ wal' = read_for_recovery(wal)
    /\ synced' = IF Len(wal') < Len(wal) THEN wal' ELSE synced
    /\ pc' = "idle"
    /\ doomed' = {}
    /\ UNCHANGED <<disk, pending, todo, result>>

open_fails ==
    /\ pc = "closed"
    /\ torn # {}
    /\ UNCHANGED vars

set_memtable_budget ==
    /\ pc = "idle"
    /\ memtable_max_bytes' \in Budgets
    /\ result' = "none"
    /\ UNCHANGED <<data, memtable_bytes, log, sequence, tables, disk,
                   pc, pending, todo, doomed>>

-----------------------------------------------------------------------------
(***************************************************************************)
(* Writes.  set_value and delete_value log a batch of one key, a           *)
(* transaction logs all it buffered.                                       *)
(***************************************************************************)

One(k, e) == [EmptyTable EXCEPT ![k] = e]

set_value == pc = "idle" /\ \E k \in Keys, v \in Values : Log(One(k, v))

delete_value == pc = "idle" /\ \E k \in Keys : Log(One(k, Tombstone))

begin_transaction ==
    /\ pc = "idle"
    /\ sequence < MaxSequence
    /\ next_sstable_id < MaxSstId
    /\ pc' = "txn"
    /\ result' = "none"
    /\ UNCHANGED <<memtable, log, sequence, tables, disk, pending, todo, doomed>>

txn_set_value ==
    /\ pc = "txn"
    /\ \E k \in Keys, v \in Values : pending' = [pending EXCEPT ![k] = v]
    /\ UNCHANGED <<memtable, log, sequence, tables, disk, pc, todo, doomed, result>>

txn_delete_value ==
    /\ pc = "txn"
    /\ \E k \in Keys : pending' = [pending EXCEPT ![k] = Tombstone]
    /\ UNCHANGED <<memtable, log, sequence, tables, disk, pc, todo, doomed, result>>

rollback ==
    /\ pc = "txn"
    /\ pc' = "idle"
    /\ pending' = EmptyTable
    /\ UNCHANGED <<memtable, log, sequence, tables, disk, todo, doomed, result>>

txn_commit ==
    /\ pc = "txn"
    /\ \/ /\ pending = EmptyTable
          /\ Goto("idle")
          /\ UNCHANGED <<memtable, log, sequence, tables, disk>>
       \/ /\ pending # EmptyTable
          /\ Log(pending)

\* The keys of a batch are logged in ascending order.
NextKey == Min(todo)

log_entry(n) ==
    IF pending[NextKey] = Tombstone
      THEN create_delete_entry(NextKey, n)
      ELSE create_put_entry(NextKey, pending[NextKey], n)

append ==
    /\ pc = "append"
    /\ wal' = Append(wal, log_entry(sequence + 1))
    /\ sequence' = sequence + 1
    /\ todo' = todo \ {NextKey}
    /\ pc' = IF todo' = {} THEN "commit" ELSE "append"
    /\ UNCHANGED <<memtable, synced, tables, disk, pending, doomed, result>>

\* What a failed write_all may leave of the record.
FailedWrite ==
    wal' \in {wal} \cup (IF "wal_torn" \in Faults
                           THEN {Append(wal, torn_record)} ELSE {})

append_fails ==
    /\ pc = "append"
    /\ "wal_error" \in Faults
    /\ FailedWrite
    /\ sequence' = sequence + 1
    /\ Return("err")
    /\ UNCHANGED <<memtable, synced, tables, disk>>

write_commit ==
    /\ pc = "commit"
    /\ wal' = Append(wal, commit_entry(sequence))
    /\ Goto("sync")
    /\ UNCHANGED <<memtable, synced, sequence, tables, disk>>

write_commit_fails ==
    /\ pc = "commit"
    /\ "wal_error" \in Faults
    /\ FailedWrite
    /\ Return("err")
    /\ UNCHANGED <<memtable, synced, sequence, tables, disk>>

\* A regression in which the COMMIT marker is written but not fsynced.
skip_fsync(w) == synced

sync_all(w) == w

sync_commit ==
    /\ pc = "sync"
    /\ synced' = sync_all(wal)
    /\ Goto("apply")
    /\ UNCHANGED <<memtable, wal, sequence, tables, disk>>

sync_commit_fails ==
    /\ pc = "sync"
    /\ "wal_error" \in Faults
    /\ Return("err")
    /\ UNCHANGED <<memtable, log, sequence, tables, disk>>

\* A regression in which the old entry is looked up after the insert.
replaced_after_insert(t, batch) == Footprint(batch)

\* The footprint of the entries of t that the entries of batch replace.
replaced_bytes(t, batch) ==
    Footprint([k \in Keys |-> IF batch[k] = Absent THEN Absent ELSE t[k]])

reaches_budget(bytes) == bytes >= memtable_max_bytes

\* memtable_insert of every pending entry, then maybe_flush.
apply ==
    /\ pc = "apply"
    /\ data' = Overlay(data, pending)
    /\ memtable_bytes' =
           memtable_bytes + Footprint(pending) - replaced_bytes(data, pending)
    /\ IF reaches_budget(memtable_bytes') THEN Goto("flush") ELSE Return("ok")
    /\ UNCHANGED <<memtable_max_bytes, log, sequence, tables, disk>>

-----------------------------------------------------------------------------
(***************************************************************************)
(* Flushing: the memtable becomes SSTable next_sstable_id, then the log is *)
(* cleared.  SsTable::flush truncates the file at its path, writes it and  *)
(* fsyncs it: until the last of these the file is torn.                    *)
(***************************************************************************)

call_flush ==
    /\ pc = "idle"
    /\ next_sstable_id < MaxSstId
    /\ pc' = "flush"
    /\ result' = "none"
    /\ UNCHANGED <<memtable, log, sequence, tables, disk, pending, todo, doomed>>

\* SsTable::flush has opened the file and is writing it.
StartFile(id) ==
    /\ files' = Without(files, {id})
    /\ torn' = torn \cup {id}

\* A regression in which the end of the file is never written.
FinishFile_without_footer(id, t) ==
    /\ files' = With(files, id, t)
    /\ torn' = torn \cup {id}

\* The file is complete, with the entries of t.
FinishFile(id, t) ==
    /\ files' = With(files, id, t)
    /\ torn' = torn \ {id}

\* SsTable::flush fails: the file may be partial, or complete but not synced.
AbandonFile(id, t) ==
    \/ FinishFile(id, t)
    \/ "torn_sst" \in Faults /\ UNCHANGED disk

flush ==
    /\ pc = "flush"
    /\ \/ /\ data = EmptyTable
          /\ Return("ok")
          /\ UNCHANGED disk
       \/ /\ data # EmptyTable
          /\ StartFile(next_sstable_id)
          /\ Goto("flush_sync")
    /\ UNCHANGED <<memtable, log, sequence, tables>>

flush_sync ==
    /\ pc = "flush_sync"
    /\ FinishFile(next_sstable_id, data)
    /\ next_sstable_id' = next_sstable_id + 1
    /\ sstables' = <<next_sstable_id>> \o sstables
    /\ data' = EmptyTable
    /\ memtable_bytes' = 0
    /\ Goto("clear")
    /\ UNCHANGED <<memtable_max_bytes, log, sequence>>

flush_fails ==
    /\ "sst_error" \in Faults
    /\ \/ pc = "flush" /\ data # EmptyTable /\ UNCHANGED disk
       \/ pc = "flush_sync" /\ AbandonFile(next_sstable_id, data)
    /\ Return("err")
    /\ UNCHANGED <<memtable, log, sequence, tables>>

\* A regression in which compaction waits for one table too many.
far_too_many(ids) == Len(ids) > MAX_SSTABLES + 1

too_many(ids) == Len(ids) > MAX_SSTABLES

\* Wal::clear, then maybe_compact.
clear ==
    /\ pc = "clear"
    /\ wal' = << >>
    /\ synced' = wal'
    /\ IF too_many(sstables) THEN Goto("compact") ELSE Return("ok")
    /\ UNCHANGED <<memtable, sequence, tables, disk>>

\* File::create fails, or the sync_all that follows it.
clear_fails ==
    /\ pc = "clear"
    /\ "clear_error" \in Faults
    /\ wal' \in {wal, << >>}
    /\ Return("err")
    /\ UNCHANGED <<memtable, synced, sequence, tables, disk>>

-----------------------------------------------------------------------------
(***************************************************************************)
(* Compaction: all tables are merged into one without tombstones, and the  *)
(* old files are removed, newest first, ignoring errors.                   *)
(***************************************************************************)

call_compact ==
    /\ pc = "idle"
    /\ next_sstable_id <= MaxSstId
    /\ pc' = "compact"
    /\ result' = "none"
    /\ UNCHANGED <<memtable, log, sequence, tables, disk, pending, todo, doomed>>

merged == Live(Merge(files, sstables))

\* A regression in which the paths are listed once the new table is in place.
old_paths_and_new == SeqRange(sstables) \cup {next_sstable_id}

\* The files that the merged table makes obsolete.
old_paths == SeqRange(sstables)

compact ==
    /\ pc = "compact"
    /\ \/ /\ Len(sstables) < 2
          /\ Return("ok")
          /\ UNCHANGED <<tables, disk>>
       \/ /\ Len(sstables) >= 2
          /\ merged = EmptyTable
          /\ sstables' = << >>
          /\ doomed' = old_paths
          /\ pc' = "unlink"
          /\ UNCHANGED <<next_sstable_id, disk, pending, todo, result>>
       \/ /\ Len(sstables) >= 2
          /\ merged # EmptyTable
          /\ StartFile(next_sstable_id)
          /\ Goto("merge_sync")
          /\ UNCHANGED tables
    /\ UNCHANGED <<memtable, log, sequence>>

merge_sync ==
    /\ pc = "merge_sync"
    /\ FinishFile(next_sstable_id, merged)
    /\ next_sstable_id' = next_sstable_id + 1
    /\ sstables' = <<next_sstable_id>>
    /\ doomed' = old_paths
    /\ pc' = "unlink"
    /\ UNCHANGED <<memtable, log, sequence, pending, todo, result>>

compact_fails ==
    /\ "sst_error" \in Faults
    /\ \/ pc = "compact" /\ Len(sstables) >= 2 /\ UNCHANGED disk
       \/ pc = "merge_sync" /\ AbandonFile(next_sstable_id, merged)
    /\ Return("err")
    /\ UNCHANGED <<memtable, log, sequence, tables>>

remove_file ==
    /\ pc \in {"unlink", "unlinking"}
    /\ doomed # {}
    /\ \/ files' = Without(files, {Max(doomed)})
       \/ "unlink_error" \in Faults /\ UNCHANGED files
    /\ doomed' = doomed \ {Max(doomed)}
    /\ pc' = "unlinking"
    /\ UNCHANGED <<memtable, log, sequence, tables, torn, pending, todo, result>>

\* A regression in which the clean-up waits until the old files are gone.
compacted_once_gone ==
    /\ pc = "unlinking"
    /\ doomed = {}
    /\ DOMAIN files = SeqRange(sstables)
    /\ Return("ok")
    /\ UNCHANGED <<memtable, log, sequence, tables, disk>>

compacted ==
    /\ pc = "unlinking"
    /\ doomed = {}
    /\ Return("ok")
    /\ UNCHANGED <<memtable, log, sequence, tables, disk>>

-----------------------------------------------------------------------------
(***************************************************************************)
(* The end of a session: the Store is dropped, the process dies, or the    *)
(* machine does.                                                           *)
(***************************************************************************)

close ==
    /\ pc = "idle"
    /\ Down
    /\ UNCHANGED <<log, disk>>

\* What may be left of the SSTable files, <<files, torn>>: the one that was
\* being written is complete, missing or partial.
LeftFiles ==
    IF pc \in {"flush_sync", "merge_sync"}
      THEN LET t == IF pc = "flush_sync" THEN data ELSE merged IN
           {<<With(files, next_sstable_id, t), torn \ {next_sstable_id}>>,
            <<files, torn \ {next_sstable_id}>>}
             \cup (IF "torn_sst" \in Faults THEN {disk} ELSE {})
      ELSE {disk}

LeaveFiles == \E left \in LeftFiles : files' = left[1] /\ torn' = left[2]

Interruptible ==
    /\ pc # "closed"
    /\ pc = "unlinking" /\ doomed # {} => "cleanup_crash" \in Faults

process_crash ==
    /\ "process_crash" \in Faults
    /\ Interruptible
    /\ \/ UNCHANGED wal
       \/ pc \in {"append", "commit"} /\ wal' = Append(wal, torn_record)
    /\ UNCHANGED synced
    /\ LeaveFiles
    /\ Down

IsPrefixOf(s, t) == Len(s) <= Len(t) /\ SubSeq(t, 1, Len(s)) = s

\* What may be left of the log: all that was fsynced and any part of the rest.
Survivors ==
    {synced} \cup
    {SubSeq(wal, 1, n) :
        n \in (IF IsPrefixOf(synced, wal) THEN Len(synced) ELSE 0)..Len(wal)}

\* A power loss, but for what it leaves of the SSTable files.
PowerCut ==
    /\ "power_loss" \in Faults
    /\ Interruptible
    /\ \E s \in Survivors :
           \/ wal' = s
           \/ /\ s # wal \/ pc \in {"append", "commit"}
              /\ wal' = Append(s, torn_record)
    /\ synced' = wal'
    /\ Down

power_loss == PowerCut /\ LeaveFiles

-----------------------------------------------------------------------------
\* The steps that carry a call on, whether or not they succeed.
Engine ==
    \/ append \/ append_fails
    \/ write_commit \/ write_commit_fails
    \/ sync_commit \/ sync_commit_fails
    \/ apply
    \/ flush \/ flush_sync \/ flush_fails
    \/ clear \/ clear_fails
    \/ compact \/ merge_sync \/ compact_fails
    \/ remove_file \/ compacted

\* What the application asks for.
Client ==
    \/ open_with_dir \/ open_fails \/ close
    \/ set_memtable_budget
    \/ set_value \/ delete_value
    \/ begin_transaction \/ txn_set_value \/ txn_delete_value
    \/ txn_commit \/ rollback
    \/ call_flush \/ call_compact

Next == Engine \/ Client \/ process_crash \/ power_loss

Spec == Init /\ [][Next]_vars

\* A thread that is inside a call keeps running, and the application opens a
\* table that it finds closed.
FairSpec == Spec /\ WF_vars(Engine) /\ WF_vars(open_with_dir)

-----------------------------------------------------------------------------
(***************************************************************************)
(* What the table holds, seen by a reader of the open store, by whoever    *)
(* opens the directory next, and by an observer of both.                   *)
(***************************************************************************)

\* get_value of every key: the memtable, then the SSTables in order.
SessionView == Live(Overlay(Merge(files, sstables), data))

\* The log that a failure is certain to leave.
Stable == IF "power_loss" \in Faults THEN synced ELSE wal

\* What open_with_dir would bring back from the directory as it is.
DiskView ==
    Live(Overlay(Merge(files, NewestFirst(DOMAIN files)), replay_wal(Stable)))

\* The contents of the table: every write whose COMMIT is certain to last.
Contents ==
    IF pc = "closed"
      THEN DiskView
      ELSE Live(Overlay(Merge(files, sstables), replay_wal(Stable)))

-----------------------------------------------------------------------------
\* Invariants and action properties.

Labels ==
    {"closed", "idle", "txn", "append", "commit", "sync", "apply", "flush",
     "flush_sync", "clear", "compact", "merge_sync", "unlink", "unlinking"}

\* Every variable keeps the type of the field or file it stands for: the
\* memtable and every SSTable are maps from keys to entries, the log is a
\* sequence of records, ids start at 1, and a call that is logging has a key
\* left to log.  (MemtableBytesExact gives the type of memtable_bytes.)
TypeOK ==
    /\ data \in Table
    /\ memtable_max_bytes \in Nat
    /\ wal \in Seq(Record)
    /\ synced \in Seq(Record)
    /\ sequence \in Nat
    /\ sstables \in Seq(Nat)
    /\ next_sstable_id \in Nat \ {0}
    /\ DOMAIN files \subseteq Nat
    /\ IsFiniteSet(DOMAIN files)
    /\ files \in [DOMAIN files -> Table]
    /\ torn \subseteq Nat
    /\ pc \in Labels
    /\ pending \in Table
    /\ todo \subseteq Keys
    /\ pc = "append" => todo # {}
    /\ doomed \subseteq Nat
    /\ result \in {"none", "ok", "err"}

\* Between calls, a reader of the open store and whoever would open its
\* directory after a failure see the same table: flushes, compactions and
\* their failures never let the memtable and the list of open SSTables
\* (store.rs flush, compact) drift from what load_sstables and replay_wal
\* would rebuild.
SessionMatchesDisk == pc \in {"idle", "txn"} => SessionView = DiskView

\* The open SSTables are listed newest first, each is a complete file on disk,
\* and next_sstable_id is past every one of them and past every other file,
\* except for one left at that very id by a flush that failed: a new table is
\* always consulted before all older ones and overwrites none that is open.
HandleOrder ==
    pc # "closed" =>
        /\ \A i, j \in 1..Len(sstables) : i < j => sstables[i] > sstables[j]
        /\ \A i \in 1..Len(sstables) :
               sstables[i] \in DOMAIN files /\ sstables[i] < next_sstable_id
        /\ \A id \in DOMAIN files \cup torn : id <= next_sstable_id

\* The files compact has still to remove are older than any file that will be
\* written and none of them is open: its clean-up, however often it is cut
\* short, takes no table away from a reader.
ObsoleteOnly ==
    \A id \in doomed : id < next_sstable_id /\ id \notin SeqRange(sstables)

\* The estimate memtable_insert keeps by increments is the footprint of the
\* memtable, whatever was replaced, flushed or replayed.
MemtableBytesExact == memtable_bytes = Footprint(data)

\* Within one log every entry has a higher sequence number than the entries
\* before it, and none is above the counter of an open table: replay_wal
\* restores a counter whose next values are all unused in that log.
SequencesAscend ==
    /\ \A i, j \in At(wal, {"put", "delete"}) :
           i < j => wal[i].sequence < wal[j].sequence
    /\ pc # "closed" => \A i \in 1..Len(wal) : wal[i].sequence <= sequence

\* The entry that key k has in table t is in log w, under a later COMMIT.
LoggedIn(w, t) ==
    \A k \in KeysOf(t) :
        \E i \in At(w, {"put", "delete"}), j \in At(w, {"commit"}) :
            i < j /\ w[i].key = k /\ w[i].entry = t[k]

\* Write-ahead: whatever errors and crashes came before, an entry is in the
\* memtable only while the log holds it under a COMMIT (append and
\* write_commit precede memtable_insert, and clear follows data.clear).
LoggedBeforeApplied == LoggedIn(wal, data)

\* As CONTRIBUTING.md:32 has it, the log is written and flushed before the
\* in-memory state is updated: the memtable holds only fsynced entries.  This
\* is for runs without process_crash and wal_error: read_for_recovery fsyncs
\* only a log that it cuts, so a COMMIT that a dead process or a failed fsync
\* left unsynced is replayed as it is.
FlushedBeforeApplied == LoggedIn(synced, data)

\* A write returns Ok only when the table is within its limits again: the
\* memtable has not reached its budget (maybe_flush runs after the last insert of a
\* batch and completes before the write reports success), and a write that
\* flushed leaves at most MAX_SSTABLES tables (maybe_compact brings the number
\* down, however many a crash before an earlier compaction left).
LimitsHeld ==
    [][result' = "ok" /\ result # "ok" =>
          IF data' = EmptyTable
            THEN Len(sstables') <= MAX_SSTABLES
            ELSE ~(memtable_bytes' >= memtable_max_bytes)]_vars

\* Every call on an open table returns, or dies with its process.
EveryCallReturns == pc \notin {"closed", "idle", "txn"} ~> pc \in {"closed", "idle"}

\* A closed table can be brought back, whatever the failure that closed it.
TableReopens == pc = "closed" ~> pc = "idle"

-----------------------------------------------------------------------------
\* What the repository's documents say of failures.

\* store.rs:281 of a crash inside compact: "the stale tables simply replay
\* behind the newer merged table and lose to it on every read".  Dying while
\* the old files are being removed changes no read once there is a merged table.
StaleTablesLose ==
    [][(pc \in {"unlink", "unlinking"}) /\ sstables # << >>
          => Contents' = Contents]_vars

\* README.md:103, "Crash recovery replays the WAL on next open": a crash leaves
\* a directory that open_with_dir accepts.
CrashLeavesOpenable == pc = "closed" => torn = {}

\* docs/wal.md:13, "A write is durable if and only if it has been fsynced to
\* the WAL file": the entries that an open table has acknowledged and not yet
\* flushed are the ones that recovery would replay.
AcknowledgedIsRecovered ==
    pc \in {"idle", "txn"} => \A k \in KeysOf(data) : replay_wal(synced)[k] = data[k]

=============================================================================
