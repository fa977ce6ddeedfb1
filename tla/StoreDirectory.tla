--------------------------- MODULE StoreDirectory ---------------------------
(***************************************************************************)
(* Store in a directory whose removals are not durable at once.  No code   *)
(* fsyncs the directory: a file that compact has removed may be there      *)
(* again after a power loss, until the next fsync of another file has      *)
(* taken the removal to disk with it (as journalling file systems do; they *)
(* also make a new file's name durable with its first fsync).  The faults  *)
(* are power losses and removals that fail; errors of the log and of the   *)
(* SSTables, and the deaths of the process alone, are Store's.             *)
(***************************************************************************)
EXTENDS Store

VARIABLE unlinked   \* id -> contents of the files removed since the last fsync

DInit == Init /\ unlinked = << >>

\* compact removes a file, or tries to.
unlink ==
    /\ remove_file
    /\ unlinked' = IF files' = files THEN unlinked
                   ELSE With(unlinked, Max(doomed), files[Max(doomed)])

\* The steps that fsync a file.
fsync ==
    /\ sync_commit \/ flush_sync \/ clear \/ merge_sync
    /\ unlinked' = << >>

\* When the machine is up again, any of the removed files may be back.
power_failure ==
    /\ PowerCut
    /\ \E left \in LeftFiles :
         \E back \in SUBSET (DOMAIN unlinked \ (DOMAIN left[1] \cup left[2])) :
           /\ files' = [id \in DOMAIN left[1] \cup back |->
                          IF id \in back THEN unlinked[id] ELSE left[1][id]]
           /\ torn' = left[2]
    /\ unlinked' = << >>

\* read_for_recovery fsyncs a log that it cuts.
reopen ==
    /\ open_with_dir
    /\ unlinked' = IF wal' = wal THEN unlinked ELSE << >>

\* The steps that neither remove a file nor fsync one.
Elsewhere ==
    /\ \/ append \/ write_commit \/ apply
       \/ flush \/ compact \/ compacted \/ close
       \/ set_value \/ delete_value
       \/ begin_transaction \/ txn_set_value \/ txn_delete_value
       \/ txn_commit \/ rollback \/ call_flush \/ call_compact
    /\ UNCHANGED unlinked

DNext == unlink \/ fsync \/ power_failure \/ reopen \/ Elsewhere

DSpec == DInit /\ [][DNext]_<<vars, unlinked>>

-----------------------------------------------------------------------------
\* The SSTables there would be if every removed file were back.
Known ==
    [id \in DOMAIN files \cup DOMAIN unlinked |->
        IF id \in DOMAIN files THEN files[id] ELSE unlinked[id]]

\* What recovery makes of key k in a directory with the SSTables fs: the last
\* entry in the log, or else that of the newest table.
Recovered(fs, k) ==
    LET logged == replay_wal(Stable)[k]
        h == {id \in DOMAIN fs : fs[id][k] # Absent}
    IN  IF logged # Absent THEN logged
        ELSE IF h = {} THEN Absent ELSE fs[Max(h)][k]

\* The keys that have a value, each with it: a reader sees it, and whoever opens
\* the directory will, as it is and with the removed files back.  (A deleted key
\* may appear to have one while an old file outlives the file with its
\* tombstone: StaleTablesLose.)
Settled ==
    {kv \in Keys \X Values :
        /\ \A fs \in {files, Known} : Recovered(fs, kv[1]) = kv[2]
        /\ pc # "closed" => Contents[kv[1]] = kv[2]}

\* All that Settled depends on.
Sources == <<files, unlinked, sstables, Stable, pc = "closed">>

\* A key that is not deleted keeps its value, in the directory as it is and
\* with the removed files back, until a write touches it: no step, crash
\* included, loses or changes it, even if a compaction is stopped half-way
\* through removing its inputs (store.rs compact), cannot remove some of them,
\* or finds some of them back after a power loss.
LiveKeysSurvive ==
    [][Sources' # Sources =>
          {kv \in Settled : pending[kv[1]] = Absent} \subseteq Settled']_<<vars, unlinked>>

=============================================================================
