------------------------------ MODULE Database ------------------------------
(***************************************************************************)
(* Several processes use one table of a database directory: they create,   *)
(* open, write, flush, close and delete it (database.rs), and each open    *)
(* takes an flock on the file LOCK in the table's directory                *)
(* (Store::open_with_dir).  An action is one system call that another      *)
(* process could notice.                                                   *)
(*                                                                         *)
(* A lock belongs to a file and not to its name, and so does the cached    *)
(* append handle of the log: files are inodes here, and entry says which   *)
(* inode a name of the directory leads to.  Tables do not share files, so  *)
(* one name stands for all of them.                                        *)
(***************************************************************************)
EXTENDS Naturals, FiniteSets, FiniteSetsExt

CONSTANTS
    Procs,        \* the processes
    MaxDeletes    \* bound: deletes that get as far as removing files

ASSUME ConstantsAssumption ==
    /\ IsFiniteSet(Procs)
    /\ MaxDeletes \in Nat

NoFile == 0
Names == {"LOCK", "wal.log"}

\* Enough inodes for every name and for every file a process has open.
Inodes == 1..(3 * Cardinality(Procs) + 3)

VARIABLES
    dir,      \* the table's directory exists
    entry,    \* the inode of each file in it, NoFile if there is none
    pc,       \* the next step of the call each process is in
    opening,  \* the LOCK file that an open in progress works on
    handle,   \* the Store each process has open: its locked LOCK file, NoFile
              \* if the table is not open, its append handle of the log, and
              \* whether its memtable holds anything
    left,     \* what a delete in progress has still to remove
    deletes,  \* number of deletes that have started to remove files
    raced     \* a delete has removed files while another process had, or was
              \* opening, the table

vars == <<dir, entry, pc, opening, handle, left, deletes, raced>>

Closed == [lock |-> NoFile, log |-> NoFile, data |-> FALSE]
IsOpen(p) == handle[p].lock # NoFile

Init ==
    /\ dir = FALSE
    /\ entry = [n \in Names |-> NoFile]
    /\ pc = [p \in Procs |-> "idle"]
    /\ opening = [p \in Procs |-> NoFile]
    /\ handle = [p \in Procs |-> Closed]
    /\ left = [p \in Procs |-> {}]
    /\ deletes = 0
    /\ raced = FALSE

-----------------------------------------------------------------------------
\* The file system.

InUse ==
    {entry[n] : n \in Names} \cup {opening[p] : p \in Procs}
        \cup UNION {{handle[p].lock, handle[p].log} : p \in Procs}

NewFile == Min(Inodes \ InUse)

\* OpenOptions::create(true): the inode that opening a file by its name gives.
open_or_create(n) == IF entry[n] = NoFile THEN NewFile ELSE entry[n]

\* A regression in which LOCK is replaced by a new file at every open.
always_create(n) == NewFile

lock_file(n) == open_or_create(n)

\* A regression, and the build for a system that is not unix: nothing is locked.
never_locked(i) == FALSE

\* Some open file description has the lock on file i.
Locked(i) ==
    \E p \in Procs : \/ handle[p].lock = i
                     \/ opening[p] = i /\ pc[p] = "load"

Goto(p, label) == pc' = [pc EXCEPT ![p] = label]

-----------------------------------------------------------------------------
(***************************************************************************)
(* Opening: Store::open_with_dir, from Database::create_table, which first *)
(* looks whether the directory exists, or Database::table, which opens the *)
(* table unless this process has it open.                                  *)
(***************************************************************************)

create_table(p) ==
    /\ pc[p] = "idle"
    /\ IF dir THEN UNCHANGED pc ELSE Goto(p, "mkdir")
    /\ UNCHANGED <<dir, entry, opening, handle, left, deletes, raced>>

table(p) ==
    /\ pc[p] = "idle"
    /\ IF IsOpen(p) THEN UNCHANGED pc ELSE Goto(p, "mkdir")
    /\ UNCHANGED <<dir, entry, opening, handle, left, deletes, raced>>

create_dir_all(p) ==
    /\ pc[p] = "mkdir"
    /\ dir' = TRUE
    /\ Goto(p, "lock_file")
    /\ UNCHANGED <<entry, opening, handle, left, deletes, raced>>

\* Fails if the directory is gone by now.
open_lock_file(p) ==
    /\ pc[p] = "lock_file"
    /\ \/ /\ dir
          /\ opening' = [opening EXCEPT ![p] = lock_file("LOCK")]
          /\ entry' = [entry EXCEPT !["LOCK"] = lock_file("LOCK")]
          /\ Goto(p, "flock")
       \/ /\ ~dir
          /\ Goto(p, "idle")
          /\ UNCHANGED <<entry, opening>>
    /\ UNCHANGED <<dir, handle, left, deletes, raced>>

\* A regression without LOCK_NB: the call waits for the lock.
flock_blocking(p) ==
    /\ pc[p] = "flock"
    /\ ~Locked(opening[p])
    /\ Goto(p, "load")
    /\ UNCHANGED <<dir, entry, opening, handle, left, deletes, raced>>

\* A regression in which the file is kept although the lock was not granted.
flock_keeps_file(p) ==
    /\ pc[p] = "flock"
    /\ Goto(p, IF Locked(opening[p]) THEN "idle" ELSE "load")
    /\ UNCHANGED <<dir, entry, opening, handle, left, deletes, raced>>

\* LOCK_EX | LOCK_NB: the table is already open, or it is now locked.
flock(p) ==
    /\ pc[p] = "flock"
    /\ \/ /\ Locked(opening[p])
          /\ opening' = [opening EXCEPT ![p] = NoFile]
          /\ Goto(p, "idle")
       \/ /\ ~Locked(opening[p])
          /\ Goto(p, "load")
          /\ UNCHANGED opening
    /\ UNCHANGED <<dir, entry, handle, left, deletes, raced>>

\* Wal::with_path makes the directory again, the SSTables and the log are read;
\* a log may hold something to replay.  A Store that this process still had for
\* the name is dropped by the insert.
load(p) ==
    /\ pc[p] = "load"
    /\ dir' = TRUE
    /\ \E replayed \in {FALSE, entry["wal.log"] # NoFile} :
           handle' = [handle EXCEPT ![p] = [lock |-> opening[p], log |-> NoFile,
                                            data |-> replayed]]
    /\ opening' = [opening EXCEPT ![p] = NoFile]
    /\ Goto(p, "idle")
    /\ UNCHANGED <<entry, left, deletes, raced>>

\* A file is rejected and the new Store is dropped.
load_fails(p) ==
    /\ pc[p] = "load"
    /\ dir' = TRUE
    /\ opening' = [opening EXCEPT ![p] = NoFile]
    /\ Goto(p, "idle")
    /\ UNCHANGED <<entry, handle, left, deletes, raced>>

-----------------------------------------------------------------------------
\* Using the open table.

\* Wal::writer: the first write opens the log by its name, later ones have it.
\* It fails if the directory is gone.
write(p) ==
    /\ pc[p] = "idle"
    /\ IsOpen(p)
    /\ handle[p].log # NoFile \/ dir
    /\ LET log == IF handle[p].log # NoFile THEN handle[p].log
                  ELSE open_or_create("wal.log")
       IN  /\ handle' = [handle EXCEPT ![p].log = log, ![p].data = TRUE]
           /\ entry' = IF handle[p].log # NoFile THEN entry
                       ELSE [entry EXCEPT !["wal.log"] = log]
    /\ UNCHANGED <<dir, pc, opening, left, deletes, raced>>

\* Store::flush of what was written or replayed: SsTable::flush makes the
\* directory if need be, Wal::clear drops the handle and truncates the log by
\* its name.
flush(p) ==
    /\ pc[p] = "idle"
    /\ handle[p].data
    /\ dir' = TRUE
    /\ handle' = [handle EXCEPT ![p].log = NoFile, ![p].data = FALSE]
    /\ entry' = [entry EXCEPT !["wal.log"] = open_or_create("wal.log")]
    /\ UNCHANGED <<pc, opening, left, deletes, raced>>

\* The Database is dropped.
close(p) ==
    /\ pc[p] = "idle"
    /\ IsOpen(p)
    /\ handle' = [handle EXCEPT ![p] = Closed]
    /\ UNCHANGED <<dir, entry, pc, opening, left, deletes, raced>>

\* The process is killed.  The system closes its files.
process_crash(p) ==
    /\ pc' = [pc EXCEPT ![p] = "idle"]
    /\ opening' = [opening EXCEPT ![p] = NoFile]
    /\ handle' = [handle EXCEPT ![p] = Closed]
    /\ left' = [left EXCEPT ![p] = {}]
    /\ UNCHANGED <<dir, entry, deletes, raced>>

-----------------------------------------------------------------------------
(***************************************************************************)
(* Deleting: the process drops its own Store, if it has one, and then      *)
(* removes the directory, without a lock.  remove_dir_all removes the      *)
(* files it finds, in any order, and then the directory, which fails if a  *)
(* new file has come in meanwhile.                                         *)
(***************************************************************************)

delete_table(p) ==
    /\ pc[p] = "idle"
    /\ \/ ~dir /\ UNCHANGED <<pc, handle, left, deletes>>
       \/ /\ dir
          /\ deletes < MaxDeletes
          /\ deletes' = deletes + 1
          /\ handle' = [handle EXCEPT ![p] = Closed]
          /\ left' = [left EXCEPT ![p] = {n \in Names : entry[n] # NoFile}]
          /\ Goto(p, "remove")
    /\ UNCHANGED <<dir, entry, opening, raced>>

\* Another process has the table, or will have it without looking again.
UsedByOthers(p) ==
    \E q \in Procs \ {p} : IsOpen(q) \/ pc[q] \in {"flock", "load"}

unlink(p) ==
    /\ pc[p] = "remove"
    /\ \E n \in left[p] :
           /\ entry' = [entry EXCEPT ![n] = NoFile]
           /\ left' = [left EXCEPT ![p] = @ \ {n}]
    /\ raced' = (raced \/ UsedByOthers(p))
    /\ UNCHANGED <<dir, pc, opening, handle, deletes>>

rmdir(p) ==
    /\ pc[p] = "remove"
    /\ left[p] = {}
    /\ dir' = (dir /\ \E n \in Names : entry[n] # NoFile)
    /\ Goto(p, "idle")
    /\ raced' = (raced \/ (UsedByOthers(p) /\ dir' # dir))
    /\ UNCHANGED <<entry, opening, handle, left, deletes>>

-----------------------------------------------------------------------------
\* The steps that carry a call of process p on.
Step(p) ==
    \/ create_dir_all(p) \/ open_lock_file(p) \/ flock(p)
    \/ load(p) \/ load_fails(p)
    \/ unlink(p) \/ rmdir(p)

Call(p) ==
    \/ create_table(p) \/ table(p) \/ delete_table(p)
    \/ write(p) \/ flush(p) \/ close(p)

Next == \E p \in Procs : Step(p) \/ Call(p) \/ process_crash(p)

\* A process that is inside a call goes on running.
Spec == Init /\ [][Next]_vars /\ \A p \in Procs : WF_vars(Step(p))

-----------------------------------------------------------------------------
\* Properties.

\* Every variable keeps its type, only an open table has a memtable and only
\* one that was written to has a handle of the log, and a process works on a
\* LOCK file exactly while its open is past that step.
TypeOK ==
    /\ dir \in BOOLEAN
    /\ entry \in [Names -> Inodes \cup {NoFile}]
    /\ pc \in [Procs -> {"idle", "mkdir", "lock_file", "flock", "load", "remove"}]
    /\ opening \in [Procs -> Inodes \cup {NoFile}]
    /\ handle \in [Procs -> [lock : Inodes \cup {NoFile},
                            log : Inodes \cup {NoFile}, data : BOOLEAN]]
    /\ left \in [Procs -> SUBSET Names]
    /\ deletes \in Nat
    /\ raced \in BOOLEAN
    /\ \A p \in Procs : /\ opening[p] # NoFile <=> pc[p] \in {"flock", "load"}
                        /\ handle[p].log # NoFile => handle[p].data
                        /\ handle[p].data => IsOpen(p)

\* README.md:102, "one writer at a time via an exclusive file lock held for the
\* lifetime of the `Store`": no two processes have the table open.
OneWriter ==
    \A p, q \in Procs : IsOpen(p) /\ IsOpen(q) => p = q

\* As long as delete_table never overlaps with another process's use of the
\* table there is one writer at a time: two processes that both find no
\* directory in create_table, an open that races with a delete's end, and
\* processes that die at any point included.
OneWriterUnlessRaced == raced \/ OneWriter

\* Under the same condition an open table's LOCK is the file that the next
\* open will try to lock, and its append handle leads to the wal.log that the
\* next open will replay: an acknowledged write is never in a removed file.
HandlesReachable ==
    \/ raced
    \/ \A p \in Procs :
           /\ IsOpen(p) => dir /\ entry["LOCK"] = handle[p].lock
           /\ handle[p].log # NoFile => entry["wal.log"] = handle[p].log

\* A call returns, or its process dies, whatever locks the others hold and
\* whatever they create or delete meanwhile: the lock is never waited for.
CallsNeverBlock == \A p \in Procs : pc[p] # "idle" ~> pc[p] = "idle"

=============================================================================
