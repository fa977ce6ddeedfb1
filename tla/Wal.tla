-------------------------------- MODULE Wal --------------------------------
(***************************************************************************)
(* The write-ahead log of one table, as the sequence of records in         *)
(* wal.log.  A "torn" record is one whose bytes were only partly written;  *)
(* the length it announces is taken to reach past all that is appended     *)
(* after it, so that parse_buffer decodes nothing from there on.  (At the  *)
(* end of a log that is always so; WalFrames looks at the bytes of a       *)
(* partial record in the middle.)                                          *)
(***************************************************************************)
EXTENDS Lsm

NoKey == 0   \* the empty key of a COMMIT entry

Record ==
    [op : {"put", "delete", "commit", "torn"}, key : Keys \cup {NoKey},
     entry : Entry \cup {Absent}, sequence : Nat]

create_put_entry(k, v, n) ==
    [op |-> "put", key |-> k, entry |-> v, sequence |-> n]

create_delete_entry(k, n) ==
    [op |-> "delete", key |-> k, entry |-> Tombstone, sequence |-> n]

commit_entry(n) ==
    [op |-> "commit", key |-> NoKey, entry |-> Absent, sequence |-> n]

torn_record ==
    [op |-> "torn", key |-> NoKey, entry |-> Absent, sequence |-> 0]

\* The positions of the records of w with an operation in ops.
At(w, ops) == {i \in 1..Len(w) : w[i].op \in ops}

\* Number of records parse_buffer decodes before a truncated tail.
decoded(w) ==
    LET cuts == At(w, {"torn"})
    IN  IF cuts = {} THEN Len(w) ELSE Min(cuts) - 1

\* committed_count: the records up to and including the last COMMIT.
parse_buffer(w) ==
    LET n == decoded(w)
        commits == {i \in 1..n : w[i].op = "commit"}
    IN  IF commits = {} THEN 0 ELSE Max(commits)

\* A regression in which recovery leaves the uncommitted tail in the file.
keep_uncommitted_tail(w) == w

\* A regression in which the file is cut just before the last COMMIT.
drop_last_commit(w) ==
    SubSeq(w, 1, IF parse_buffer(w) = 0 THEN 0 ELSE parse_buffer(w) - 1)

\* The log recovery works on and leaves in the file.
read_for_recovery(w) == SubSeq(w, 1, parse_buffer(w))

\* The entry that the last put or delete of k among the first n records gives it.
LastEntry(w, n, k) ==
    LET writes == {i \in 1..n : w[i].op \in {"put", "delete"} /\ w[i].key = k}
    IN  IF writes = {} THEN Absent ELSE w[Max(writes)].entry

\* The memtable replay_wal rebuilds: batch after batch, the last write wins.
replay_wal(w) ==
    LET n == parse_buffer(w)
    IN  [k \in Keys |-> LastEntry(w, n, k)]

\* A regression in which the counter is taken from the oldest entry.
replay_first_sequence(w) ==
    IF parse_buffer(w) = 0 THEN 0 ELSE w[1].sequence

\* The sequence counter replay_wal restores: the highest one committed.
replay_sequence(w) ==
    LET n == parse_buffer(w)
    IN  Max({0} \cup {w[i].sequence : i \in 1..n})

=============================================================================
