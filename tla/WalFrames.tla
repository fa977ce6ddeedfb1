----------------------------- MODULE WalFrames -----------------------------
(***************************************************************************)
(* wal.log byte by byte: records framed by an 8-byte length (frame), their *)
(* protobuf encoding, and parse_buffer's way through a file in which a     *)
(* record may be cut off, at the end or in the middle.  Where Wal says     *)
(* that nothing behind a partial record is decoded, this module looks at   *)
(* the bytes.                                                              *)
(*                                                                         *)
(* All bytes that occur are below 48 (BytesAssumption), so that lengths    *)
(* and numbers are one byte each, every field number of a decoded tag is   *)
(* one that the messages declare or 0, and a length prefix read at a wrong *)
(* place is far from 2^64.                                                 *)
(***************************************************************************)
EXTENDS Naturals, Integers, Sequences, FiniteSets, SequencesExt

CONSTANTS
    Keys,          \* keys, as byte strings
    Values,        \* values, as byte strings
    None,          \* Option::None
    MaxSequence,   \* bound: sequence numbers issued
    MaxTears       \* bound: partial records left in the middle of the log

ByteLimit == 48

ASSUME BytesAssumption ==
    /\ Keys \cup Values \subseteq Seq(0..(ByteLimit - 1))
    /\ << >> \notin Keys
    /\ Values # {} /\ None \notin Values
    /\ \A k \in Keys, v \in Values : Len(k) + Len(v) + 10 < ByteLimit
    /\ MaxSequence \in 0..(ByteLimit - 1)

-----------------------------------------------------------------------------
\* Encoding.  Fields at their default are left out, and come in this order.

VarintField(num, n) == IF n = 0 THEN << >> ELSE <<8 * num, n>>
BytesField(num, b) == <<8 * num + 2, Len(b)>> \o b

OpCode(op) == CASE op = "put" -> 0 [] op = "delete" -> 1 [] op = "commit" -> 2

encode(e) ==
    VarintField(1, OpCode(e.op))
        \o (IF e.key = << >> THEN << >> ELSE BytesField(2, e.key))
        \o (IF e.value = None THEN << >> ELSE BytesField(3, BytesField(5, e.value)))
        \o VarintField(4, e.sequence)

PrefixLen == 8

frame(e) == <<0, 0, 0, 0, 0, 0, 0, Len(encode(e))>> \o encode(e)

put_entry(k, v, n) == [op |-> "put", key |-> k, value |-> v, sequence |-> n]
delete_entry(k, n) == [op |-> "delete", key |-> k, value |-> None, sequence |-> n]
commit_entry(n) == [op |-> "commit", key |-> << >>, value |-> None, sequence |-> n]

-----------------------------------------------------------------------------
\* Decoding.

\* The wire types of the fields of a WalEntry and of a ValueMessage.
EntryWires == <<0, 2, 2, 0, 0>>
ValueWires == <<0, 1, 2, 0, 2>>

\* s holds the fields of b read so far and the next position; one more field.
\* A tag of another wire type, or a field that does not end in b, is an error.
next_field(b, wires, s) ==
    LET num == b[s.at] \div 8
        wire == b[s.at] % 8
        rest == Len(b) - s.at
        size == CASE wire = 0 -> 1
                  [] wire = 1 -> 8
                  [] wire = 2 -> IF rest = 0 THEN 1 ELSE 1 + b[s.at + 1]
                  [] OTHER -> 0
    IN  IF num = 0 \/ wire # wires[num] \/ size > rest
          THEN [s EXCEPT !.ok = FALSE]
          ELSE [ok |-> TRUE, at |-> s.at + 1 + size,
                fields |-> Append(s.fields,
                    [num |-> num,
                     val |-> IF wire = 0 THEN b[s.at + 1]
                             ELSE SubSeq(b, s.at + 1 + (wire \div 2), s.at + size)])]

decode_fields(b, wires) ==
    FoldLeft(LAMBDA s, i : IF s.ok /\ s.at <= Len(b) THEN next_field(b, wires, s) ELSE s,
             [ok |-> TRUE, at |-> 1, fields |-> << >>],
             [i \in 1..Len(b) |-> i])

\* The last field with number num, or the default.
field(fields, num, default) ==
    LET i == SelectLastInSeq(fields, LAMBDA f : f.num = num)
    IN  IF i = 0 THEN default ELSE fields[i].val

\* The kind of a ValueMessage is the field that comes last.  Its data; None
\* stands for the other kinds and for a message without any.
decode_value(b) ==
    LET fs == decode_fields(b, ValueWires).fields
    IN  IF fs # << >> /\ Last(fs).num = 5 THEN Last(fs).val ELSE None

\* The bytes of the value of an entry: messages that occur twice are joined.
value_bytes(fields) ==
    FoldLeft(LAMBDA b, f : IF f.num = 3 THEN b \o f.val ELSE b, << >>, fields)

\* WalEntry::decode fails on these bytes.
undecodable(b) ==
    LET s == decode_fields(b, EntryWires)
        values == {f.val : f \in {g \in ToSet(s.fields) : g.num = 3}}
    IN  ~s.ok \/ \E v \in values : ~decode_fields(v, ValueWires).ok

\* Entry::operation() takes an unknown operation for the default one.
decode(b) ==
    LET fs == decode_fields(b, EntryWires).fields
        op == field(fs, 1, 0)
    IN  [op |-> CASE op = 1 -> "delete" [] op = 2 -> "commit" [] OTHER -> "put",
         key |-> field(fs, 2, << >>),
         value |-> decode_value(value_bytes(fs)),
         sequence |-> field(fs, 4, 0)]

-----------------------------------------------------------------------------
\* parse_buffer.

\* The length that the eight bytes behind offset announce, if it fits at all:
\* anything above 16 bits is longer than every file here.
announced(buffer, offset) ==
    IF \E i \in 1..6 : buffer[offset + i] # 0
      THEN 256 * 256
      ELSE 256 * buffer[offset + 7] + buffer[offset + 8]

\* A regression that takes a record at the very end of the log for incomplete.
ends_at_end(buffer, end) == end >= Len(buffer)

ends_behind(buffer, end) == end > Len(buffer)

\* A regression in which a record that is cut off makes the log unreadable.
give_up(s) == [s EXCEPT !.stop = TRUE, !.entries = << >>,
                        !.committed_count = 0, !.committed_end = 0]

truncated_tail(s) == [s EXCEPT !.stop = TRUE]

\* A regression in which the end of a COMMIT is taken before offset moves on.
end_before_payload(start, end) == start

end_of_commit(start, end) == end

\* The record that ends at end does not decode: a warning, and the loop goes on.
skip_record(s, end) ==
    [offset |-> end, entries |-> s.entries, committed_count |-> s.committed_count,
     committed_end |-> s.committed_end, stop |-> FALSE]

\* The record is the entry e.
push_entry(s, start, end, e) ==
    [offset |-> end,
     entries |-> Append(s.entries, e),
     committed_count |-> IF e.op = "commit" THEN Len(s.entries) + 1 ELSE s.committed_count,
     committed_end |-> IF e.op = "commit" THEN end_of_commit(start, end) ELSE s.committed_end,
     stop |-> FALSE]

\* One round of the loop.
parse_record(buffer, s) ==
    LET start == s.offset + PrefixLen
        end == start + announced(buffer, s.offset)
        bytes == SubSeq(buffer, start + 1, end)
    IN  IF ends_behind(buffer, start) \/ ends_behind(buffer, end) THEN truncated_tail(s)
        ELSE IF undecodable(bytes) THEN skip_record(s, end)
        ELSE push_entry(s, start, end, decode(bytes))

\* Every round takes at least a length prefix.
parse_buffer(buffer) ==
    FoldLeft(LAMBDA s, i : IF s.stop \/ s.offset >= Len(buffer) THEN s
                           ELSE parse_record(buffer, s),
             [offset |-> 0, entries |-> << >>, committed_count |-> 0,
              committed_end |-> 0, stop |-> FALSE],
             [i \in 1..(Len(buffer) \div PrefixLen + 1) |-> i])

-----------------------------------------------------------------------------
(***************************************************************************)
(* A log in use: writes append an entry and a COMMIT, an append may fail   *)
(* after some bytes and the session goes on, and the table is reopened     *)
(* with any part of the bytes that were not fsynced gone.                  *)
(***************************************************************************)

VARIABLES
    file,      \* the bytes of wal.log
    synced,    \* how many of them have been fsynced
    sequence,
    pc,        \* "idle", or "commit" between an entry and its COMMIT
    whole,     \* the entries written whole, each with the offset of its end
    tears      \* the offsets of the partial records that later writes follow

vars == <<file, synced, sequence, pc, whole, tears>>

Init ==
    /\ file = << >>
    /\ synced = 0
    /\ sequence = 0
    /\ pc = "idle"
    /\ whole = << >>
    /\ tears = {}

\* The entries that end in the first n bytes.
WholeUpTo(n) == SubSeq(whole, 1, SelectLastInSeq(whole, LAMBDA w : w.end <= n))

Written(e) ==
    /\ file' = file \o frame(e)
    /\ whole' = Append(whole, [entry |-> e, end |-> Len(file')])

\* write_all fails after n bytes.
Fails(e) ==
    /\ Cardinality(tears) < MaxTears
    /\ \E n \in 1..(Len(frame(e)) - 1) : file' = file \o SubSeq(frame(e), 1, n)
    /\ tears' = tears \cup {Len(file)}
    /\ pc' = "idle"
    /\ UNCHANGED <<synced, whole>>

Entries ==
    {put_entry(k, v, sequence + 1) : k \in Keys, v \in Values}
        \cup {delete_entry(k, sequence + 1) : k \in Keys}

append ==
    /\ pc = "idle"
    /\ sequence < MaxSequence
    /\ \E e \in Entries : Written(e)
    /\ sequence' = sequence + 1
    /\ pc' = "commit"
    /\ UNCHANGED <<synced, tears>>

append_fails ==
    /\ pc = "idle"
    /\ sequence < MaxSequence
    /\ \E e \in Entries : Fails(e)
    /\ sequence' = sequence + 1

write_commit ==
    /\ pc = "commit"
    /\ Written(commit_entry(sequence))
    /\ synced' = Len(file')
    /\ pc' = "idle"
    /\ UNCHANGED <<sequence, tears>>

write_commit_fails ==
    /\ pc = "commit"
    /\ Fails(commit_entry(sequence))
    /\ UNCHANGED sequence

\* The machine or the process dies, and the table is opened again: the file
\* is cut behind the last COMMIT that read_for_recovery decodes in it.
reopen ==
    /\ \E n \in synced..Len(file) :
           LET r == parse_buffer(SubSeq(file, 1, n))
               committed == SubSeq(r.entries, 1, r.committed_count)
           IN  /\ file' = SubSeq(file, 1, r.committed_end)
               /\ sequence' = Max({0} \cup {e.sequence : e \in ToSet(committed)})
    /\ synced' = Len(file')
    /\ whole' = WholeUpTo(Len(file'))
    /\ tears' = {t \in tears : t < Len(file')}
    /\ pc' = "idle"

Next == append \/ append_fails \/ write_commit \/ write_commit_fails \/ reopen

Spec == Init /\ [][Next]_vars

-----------------------------------------------------------------------------
\* Properties.

\* What the whole entries among the first n bytes should be parsed as.
Reference(n) ==
    LET ws == WholeUpTo(n)
        last == SelectLastInSeq(ws, LAMBDA w : w.entry.op = "commit")
    IN  [entries |-> [i \in 1..Len(ws) |-> ws[i].entry],
         committed_count |-> last,
         committed_end |-> IF last = 0 THEN 0 ELSE ws[last].end]

Parsed(n) ==
    LET r == parse_buffer(SubSeq(file, 1, n))
    IN  [entries |-> r.entries, committed_count |-> r.committed_count,
         committed_end |-> r.committed_end]

\* A log cut off at any byte whatever is parsed as the records that are whole,
\* and would be truncated just behind the last whole COMMIT: inside a length
\* prefix, inside a payload and at every boundary (wal.rs parse_buffer).  This
\* is what Wal takes for granted of the end of a log.
CutsAreClean == tears = {} => \A n \in 0..Len(file) : Parsed(n) = Reference(n)

FirstTear == Min({Len(file)} \cup tears)

\* Whatever is appended behind a partial record, and however parse_buffer
\* stumbles through it, all that was written before it is recovered first and
\* no COMMIT of that part is lost.
TearsSpareThePast ==
    LET past == Reference(FirstTear)
        now == Parsed(Len(file))
    IN  /\ IsPrefix(past.entries, now.entries)
        /\ now.committed_count >= past.committed_count
        /\ now.committed_end >= past.committed_end

\* Recovery can be repeated: the file it has truncated is parsed
\* as the same committed entries and is not truncated again, whatever garbage
\* lies between them.
TruncationIsStable ==
    LET r == Parsed(Len(file))
        again == Parsed(r.committed_end)
    IN  /\ again.entries = SubSeq(r.entries, 1, r.committed_count)
        /\ again.committed_count = r.committed_count
        /\ again.committed_end = r.committed_end

\* docs/wal.md:143, of records that do not decode: "This case should not happen
\* in practice because partial writes are caught by the length check above."
\* No part of a partial write comes back as a record: every value that
\* recovery brings back is one that was written.
PartialWritesCaught ==
    LET r == Parsed(Len(file))
    IN  \A e \in ToSet(SubSeq(r.entries, 1, r.committed_count)) :
            e.value # None => e.value \in Values

=============================================================================
