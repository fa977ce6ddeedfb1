-------------------------- MODULE WalFramesProofs --------------------------
(***************************************************************************)
(* wal.log byte by byte, proved: an entry comes back from its bytes, a log *)
(* of frames that is cut anywhere is parsed as the frames that are left,   *)
(* what was written before a partial record is recovered whatever follows  *)
(* it, and recovery can be repeated.  All of it rests on one invariant     *)
(* (FramesInv): up to the first partial record the file is the frames of   *)
(* the entries written whole, one behind the other.                        *)
(***************************************************************************)
EXTENDS WalFrames, SetLemmas, SequenceTheorems

-----------------------------------------------------------------------------
\* The rounds of parse_buffer's loop, as a recursion over sets of round numbers.

Byte == 0..(ByteLimit - 1)

\* The last of the rounds 1..m.
LEMMA MaxOfInterval ==
    ASSUME NEW m \in Nat, m # 0
    PROVE  Max(1..m) = m
<1> DEFINE U == 1..m
<1>1. m \in U /\ \A x \in U : x \in Nat /\ x <= m
  OBVIOUS
<1> HIDE DEF U
<1>2. U \in SUBSET Nat /\ U # {}
  BY <1>1
<1>3. Max(U) \in U /\ \A y \in U : Max(U) >= y
  BY <1>1, <1>2, MaxOfBounded
<1> DEFINE z == Max(U)
<1> HIDE DEF z
<1>4. z \in Nat /\ z <= m /\ z >= m
  BY <1>1, <1>3 DEF z
<1>5. z = m
  BY <1>4
<1> QED BY <1>5 DEF z, U

\* One round of parse_buffer.
Round(buffer, s) == IF s.stop \/ s.offset >= Len(buffer) THEN s
                    ELSE parse_record(buffer, s)

Start == [offset |-> 0, entries |-> << >>, committed_count |-> 0,
          committed_end |-> 0, stop |-> FALSE]

Rounds(buffer) == Len(buffer) \div PrefixLen + 1

ParseFold(it, buffer) ==
    it = [s \in SUBSET (1..Rounds(buffer)) |->
             IF s = {} THEN Start ELSE Round(buffer, it[s \ {Max(s)}])]

\* parse_buffer is the recursion in which the last round is done last.
LEMMA ParseIsFold ==
    ASSUME NEW buffer \in Seq(Byte)
    PROVE  parse_buffer(buffer) = (CHOOSE it : ParseFold(it, buffer))[1..Rounds(buffer)]
<1>1. DOMAIN [i \in 1..(Len(buffer) \div PrefixLen + 1) |-> i] = 1..Rounds(buffer)
  BY DEF Rounds
<1> QED BY <1>1 DEF parse_buffer, FoldLeft, MapThenFoldSet, ParseFold, Round, Start

-----------------------------------------------------------------------------
\* What one round does to the state of the loop.

Records == {decode(b) : b \in Seq(Byte)}

ParseStates == [offset : Nat, entries : Seq(Records), committed_count : Nat,
                committed_end : Nat, stop : BOOLEAN]

\* The end of the record at s.offset, and the loop reads it.
End(buffer, s) == s.offset + PrefixLen + announced(buffer, s.offset)

Done(buffer, s) == s.stop \/ s.offset >= Len(buffer)

Advances(buffer, s) ==
    /\ ~Done(buffer, s)
    /\ s.offset + PrefixLen <= Len(buffer)
    /\ End(buffer, s) <= Len(buffer)

Payload(buffer, s) == SubSeq(buffer, s.offset + PrefixLen + 1, End(buffer, s))

\* What a record adds to the state.
Advanced(s, end, bytes) ==
    LET entries == IF undecodable(bytes) THEN s.entries
                   ELSE Append(s.entries, decode(bytes))
        commits == ~undecodable(bytes) /\ decode(bytes).op = "commit"
    IN  [offset |-> end,
         entries |-> entries,
         committed_count |-> IF commits THEN Len(entries) ELSE s.committed_count,
         committed_end |-> IF commits THEN end ELSE s.committed_end,
         stop |-> FALSE]

\* The numbers behind the names.
LEMMA BytesAre == ByteLimit = 48 /\ PrefixLen = 8 /\ Byte = 0..47
BY DEF Byte, ByteLimit, PrefixLen

\* A length prefix that is inside the buffer announces a number.
LEMMA AnnouncedType ==
    ASSUME NEW buffer \in Seq(Byte), NEW o \in Nat, o + PrefixLen <= Len(buffer)
    PROVE  announced(buffer, o) \in Nat
<1>1. o + 7 \in 1..Len(buffer) /\ o + 8 \in 1..Len(buffer)
  BY BytesAre
<1>2. buffer[o + 7] \in Byte /\ buffer[o + 8] \in Byte
  BY <1>1
<1>3. buffer[o + 7] \in Nat /\ buffer[o + 8] \in Nat
  BY <1>2 DEF Byte
<1> QED BY <1>3 DEF announced

\* Bytes a + 1 to e of a buffer.
LEMMA PayloadType ==
    ASSUME NEW buffer \in Seq(Byte), NEW a \in Nat, NEW e \in Nat, e <= Len(buffer)
    PROVE  /\ SubSeq(buffer, a + 1, e) \in Seq(Byte)
           /\ Len(SubSeq(buffer, a + 1, e)) = IF a < e THEN e - a ELSE 0
           /\ \A i \in 1..(e - a) : SubSeq(buffer, a + 1, e)[i] = buffer[a + i]
<1>1. \A i \in (a + 1)..e : buffer[i] \in Byte
  OBVIOUS
<1>2. a + 1 \in Int /\ e \in Int
  OBVIOUS
<1>3. /\ SubSeq(buffer, a + 1, e) \in Seq(Byte)
      /\ Len(SubSeq(buffer, a + 1, e)) = IF a + 1 <= e THEN e - (a + 1) + 1 ELSE 0
      /\ \A i \in 1..(e - (a + 1) + 1) : SubSeq(buffer, a + 1, e)[i] = buffer[(a + 1) + i - 1]
  BY <1>1, <1>2, SubSeqProperties
<1>4. (a + 1 <= e <=> a < e) /\ e - (a + 1) + 1 = e - a
  OBVIOUS
<1>5. \A i \in 1..(e - a) : (a + 1) + i - 1 = a + i
  OBVIOUS
<1> QED BY <1>3, <1>4, <1>5

\* A round without its LETs: done, a record, or a truncated tail.
LEMMA RoundIs ==
    ASSUME NEW buffer \in Seq(Byte), NEW s \in ParseStates
    PROVE  Round(buffer, s) = IF Done(buffer, s) THEN s
                              ELSE IF Advances(buffer, s)
                                THEN Advanced(s, End(buffer, s), Payload(buffer, s))
                                ELSE [s EXCEPT !.stop = TRUE]
<1> DEFINE start == s.offset + PrefixLen
<1>1. Len(buffer) \in Nat /\ s.offset \in Nat /\ start \in Nat
  BY BytesAre DEF ParseStates
<1>2. ends_behind(buffer, start) <=> ~(start <= Len(buffer))
  BY <1>1 DEF ends_behind
<1>3. CASE Done(buffer, s)
  BY <1>3 DEF Done, Round
<1>4. CASE ~Done(buffer, s) /\ ends_behind(buffer, start)
  BY <1>2, <1>4 DEF Done, Round, parse_record, Advances, truncated_tail
<1>5. CASE ~Done(buffer, s) /\ ~ends_behind(buffer, start)
  <2>1. announced(buffer, s.offset) \in Nat
    BY <1>1, <1>2, <1>5, AnnouncedType
  <2>2. End(buffer, s) \in Nat
    BY <1>1, <2>1 DEF End
  <2>3. ends_behind(buffer, End(buffer, s)) <=> ~(End(buffer, s) <= Len(buffer))
    BY <1>1, <2>2 DEF ends_behind
  <2>4. CASE ends_behind(buffer, End(buffer, s))
    BY <1>5, <2>3, <2>4 DEF Done, Round, parse_record, Advances, truncated_tail, End
  <2>5. CASE ~ends_behind(buffer, End(buffer, s))
    <3> DEFINE bytes == Payload(buffer, s)
    <3>1. Round(buffer, s) = IF undecodable(bytes) THEN skip_record(s, End(buffer, s))
                             ELSE push_entry(s, start, End(buffer, s), decode(bytes))
      BY <1>5, <2>5 DEF Done, Round, parse_record, End, Payload
    <3>2. Advances(buffer, s)
      BY <1>2, <1>5, <2>3, <2>5 DEF Advances
    <3>3. Len(Append(s.entries, decode(bytes))) = Len(s.entries) + 1
      BY DEF ParseStates, Records
    <3> HIDE DEF bytes
    <3>4. CASE undecodable(bytes)
      <4>1. skip_record(s, End(buffer, s)) = Advanced(s, End(buffer, s), bytes)
        BY <3>4 DEF skip_record, Advanced
      <4> QED BY <1>5, <3>1, <3>2, <3>4, <4>1 DEF bytes
    <3>5. CASE ~undecodable(bytes)
      <4>1. push_entry(s, start, End(buffer, s), decode(bytes))
              = Advanced(s, End(buffer, s), bytes)
        BY <3>3, <3>5 DEF push_entry, end_of_commit, Advanced
      <4> QED BY <1>5, <3>1, <3>2, <3>5, <4>1 DEF bytes
    <3> QED BY <3>4, <3>5
  <2> QED BY <2>4, <2>5
<1> QED BY <1>3, <1>4, <1>5

\* What one round does to the state.
Step(s, t) ==
    /\ t \in ParseStates
    /\ t.offset >= s.offset + PrefixLen /\ ~t.stop
    /\ t.entries = s.entries \/ \E x \in Records : t.entries = Append(s.entries, x)
    /\ \/ t.committed_count = s.committed_count /\ t.committed_end = s.committed_end
       \/ t.committed_count = Len(t.entries) /\ t.committed_end = t.offset

\* The fields of a state of the loop.
LEMMA StateFields ==
    ASSUME NEW s \in ParseStates
    PROVE  /\ s = [offset |-> s.offset, entries |-> s.entries,
                   committed_count |-> s.committed_count,
                   committed_end |-> s.committed_end, stop |-> s.stop]
           /\ s.offset \in Nat /\ s.entries \in Seq(Records) /\ s.committed_count \in Nat
           /\ s.committed_end \in Nat /\ s.stop \in BOOLEAN
<1> DEFINE B == Seq(Records)
<1>1. s \in [offset : Nat, entries : B, committed_count : Nat, committed_end : Nat,
             stop : BOOLEAN]
  BY DEF ParseStates
<1> HIDE DEF B
<1>2. s.offset \in Nat /\ s.entries \in B /\ s.committed_count \in Nat
      /\ s.committed_end \in Nat /\ s.stop \in BOOLEAN
  BY <1>1
<1>3. s = [offset |-> s.offset, entries |-> s.entries, committed_count |-> s.committed_count,
           committed_end |-> s.committed_end, stop |-> s.stop]
  BY <1>1
<1> QED BY <1>2, <1>3 DEF B

\* A state with its stop flag set.
LEMMA StateStop ==
    ASSUME NEW s \in ParseStates, NEW e
    PROVE  [s EXCEPT !.stop = e] =
                 [offset |-> s.offset, entries |-> s.entries,
                  committed_count |-> s.committed_count,
                  committed_end |-> s.committed_end, stop |-> e]
<1> DEFINE B == Seq(Records)
<1>1. s \in [offset : Nat, entries : B, committed_count : Nat, committed_end : Nat,
             stop : BOOLEAN]
  BY DEF ParseStates
<1> HIDE DEF B
<1> QED BY <1>1

\* A record that is inside the buffer is a step.
LEMMA AdvancedStep ==
    ASSUME NEW s \in ParseStates, ~s.stop, NEW e \in Nat, e >= s.offset + PrefixLen,
           NEW bytes \in Seq(Byte)
    PROVE  Step(s, Advanced(s, e, bytes)) /\ Advanced(s, e, bytes).offset = e
<1> DEFINE x == decode(bytes)
           es == IF undecodable(bytes) THEN s.entries ELSE Append(s.entries, x)
           commits == ~undecodable(bytes) /\ x.op = "commit"
           c == IF commits THEN Len(es) ELSE s.committed_count
           d == IF commits THEN e ELSE s.committed_end
           t == Advanced(s, e, bytes)
<1>1. x \in Records
  BY DEF Records
<1>2. t = [offset |-> e, entries |-> es, committed_count |-> c,
           committed_end |-> d, stop |-> FALSE]
  BY DEF Advanced
<1> HIDE DEF x, t
<1>3. s.entries \in Seq(Records) /\ s.committed_count \in Nat /\ s.committed_end \in Nat
  BY StateFields
<1>4. es \in Seq(Records) /\ Len(es) \in Nat
  BY <1>1, <1>3
<1>5. es = s.entries \/ \E y \in Records : es = Append(s.entries, y)
  BY <1>1
<1> HIDE DEF es
<1>6. c \in Nat /\ d \in Nat
  BY <1>3, <1>4
<1>7. (c = s.committed_count /\ d = s.committed_end) \/ (c = Len(es) /\ d = e)
  OBVIOUS
<1> HIDE DEF c, d
<1>8. t \in ParseStates
  BY <1>2, <1>4, <1>6 DEF ParseStates
<1>9. t.offset = e /\ t.entries = es /\ t.committed_count = c /\ t.committed_end = d /\ ~t.stop
  BY <1>2
<1> QED BY <1>5, <1>7, <1>8, <1>9 DEF Step, t

\* A round reads a record, or leaves a state in which nothing more is read.
LEMMA RoundSteps ==
    ASSUME NEW buffer \in Seq(Byte), NEW s \in ParseStates
    PROVE  /\ Round(buffer, s) \in ParseStates
           /\ Advances(buffer, s) =>
                 /\ End(buffer, s) \in Nat /\ Payload(buffer, s) \in Seq(Byte)
                 /\ End(buffer, s) >= s.offset + PrefixLen
                 /\ Round(buffer, s) = Advanced(s, End(buffer, s), Payload(buffer, s))
                 /\ Step(s, Round(buffer, s)) /\ Round(buffer, s).offset = End(buffer, s)
           /\ ~Advances(buffer, s) =>
                 /\ Done(buffer, Round(buffer, s))
                 /\ Round(buffer, s) = [s EXCEPT !.stop = Round(buffer, s).stop]
<1>1. /\ s.offset \in Nat /\ s.stop \in BOOLEAN /\ Len(buffer) \in Nat
      /\ s = [s EXCEPT !.stop = s.stop]
  BY StateFields, StateStop
<1> DEFINE u == [s EXCEPT !.stop = TRUE]
<1>0. u \in ParseStates /\ u.stop = TRUE
  <2>1. u = [offset |-> s.offset, entries |-> s.entries, committed_count |-> s.committed_count,
             committed_end |-> s.committed_end, stop |-> TRUE]
    BY StateStop
  <2> HIDE DEF u
  <2> QED BY <2>1, StateFields DEF ParseStates
<1>2. CASE Advances(buffer, s)
  <2>1. announced(buffer, s.offset) \in Nat
    BY <1>1, <1>2, AnnouncedType DEF Advances
  <2>2. End(buffer, s) \in Nat /\ End(buffer, s) >= s.offset + PrefixLen
    BY <1>1, <2>1, BytesAre DEF End
  <2>3. Payload(buffer, s) \in Seq(Byte)
    <3>1. End(buffer, s) <= Len(buffer) /\ s.offset + PrefixLen \in Nat
      BY <1>1, <1>2, BytesAre DEF Advances
    <3> QED BY <2>2, <3>1, PayloadType DEF Payload
  <2>4. Round(buffer, s) = Advanced(s, End(buffer, s), Payload(buffer, s))
    BY <1>2, RoundIs DEF Advances
  <2>5. ~s.stop
    BY <1>2 DEF Advances, Done
  <2>6. Step(s, Round(buffer, s)) /\ Round(buffer, s).offset = End(buffer, s)
    BY <2>2, <2>3, <2>4, <2>5, AdvancedStep
  <2> QED BY <1>2, <2>2, <2>3, <2>4, <2>6 DEF Step
<1>3. CASE Done(buffer, s)
  BY <1>1, <1>3, RoundIs DEF Advances
<1>4. CASE ~Advances(buffer, s) /\ ~Done(buffer, s)
  <2>1. Round(buffer, s) = [s EXCEPT !.stop = TRUE]
    BY <1>4, RoundIs
  <2>2. Round(buffer, s).stop = TRUE
    BY <1>0, <2>1
  <2> QED BY <1>0, <1>4, <2>1, <2>2 DEF Done
<1> QED BY <1>2, <1>3, <1>4

-----------------------------------------------------------------------------
\* The states that parse_buffer goes through.

\* The states that parse_buffer goes through.
IsParse(st, buffer) ==
    /\ st \in [0..Rounds(buffer) -> ParseStates]
    /\ st[0] = Start
    /\ \A j \in 1..Rounds(buffer) : st[j] = Round(buffer, st[j - 1])
    /\ parse_buffer(buffer) = st[Rounds(buffer)]

\* There are more rounds than length prefixes that fit into the buffer.
LEMMA RoundsAre ==
    ASSUME NEW buffer \in Seq(Byte)
    PROVE  /\ Rounds(buffer) \in Nat /\ Rounds(buffer) >= 1
           /\ 8 * Rounds(buffer) > Len(buffer) /\ 8 * (Rounds(buffer) - 1) <= Len(buffer)
<1> DEFINE n == Len(buffer)
           q == n \div 8
<1>1. n \in Nat
  OBVIOUS
<1> HIDE DEF n
<1>2. q \in Nat /\ 8 * q <= n /\ n < 8 * q + 8
  BY <1>1
<1>3. Rounds(buffer) = q + 1
  BY BytesAre DEF Rounds, n
<1> HIDE DEF q
<1>4. q + 1 \in Nat /\ q + 1 >= 1 /\ 8 * (q + 1) > n /\ 8 * ((q + 1) - 1) <= n
  BY <1>1, <1>2
<1> QED BY <1>3, <1>4 DEF n

\* The state before the first round.
LEMMA StartType == Start \in ParseStates
<1>1. << >> \in Seq(Records)
  OBVIOUS
<1> QED BY <1>1 DEF Start, ParseStates

\* The recursion over sets of rounds has a solution.
LEMMA ParseFoldExists ==
    ASSUME NEW buffer \in Seq(Byte)
    PROVE  \E it : ParseFold(it, buffer)
<1> DEFINE S == 1..Rounds(buffer)
           D == ParseStates
           pick == [s \in SUBSET S |-> Max(s)]
           step == [p \in S \X D |-> Round(buffer, p[2])]
<1>1. IsFiniteSet(S)
  BY RoundsAre, FS_Interval
<1>2. ASSUME NEW s \in SUBSET S, s # {}
      PROVE  Max(s) \in s
  <2>1. s \in SUBSET Nat /\ \A x \in s : x <= Rounds(buffer)
    BY RoundsAre
  <2> QED BY <1>2, <2>1, RoundsAre, MaxOfBounded
<1>3. \A s \in SUBSET S : s # {} => pick[s] \in s
  BY <1>2
<1>4. step \in [S \X D -> D]
  <2>1. \A p \in S \X D : Round(buffer, p[2]) \in D
    BY RoundSteps
  <2> HIDE DEF D, S
  <2> QED BY <2>1
<1>5. Start \in D
  BY StartType
<1>6. PICK it \in [SUBSET S -> D] : IsFold(it, SUBSET S, Start, pick, step)
  <2> HIDE DEF S, D, pick, step
  <2> QED BY <1>1, <1>3, <1>4, <1>5, FoldExists
<1>7. ASSUME NEW s \in SUBSET S
      PROVE  it[s] = IF s = {} THEN Start ELSE Round(buffer, it[s \ {Max(s)}])
  <2>1. CASE s = {}
    BY <1>6, <2>1 DEF IsFold
  <2>2. CASE s # {}
    <3>1. it[s] = step[<<pick[s], it[s \ {pick[s]}]>>]
      <4> HIDE DEF pick, step, S, D
      <4> QED BY <1>6, <2>2 DEF IsFold
    <3>2. pick[s] = Max(s) /\ Max(s) \in S /\ s \ {Max(s)} \in SUBSET S
      BY <1>2, <2>2
    <3>3. it[s \ {Max(s)}] \in D
      <4> HIDE DEF D, S
      <4> QED BY <1>6, <3>2
    <3>4. <<Max(s), it[s \ {Max(s)}]>> \in S \X D
      <4> HIDE DEF D, S
      <4> QED BY <3>2, <3>3
    <3> HIDE DEF D, S, pick
    <3> QED BY <2>2, <3>1, <3>2, <3>4
  <2> QED BY <2>1, <2>2
<1>8. it = [s \in SUBSET S |-> IF s = {} THEN Start ELSE Round(buffer, it[s \ {Max(s)}])]
  <2> HIDE DEF D, S
  <2> QED BY <1>6, <1>7
<1>9. ParseFold(it, buffer)
  BY <1>8 DEF ParseFold
<1> QED BY <1>9

\* There is a sequence of states for every buffer.
LEMMA ParseExists ==
    ASSUME NEW buffer \in Seq(Byte)
    PROVE  \E st : IsParse(st, buffer)
<1> DEFINE n == Rounds(buffer)
           it == CHOOSE x : ParseFold(x, buffer)
           st == [j \in 0..n |-> it[1..j]]
<1>1. n \in Nat /\ n >= 1
  BY RoundsAre
<1>2. ParseFold(it, buffer)
  BY ParseFoldExists
<1> HIDE DEF n, it
<1>3. \A s \in SUBSET (1..n) :
          it[s] = IF s = {} THEN Start ELSE Round(buffer, it[s \ {Max(s)}])
  BY <1>2 DEF ParseFold, n
<1>4. it[1..0] = Start
  <2>1. 1..0 = {}
    OBVIOUS
  <2> QED BY <1>3, <2>1
<1>5. ASSUME NEW j \in 1..n
      PROVE  it[1..j] = Round(buffer, it[1..(j - 1)])
  <2>1. 1..j \in SUBSET (1..n) /\ 1..j # {} /\ (1..j) \ {j} = 1..(j - 1)
    BY <1>1
  <2>2. Max(1..j) = j
    BY <1>1, MaxOfInterval
  <2> QED BY <1>3, <2>1, <2>2
<1>6. st[0] = Start /\ st[n] = it[1..n]
  BY <1>1, <1>4
<1>7. \A j \in 1..n : st[j] = Round(buffer, st[j - 1])
  BY <1>1, <1>5
<1>8. st \in [0..n -> ParseStates]
  <2> DEFINE Bad == {j \in 0..n : st[j] \notin ParseStates}
  <2>1. SUFFICES ASSUME Bad # {} PROVE FALSE
    <3> HIDE DEF st
    <3>1. DOMAIN st = 0..n /\ st = [j \in 0..n |-> st[j]]
      BY DEF st
    <3> QED BY <3>1
  <2>2. Bad \in SUBSET Nat
    BY <1>1
  <2>3. PICK m \in Bad : \A l \in Bad : m <= l
    <3> HIDE DEF Bad
    <3> QED BY <2>1, <2>2, NatMin
  <2> HIDE DEF st
  <2>4. m # 0
    BY <1>6, <2>3, StartType
  <2>5. m \in 1..n /\ m - 1 \in 0..n /\ m - 1 < m
    BY <1>1, <2>3, <2>4
  <2>6. m - 1 \notin Bad
    <3>1. m \in Nat
      BY <2>2, <2>3
    <3> HIDE DEF Bad
    <3> QED BY <2>3, <2>5, <3>1
  <2>7. st[m - 1] \in ParseStates
    BY <2>5, <2>6
  <2>8. st[m] \in ParseStates
    BY <1>7, <2>5, <2>7, RoundSteps
  <2> QED BY <2>3, <2>8
<1>9. parse_buffer(buffer) = st[n]
  BY <1>6, ParseIsFold DEF n, it
<1> HIDE DEF st
<1>10. IsParse(st, buffer)
  BY <1>6, <1>7, <1>8, <1>9 DEF IsParse, n
<1> QED BY <1>10

-----------------------------------------------------------------------------
\* Records are read round by round, until the loop is done.

\* The first m rounds all read a record.
ReadsAll(st, buffer, m) == \A i \in 1..m : Advances(buffer, st[i - 1])

\* Until it is done, parse_buffer reads a record in every round.
LEMMA ReadsOrDone ==
    ASSUME NEW buffer \in Seq(Byte), NEW st, IsParse(st, buffer),
           NEW j \in 0..Rounds(buffer)
    PROVE  \/ ReadsAll(st, buffer, j) /\ 8 * j <= st[j].offset /\ ~st[j].stop
           \/ Done(buffer, st[j])
<1> DEFINE n == Rounds(buffer)
           P(l) == \/ ReadsAll(st, buffer, l) /\ 8 * l <= st[l].offset /\ ~st[l].stop
                   \/ Done(buffer, st[l])
           Bad == {l \in 0..n : ~P(l)}
<1>1. n \in Nat
  BY RoundsAre
<1>2. st[0] = Start /\ \A l \in 1..n : st[l] = Round(buffer, st[l - 1])
  BY DEF IsParse
<1>3. \A l \in 0..n : st[l] \in ParseStates
  BY DEF IsParse
<1>4. \A l \in 0..n : st[l].offset \in Nat /\ st[l].stop \in BOOLEAN
  BY <1>3, StateFields
<1> HIDE DEF n
<1>5. SUFFICES ASSUME Bad # {} PROVE FALSE
  BY DEF n
<1>6. PICK m \in Bad : \A l \in Bad : m <= l
  <2>1. Bad \in SUBSET Nat
    BY <1>1
  <2> HIDE DEF Bad
  <2> QED BY <1>5, <2>1, NatMin
<1>7. m \in 0..n /\ ~P(m)
  BY <1>6
<1>8. m # 0
  <2>1. ASSUME m = 0 PROVE FALSE
    <3>1. st[0].offset = 0 /\ ~st[0].stop
      BY <1>2 DEF Start
    <3>2. ReadsAll(st, buffer, 0)
      BY DEF ReadsAll
    <3> QED BY <1>7, <2>1, <3>1, <3>2
  <2> QED BY <2>1
<1>9. m \in 1..n /\ m - 1 \in 0..n /\ m \in Nat
  BY <1>1, <1>7, <1>8
<1>10. P(m - 1)
  <2>1. m - 1 \notin Bad
    <3> HIDE DEF Bad
    <3> QED BY <1>6, <1>9
  <2> QED BY <1>9, <2>1
<1>11. CASE Advances(buffer, st[m - 1])
  <2>1. ~Done(buffer, st[m - 1])
    BY <1>11 DEF Advances
  <2>2. ReadsAll(st, buffer, m - 1) /\ 8 * (m - 1) <= st[m - 1].offset
    BY <1>10, <2>1
  <2>3. ReadsAll(st, buffer, m)
    <3>1. \A i \in 1..m : i \in 1..(m - 1) \/ i = m
      BY <1>9
    <3> QED BY <1>11, <2>2, <3>1 DEF ReadsAll
  <2>4. st[m].offset >= st[m - 1].offset + 8 /\ ~st[m].stop
    BY <1>2, <1>3, <1>9, <1>11, RoundSteps, BytesAre DEF Step
  <2>5. 8 * m <= st[m].offset
    BY <1>4, <1>9, <2>2, <2>4
  <2> QED BY <1>7, <2>3, <2>4, <2>5
<1>12. CASE ~Advances(buffer, st[m - 1])
  BY <1>2, <1>3, <1>7, <1>9, <1>12, RoundSteps
<1> QED BY <1>11, <1>12

\* The bounds on the number of rounds are no bounds.
LEMMA DoneStays ==
    ASSUME NEW buffer \in Seq(Byte), NEW st, IsParse(st, buffer),
           NEW m \in 0..Rounds(buffer), Done(buffer, st[m])
    PROVE  parse_buffer(buffer) = st[m]
<1> DEFINE n == Rounds(buffer)
           Bad == {l \in 0..n : l >= m /\ st[l] # st[m]}
<1>1. n \in Nat
  BY RoundsAre
<1>2. \A l \in 1..n : st[l] = Round(buffer, st[l - 1])
  BY DEF IsParse
<1> HIDE DEF n
<1>3. ASSUME Bad # {} PROVE FALSE
  <2>1. PICK l \in Bad : \A k \in Bad : l <= k
    <3>1. Bad \in SUBSET Nat
      BY <1>1
    <3> HIDE DEF Bad
    <3> QED BY <1>3, <3>1, NatMin
  <2>2. l \in 0..n /\ l >= m /\ st[l] # st[m] /\ l # m /\ m \in 0..n
    BY <2>1 DEF n
  <2>3. l \in 1..n /\ l - 1 \in 0..n /\ l - 1 >= m /\ l \in Nat
    BY <1>1, <2>2
  <2>4. st[l - 1] = st[m]
    <3>1. l - 1 \notin Bad
      <4> HIDE DEF Bad
      <4> QED BY <2>1, <2>3
    <3> QED BY <2>3, <3>1
  <2>5. st[l] = st[m]
    BY <1>2, <2>3, <2>4 DEF Round, Done
  <2> QED BY <2>2, <2>5
<1>4. st[n] = st[m]
  <2>1. n \in 0..n /\ n >= m
    BY <1>1 DEF n
  <2> QED BY <1>3, <2>1
<1> QED BY <1>4 DEF IsParse, n

\* The bound on the rounds never cuts the loop short.
LEMMA ParseEndsDone ==
    ASSUME NEW buffer \in Seq(Byte), NEW st, IsParse(st, buffer)
    PROVE  Done(buffer, st[Rounds(buffer)])
<1> DEFINE n == Rounds(buffer)
<1>1. n \in Nat /\ 8 * n > Len(buffer) /\ n \in 0..n /\ Len(buffer) \in Nat
  BY RoundsAre
<1>2. st[n] \in ParseStates
  BY <1>1 DEF IsParse
<1>3. st[n].offset \in Nat
  BY <1>2, StateFields
<1>4. Done(buffer, st[n]) \/ 8 * n <= st[n].offset
  BY <1>1, ReadsOrDone
<1> HIDE DEF n
<1>5. Done(buffer, st[n])
  BY <1>1, <1>3, <1>4 DEF Done
<1> QED BY <1>5 DEF n

\* What a later state keeps of an earlier one.
Grows(s, t) ==
    /\ s.offset <= t.offset
    /\ Len(s.entries) <= Len(t.entries)
    /\ \A i \in 1..Len(s.entries) : t.entries[i] = s.entries[i]
    /\ s.committed_count <= t.committed_count
    /\ s.committed_end <= t.committed_end

Sound(s) == s.committed_count <= Len(s.entries) /\ s.committed_end <= s.offset

\* A round only adds to the state.
LEMMA RoundGrows ==
    ASSUME NEW buffer \in Seq(Byte), NEW s \in ParseStates, Sound(s)
    PROVE  Grows(s, Round(buffer, s)) /\ Sound(Round(buffer, s))
<1> DEFINE t == Round(buffer, s)
           n == Len(s.entries)
<1>1. /\ s.offset \in Nat /\ s.entries \in Seq(Records) /\ s.committed_count \in Nat
      /\ s.committed_end \in Nat /\ n \in Nat
  BY StateFields
<1>2. CASE Advances(buffer, s)
  <2>1. Step(s, t)
    BY <1>2, RoundSteps
  <2> HIDE DEF t
  <2>2. t \in ParseStates
    BY <2>1 DEF Step
  <2>3. t.offset \in Nat /\ t.entries \in Seq(Records) /\ Len(t.entries) \in Nat
    BY <2>2, StateFields
  <2>4. n <= Len(t.entries) /\ \A i \in 1..n : t.entries[i] = s.entries[i]
    <3>1. CASE t.entries = s.entries
      BY <1>1, <3>1
    <3>2. CASE t.entries # s.entries
      <4>1. PICK x \in Records : t.entries = Append(s.entries, x)
        BY <2>1, <3>2 DEF Step
      <4>2. Len(t.entries) = n + 1 /\ \A i \in 1..n : t.entries[i] = s.entries[i]
        BY <1>1, <4>1
      <4> QED BY <1>1, <4>2
    <3> QED BY <3>1, <3>2
  <2>5. t.offset >= s.offset
    BY <1>1, <2>1, <2>3, BytesAre DEF Step
  <2>6. \/ t.committed_count = s.committed_count /\ t.committed_end = s.committed_end
        \/ t.committed_count = Len(t.entries) /\ t.committed_end = t.offset
    BY <2>1 DEF Step
  <2> DEFINE tn == Len(t.entries)
  <2>7. /\ tn \in Nat /\ n <= tn
        /\ t.committed_count = s.committed_count \/ t.committed_count = tn
    BY <2>3, <2>4, <2>6
  <2>8. s.committed_count <= n /\ s.committed_end <= s.offset
    BY DEF Sound
  <2>9. s.committed_count <= t.committed_count /\ t.committed_count <= tn
    <3> HIDE DEF tn, n
    <3> QED BY <1>1, <2>7, <2>8
  <2>10. s.committed_end <= t.committed_end /\ t.committed_end <= t.offset
    BY <1>1, <2>3, <2>5, <2>6, <2>8
  <2>11. s.offset <= t.offset
    BY <1>1, <2>3, <2>5
  <2>12. Grows(s, t) /\ Sound(t)
    BY <2>4, <2>9, <2>10, <2>11 DEF Grows, Sound
  <2> QED BY <2>12 DEF t
<1>3. CASE ~Advances(buffer, s)
  <2>1. t = [s EXCEPT !.stop = t.stop]
    BY <1>3, RoundSteps
  <2>2. /\ t.offset = s.offset /\ t.entries = s.entries
        /\ t.committed_count = s.committed_count /\ t.committed_end = s.committed_end
    <3> DEFINE b == t.stop
    <3> HIDE DEF t, b
    <3>1. t = [s EXCEPT !.stop = b]
      BY <2>1 DEF b
    <3> QED BY <3>1, StateStop
  <2> HIDE DEF t
  <2>3. Grows(s, t) /\ Sound(t)
    BY <1>1, <2>2 DEF Grows, Sound
  <2> QED BY <2>3 DEF t
<1> QED BY <1>2, <1>3

-----------------------------------------------------------------------------
\* The state only grows, and depends on the bytes read so far alone.

\* Growing twice is growing.
LEMMA GrowsTransitive ==
    ASSUME NEW s \in ParseStates, NEW t \in ParseStates, NEW u \in ParseStates,
           Grows(s, t), Grows(t, u)
    PROVE  Grows(s, u)
<1> DEFINE a == Len(s.entries)
           b == Len(t.entries)
           c == Len(u.entries)
<1>1. /\ s.offset \in Nat /\ s.committed_count \in Nat /\ s.committed_end \in Nat
      /\ t.offset \in Nat /\ t.committed_count \in Nat /\ t.committed_end \in Nat
      /\ u.offset \in Nat /\ u.committed_count \in Nat /\ u.committed_end \in Nat
      /\ a \in Nat /\ b \in Nat /\ c \in Nat
  BY StateFields
<1>2. a <= b /\ b <= c
  BY DEF Grows
<1>3. /\ \A i \in 1..a : t.entries[i] = s.entries[i]
      /\ \A i \in 1..b : u.entries[i] = t.entries[i]
  BY DEF Grows
<1>4. a <= c /\ \A i \in 1..a : u.entries[i] = s.entries[i]
  <2> HIDE DEF a, b, c
  <2> QED BY <1>1, <1>2, <1>3
<1>5. /\ s.offset <= u.offset /\ s.committed_count <= u.committed_count
      /\ s.committed_end <= u.committed_end
  BY <1>1 DEF Grows
<1> QED BY <1>4, <1>5 DEF Grows

\* The commit position is never ahead of what has been read.
LEMMA StatesSound ==
    ASSUME NEW buffer \in Seq(Byte), NEW st, IsParse(st, buffer),
           NEW j \in 0..Rounds(buffer)
    PROVE  Sound(st[j])
<1> DEFINE n == Rounds(buffer)
           Bad == {l \in 0..n : ~Sound(st[l])}
<1>1. n \in Nat
  BY RoundsAre
<1>2. st[0] = Start /\ \A l \in 1..n : st[l] = Round(buffer, st[l - 1])
  BY DEF IsParse
<1>3. \A l \in 0..n : st[l] \in ParseStates
  BY DEF IsParse
<1> HIDE DEF n
<1>4. SUFFICES ASSUME Bad # {} PROVE FALSE
  BY DEF n
<1>5. PICK m \in Bad : \A l \in Bad : m <= l
  <2>1. Bad \in SUBSET Nat
    BY <1>1
  <2> HIDE DEF Bad
  <2> QED BY <1>4, <2>1, NatMin
<1>6. m \in 0..n /\ ~Sound(st[m])
  BY <1>5
<1>7. m # 0
  <2>1. Sound(Start)
    BY DEF Sound, Start
  <2> QED BY <1>2, <1>6, <2>1
<1>8. m \in 1..n /\ m - 1 \in 0..n /\ m \in Nat
  BY <1>1, <1>6, <1>7
<1>9. Sound(st[m - 1])
  <2>1. m - 1 \notin Bad
    <3> HIDE DEF Bad
    <3> QED BY <1>5, <1>8
  <2> QED BY <1>8, <2>1
<1> QED BY <1>2, <1>3, <1>6, <1>8, <1>9, RoundGrows

\* Later states extend earlier ones.
LEMMA StatesGrow ==
    ASSUME NEW buffer \in Seq(Byte), NEW st, IsParse(st, buffer),
           NEW i \in 0..Rounds(buffer), NEW j \in 0..Rounds(buffer), i <= j
    PROVE  Grows(st[i], st[j])
<1> DEFINE n == Rounds(buffer)
           Bad == {l \in 0..n : i <= l /\ ~Grows(st[i], st[l])}
<1>1. n \in Nat /\ i \in 0..n
  BY RoundsAre
<1>2. \A l \in 1..n : st[l] = Round(buffer, st[l - 1])
  BY DEF IsParse
<1>3. \A l \in 0..n : st[l] \in ParseStates /\ Sound(st[l])
  BY StatesSound DEF IsParse
<1> HIDE DEF n
<1>4. SUFFICES ASSUME Bad # {} PROVE FALSE
  BY DEF n
<1>5. PICK m \in Bad : \A l \in Bad : m <= l
  <2>1. Bad \in SUBSET Nat
    BY <1>1
  <2> HIDE DEF Bad
  <2> QED BY <1>4, <2>1, NatMin
<1>6. m \in 0..n /\ i <= m /\ ~Grows(st[i], st[m])
  BY <1>5
<1>7. m # i
  <2>1. /\ st[i].offset \in Nat /\ st[i].committed_count \in Nat /\ st[i].committed_end \in Nat
        /\ Len(st[i].entries) \in Nat
    BY <1>1, <1>3, StateFields
  <2>2. Grows(st[i], st[i])
    BY <2>1 DEF Grows
  <2> QED BY <1>6, <2>2
<1>8. m \in 1..n /\ m - 1 \in 0..n /\ m \in Nat /\ i <= m - 1
  BY <1>1, <1>6, <1>7
<1>9. Grows(st[i], st[m - 1])
  <2>1. m - 1 \notin Bad
    <3> HIDE DEF Bad
    <3> QED BY <1>5, <1>8
  <2> QED BY <1>8, <2>1
<1>10. Grows(st[m - 1], st[m])
  BY <1>2, <1>3, <1>8, RoundGrows
<1> QED BY <1>1, <1>3, <1>6, <1>8, <1>9, <1>10, GrowsTransitive

\* A record that two buffers share is read in the same way.
LEMMA RoundLocal ==
    ASSUME NEW b \in Seq(Byte), NEW c \in Seq(Byte), NEW s \in ParseStates,
           Advances(b, s), NEW e \in Nat, e <= Len(b), e <= Len(c),
           \A i \in 1..e : b[i] = c[i], End(b, s) <= e
    PROVE  Advances(c, s) /\ Round(c, s) = Round(b, s)
<1>0. PrefixLen = 8
  BY BytesAre
<1>1. /\ s.offset \in Nat /\ Len(b) \in Nat /\ Len(c) \in Nat
      /\ End(b, s) \in Nat /\ End(b, s) >= s.offset + 8
  <2>1. End(b, s) \in Nat /\ End(b, s) >= s.offset + PrefixLen
    BY RoundSteps
  <2>2. s.offset \in Nat
    BY StateFields
  <2> QED BY <1>0, <2>1, <2>2
<1>2. announced(c, s.offset) = announced(b, s.offset)
  <2>1. \A i \in 1..8 : b[s.offset + i] = c[s.offset + i]
    BY <1>1
  <2>2. \A i \in 1..6 : i \in 1..8
    OBVIOUS
  <2>3. 7 \in 1..8 /\ 8 \in 1..8
    OBVIOUS
  <2> QED BY <2>1, <2>2, <2>3 DEF announced
<1>3. End(c, s) = End(b, s)
  BY <1>2 DEF End
<1>4. Advances(c, s)
  <2>1. ~s.stop
    BY DEF Advances, Done
  <2>2. ~(s.offset >= Len(c)) /\ s.offset + 8 <= Len(c) /\ End(b, s) <= Len(c)
    BY <1>1
  <2> QED BY <1>3, <2>1, <2>2, BytesAre DEF Advances, Done
<1>5. Payload(c, s) = Payload(b, s)
  <2> DEFINE o == s.offset + PrefixLen
             d == End(b, s)
  <2>1. o \in Nat /\ d \in Nat /\ d <= Len(b) /\ d <= Len(c) /\ d <= e
    BY <1>1, BytesAre
  <2> HIDE DEF o, d
  <2>2. /\ SubSeq(b, o + 1, d) \in Seq(Byte)
        /\ Len(SubSeq(b, o + 1, d)) = IF o < d THEN d - o ELSE 0
        /\ \A i \in 1..(d - o) : SubSeq(b, o + 1, d)[i] = b[o + i]
    BY <2>1, PayloadType
  <2>3. /\ SubSeq(c, o + 1, d) \in Seq(Byte)
        /\ Len(SubSeq(c, o + 1, d)) = IF o < d THEN d - o ELSE 0
        /\ \A i \in 1..(d - o) : SubSeq(c, o + 1, d)[i] = c[o + i]
    BY <2>1, PayloadType
  <2> DEFINE x == SubSeq(b, o + 1, d)
             y == SubSeq(c, o + 1, d)
  <2>4. \A i \in 1..(d - o) : b[o + i] = c[o + i]
    BY <2>1
  <2>5. \A i \in 1..Len(x) : i \in 1..(d - o)
    BY <2>1, <2>2
  <2>6. Len(x) = Len(y) /\ \A i \in 1..Len(x) : x[i] = y[i]
    BY <2>2, <2>3, <2>4, <2>5
  <2>7. x = y
    <3>1. x \in Seq(Byte) /\ y \in Seq(Byte)
      BY <2>2, <2>3
    <3> HIDE DEF x, y
    <3> QED BY <2>6, <3>1, SeqEqual
  <2> QED BY <1>3, <2>7 DEF Payload, o, d
<1> QED BY <1>3, <1>4, <1>5, RoundSteps

\* A buffer that begins like another one is parsed like it as far.
LEMMA ParseLocal ==
    ASSUME NEW b \in Seq(Byte), NEW c \in Seq(Byte), NEW st, IsParse(st, b),
           NEW su, IsParse(su, c), NEW m \in 0..Rounds(b), ReadsAll(st, b, m),
           8 * m <= st[m].offset, st[m].offset <= Len(b), st[m].offset <= Len(c),
           \A i \in 1..st[m].offset : b[i] = c[i]
    PROVE  /\ m \in 0..Rounds(c) /\ su[m] = st[m] /\ ReadsAll(su, c, m)
<1> DEFINE n == Rounds(b)
           k == Rounds(c)
           Bad == {l \in 0..m : ~(su[l] = st[l] /\ ReadsAll(su, c, l))}
<1>1. n \in Nat /\ k \in Nat /\ m \in Nat /\ m <= n
  BY RoundsAre
<1>2. m <= k
  <2> DEFINE o == st[m].offset
  <2>1. o \in Nat
    BY StateFields DEF IsParse
  <2>2. 8 * k > Len(c) /\ Len(c) \in Nat /\ 8 * m <= o /\ o <= Len(c)
    BY RoundsAre
  <2> HIDE DEF k, o
  <2> QED BY <1>1, <2>1, <2>2
<1>3. /\ st[0] = Start /\ su[0] = Start
      /\ \A l \in 1..n : st[l] = Round(b, st[l - 1])
      /\ \A l \in 1..k : su[l] = Round(c, su[l - 1])
  BY DEF IsParse
<1>4. \A l \in 0..n : st[l] \in ParseStates /\ st[l].offset \in Nat
  BY StateFields DEF IsParse
<1>5. \A l \in 0..m : st[l].offset <= st[m].offset
  BY <1>1, StatesGrow DEF Grows
<1> HIDE DEF n, k
<1>6. ASSUME Bad # {} PROVE FALSE
  <2>1. PICK l \in Bad : \A x \in Bad : l <= x
    <3>1. Bad \in SUBSET Nat
      BY <1>1
    <3> HIDE DEF Bad
    <3> QED BY <1>6, <3>1, NatMin
  <2>2. l \in 0..m /\ ~(su[l] = st[l] /\ ReadsAll(su, c, l))
    BY <2>1
  <2>3. l # 0
    <3>1. ReadsAll(su, c, 0)
      BY DEF ReadsAll
    <3> QED BY <1>3, <2>2, <3>1
  <2>4. l \in 1..n /\ l \in 1..k /\ l \in 1..m /\ l - 1 \in 0..n /\ l - 1 \in 0..m /\ l \in Nat
    BY <1>1, <1>2, <2>2, <2>3
  <2>5. su[l - 1] = st[l - 1] /\ ReadsAll(su, c, l - 1)
    <3>1. l - 1 \notin Bad
      <4> HIDE DEF Bad
      <4> QED BY <2>1, <2>4
    <3> QED BY <2>4, <3>1
  <2>6. Advances(b, st[l - 1])
    BY <2>4 DEF ReadsAll
  <2>7. End(b, st[l - 1]) <= st[m].offset
    <3>1. End(b, st[l - 1]) = st[l].offset
      BY <1>3, <1>4, <2>4, <2>6, RoundSteps
    <3> QED BY <1>5, <2>4, <3>1
  <2>8. Advances(c, st[l - 1]) /\ Round(c, st[l - 1]) = Round(b, st[l - 1])
    <3> DEFINE e == st[m].offset
    <3>1. e \in Nat /\ e <= Len(b) /\ e <= Len(c) /\ (\A i \in 1..e : b[i] = c[i])
          /\ End(b, st[l - 1]) <= e
      BY <1>1, <1>4, <2>7 DEF n
    <3> HIDE DEF e
    <3> QED BY <1>4, <2>4, <2>6, <3>1, RoundLocal
  <2>9. su[l] = st[l]
    BY <1>3, <2>4, <2>5, <2>8
  <2>10. ReadsAll(su, c, l)
    <3>1. \A i \in 1..l : i \in 1..(l - 1) \/ i = l
      BY <2>4
    <3> QED BY <2>5, <2>8, <3>1 DEF ReadsAll
  <2> QED BY <2>2, <2>9, <2>10
<1>7. m \in 0..k
  BY <1>1, <1>2
<1>8. su[m] = st[m] /\ ReadsAll(su, c, m)
  BY <1>1, <1>6
<1> QED BY <1>7, <1>8 DEF k

-----------------------------------------------------------------------------
\* Parsing what is left when the log is cut behind the last COMMIT.

\* s is the state behind the last COMMIT that t knows of.
Committed(s, t) ==
    /\ ~s.stop /\ s.offset = t.committed_end /\ s.committed_end = t.committed_end
    /\ s.committed_count = t.committed_count /\ Len(s.entries) = t.committed_count
    /\ Len(s.entries) <= Len(t.entries)
    /\ \A i \in 1..Len(s.entries) : t.entries[i] = s.entries[i]

\* Behind the last COMMIT the loop was in a state that had just committed.
LEMMA LastCommit ==
    ASSUME NEW buffer \in Seq(Byte), NEW st, IsParse(st, buffer),
           NEW j \in 0..Rounds(buffer)
    PROVE  \E m \in 0..j : ReadsAll(st, buffer, m) /\ Committed(st[m], st[j])
<1> DEFINE n == Rounds(buffer)
           P(l) == \E m \in 0..l : ReadsAll(st, buffer, m) /\ Committed(st[m], st[l])
           Bad == {l \in 0..n : ~P(l)}
<1>1. n \in Nat
  BY RoundsAre
<1>2. st[0] = Start /\ \A l \in 1..n : st[l] = Round(buffer, st[l - 1])
  BY DEF IsParse
<1>3. \A l \in 0..n : st[l] \in ParseStates
  BY DEF IsParse
<1>4. \A l \in 0..n : ReadsAll(st, buffer, l) \/ Done(buffer, st[l])
  BY ReadsOrDone
<1> HIDE DEF n
<1>5. SUFFICES ASSUME Bad # {} PROVE FALSE
  BY DEF n
<1>6. PICK l \in Bad : \A x \in Bad : l <= x
  <2>1. Bad \in SUBSET Nat
    BY <1>1
  <2> HIDE DEF Bad
  <2> QED BY <1>5, <2>1, NatMin
<1>7. l \in 0..n /\ ~P(l)
  BY <1>6
<1>8. l # 0
  <2>1. Committed(Start, Start)
    BY DEF Committed, Start
  <2>2. ReadsAll(st, buffer, 0)
    BY DEF ReadsAll
  <2>3. P(0)
    BY <1>2, <2>1, <2>2
  <2> HIDE DEF P
  <2> QED BY <1>7, <2>3
<1>9. l \in 1..n /\ l - 1 \in 0..n /\ l \in Nat
  BY <1>1, <1>7, <1>8
<1>10. PICK m \in 0..(l - 1) : ReadsAll(st, buffer, m) /\ Committed(st[m], st[l - 1])
  <2>1. l - 1 \notin Bad
    <3> HIDE DEF Bad
    <3> QED BY <1>6, <1>9
  <2> QED BY <1>9, <2>1
<1> DEFINE s == st[l - 1]
           t == st[l]
           u == st[m]
<1>11. s \in ParseStates /\ t \in ParseStates /\ u \in ParseStates /\ t = Round(buffer, s)
       /\ m \in 0..l
  BY <1>1, <1>2, <1>3, <1>9, <1>10
<1>12. Committed(u, s)
  BY <1>10
<1>13. ASSUME t.committed_count = s.committed_count, t.committed_end = s.committed_end,
              Len(s.entries) <= Len(t.entries),
              \A i \in 1..Len(s.entries) : t.entries[i] = s.entries[i]
       PROVE  FALSE
  <2> DEFINE a == Len(u.entries)
             b == Len(s.entries)
             c == Len(t.entries)
  <2>1. a \in Nat /\ b \in Nat /\ c \in Nat
    <3>1. s \in ParseStates /\ t \in ParseStates /\ u \in ParseStates
      BY <1>11
    <3> HIDE DEF s, t, u
    <3>2. s.entries \in Seq(Records) /\ t.entries \in Seq(Records) /\ u.entries \in Seq(Records)
      BY <3>1, StateFields
    <3> QED BY <3>2
  <2>2. a <= b /\ (\A i \in 1..a : s.entries[i] = u.entries[i]) /\ b <= c
        /\ \A i \in 1..b : t.entries[i] = s.entries[i]
    BY <1>12, <1>13 DEF Committed
  <2>3. a <= c /\ \A i \in 1..a : t.entries[i] = u.entries[i]
    <3> HIDE DEF a, b, c
    <3> QED BY <2>1, <2>2
  <2>4. Committed(u, t)
    <3> HIDE DEF s, t, u
    <3> QED BY <1>12, <1>13, <2>3 DEF Committed
  <2> QED BY <1>7, <1>10, <1>11, <2>4
<1>14. Sound(s)
  BY <1>9, StatesSound DEF n
<1>15. Grows(s, t)
  BY <1>11, <1>14, RoundGrows
<1>16. CASE Advances(buffer, s)
  <2>1. Step(s, t)
    BY <1>11, <1>16, RoundSteps
  <2>2. t.committed_count = Len(t.entries) /\ t.committed_end = t.offset
    <3>1. ~(t.committed_count = s.committed_count /\ t.committed_end = s.committed_end)
      BY <1>13, <1>15 DEF Grows
    <3> QED BY <2>1, <3>1 DEF Step
  <2>3. ~t.stop /\ Len(t.entries) \in Nat
    BY <1>11, <2>1, StateFields DEF Step
  <2>4. Committed(t, t)
    BY <2>2, <2>3 DEF Committed
  <2>5. ReadsAll(st, buffer, l)
    <3>1. ReadsAll(st, buffer, l - 1)
      BY <1>4, <1>9, <1>16 DEF Advances
    <3>2. \A i \in 1..l : i \in 1..(l - 1) \/ i = l
      BY <1>9
    <3> QED BY <1>16, <3>1, <3>2 DEF ReadsAll
  <2>6. l \in 0..l
    BY <1>9
  <2> QED BY <1>7, <2>4, <2>5, <2>6
<1>17. CASE ~Advances(buffer, s)
  <2>1. t = [s EXCEPT !.stop = t.stop]
    BY <1>11, <1>17, RoundSteps
  <2>2. t.committed_count = s.committed_count /\ t.committed_end = s.committed_end
    <3> DEFINE b == t.stop
    <3>1. s \in ParseStates
      BY <1>11
    <3> HIDE DEF t, b, s
    <3>2. t = [s EXCEPT !.stop = b]
      BY <2>1 DEF b
    <3> QED BY <3>1, <3>2, StateStop
  <2> QED BY <1>13, <1>15, <2>2 DEF Grows
<1> QED BY <1>16, <1>17

\* The prefix of a sequence.
LEMMA PrefixOf ==
    ASSUME NEW S, NEW s \in Seq(S), NEW n \in 0..Len(s)
    PROVE  /\ SubSeq(s, 1, n) \in Seq(S) /\ Len(SubSeq(s, 1, n)) = n
           /\ \A i \in 1..n : SubSeq(s, 1, n)[i] = s[i]
<1>1. \A i \in 1..n : s[i] \in S
  OBVIOUS
<1>2. /\ SubSeq(s, 1, n) \in Seq(S)
      /\ Len(SubSeq(s, 1, n)) = IF 1 <= n THEN n - 1 + 1 ELSE 0
      /\ \A i \in 1..(n - 1 + 1) : SubSeq(s, 1, n)[i] = s[1 + i - 1]
  BY <1>1, SubSeqProperties
<1>3. n \in Nat
  OBVIOUS
<1>4. (IF 1 <= n THEN n - 1 + 1 ELSE 0) = n /\ n - 1 + 1 = n
  BY <1>3
<1>5. \A i \in 1..n : 1 + i - 1 = i
  OBVIOUS
<1> QED BY <1>2, <1>4, <1>5

\* read_for_recovery can be repeated.
LEMMA ParseTwice ==
    ASSUME NEW buffer \in Seq(Byte)
    PROVE  LET r == parse_buffer(buffer)
               again == parse_buffer(SubSeq(buffer, 1, r.committed_end))
           IN  /\ r \in ParseStates
               /\ r.committed_end \in 0..Len(buffer) /\ r.committed_count \in 0..Len(r.entries)
               /\ again.entries = SubSeq(r.entries, 1, r.committed_count)
               /\ again.committed_count = r.committed_count
               /\ again.committed_end = r.committed_end
<1> DEFINE r == parse_buffer(buffer)
           n == Rounds(buffer)
<1>1. PICK st : IsParse(st, buffer)
  BY ParseExists
<1>2. n \in Nat /\ n \in 0..n
  BY RoundsAre
<1>3. r = st[n] /\ r \in ParseStates
  BY <1>1, <1>2 DEF IsParse
<1>4. PICK m \in 0..n : ReadsAll(st, buffer, m) /\ Committed(st[m], st[n])
  BY <1>1, <1>2, LastCommit
<1>5. st[m] \in ParseStates
  BY <1>1, <1>4 DEF IsParse
<1> DEFINE s == st[m]
           c == r.committed_end
           d == SubSeq(buffer, 1, c)
<1> HIDE DEF r, n
<1>6. /\ ~s.stop /\ s.offset = c /\ s.committed_end = c
      /\ s.committed_count = r.committed_count /\ Len(s.entries) = r.committed_count
      /\ Len(s.entries) <= Len(r.entries)
      /\ \A i \in 1..Len(s.entries) : r.entries[i] = s.entries[i]
  BY <1>3, <1>4 DEF Committed
<1>7. /\ c \in Nat /\ r.entries \in Seq(Records) /\ s.entries \in Seq(Records)
      /\ Len(r.entries) \in Nat /\ Len(s.entries) \in Nat /\ r.committed_count \in Nat
  BY <1>3, <1>5, StateFields
<1>8. c <= Len(buffer)
  <2>1. CASE m = 0
    <3>1. s.offset = 0
      BY <1>1, <2>1 DEF IsParse, Start
    <3> QED BY <1>6, <3>1
  <2>2. CASE m # 0
    <3>1. m \in 1..n /\ m \in 1..m /\ m - 1 \in 0..n
      BY <1>2, <1>4, <2>2
    <3>2. Advances(buffer, st[m - 1])
      BY <1>4, <3>1 DEF ReadsAll
    <3>3. st[m - 1] \in ParseStates /\ st[m] = Round(buffer, st[m - 1])
      BY <1>1, <3>1 DEF IsParse, n
    <3>4. st[m].offset = End(buffer, st[m - 1])
      BY <3>2, <3>3, RoundSteps
    <3>5. End(buffer, st[m - 1]) <= Len(buffer)
      BY <3>2 DEF Advances
    <3> QED BY <1>6, <3>4, <3>5
  <2> QED BY <2>1, <2>2
<1>9. c \in 0..Len(buffer)
  BY <1>7, <1>8
<1>10. d \in Seq(Byte) /\ Len(d) = c /\ \A i \in 1..c : d[i] = buffer[i]
  BY <1>9, PrefixOf
<1> HIDE DEF c, d
<1>11. PICK su : IsParse(su, d)
  BY <1>10, ParseExists
<1>12. 8 * m <= st[m].offset
  <2>1. m \in 0..Rounds(buffer)
    BY <1>4 DEF n
  <2>2. CASE Done(buffer, st[m])
    <3>1. CASE m = 0
      BY <1>6, <1>7, <3>1 DEF c
    <3>2. CASE m # 0
      <4>1. m \in 1..n /\ m \in 1..m /\ m - 1 \in 0..n /\ m - 1 \in 0..m
        BY <1>2, <1>4, <3>2
      <4>2. Advances(buffer, st[m - 1])
        BY <1>4, <4>1 DEF ReadsAll
      <4>3. 8 * (m - 1) <= st[m - 1].offset
        BY <1>1, <4>1, <4>2, ReadsOrDone DEF Advances, n
      <4>4. st[m - 1] \in ParseStates /\ st[m] = Round(buffer, st[m - 1])
        BY <1>1, <4>1 DEF IsParse, n
      <4>5. st[m].offset >= st[m - 1].offset + 8
        BY <4>2, <4>4, RoundSteps, BytesAre DEF Step
      <4>6. st[m - 1].offset \in Nat /\ st[m].offset \in Nat
        BY <1>5, <4>4, StateFields
      <4> QED BY <4>1, <4>3, <4>5, <4>6
    <3> QED BY <3>1, <3>2
  <2>3. CASE ~Done(buffer, st[m])
    BY <1>1, <2>1, <2>3, ReadsOrDone
  <2> QED BY <2>2, <2>3
<1>13. m \in 0..Rounds(d) /\ su[m] = st[m]
  <2>1. /\ st[m].offset = c /\ c <= Len(buffer) /\ c <= Len(d)
        /\ \A i \in 1..c : buffer[i] = d[i]
    BY <1>6, <1>8, <1>10, <1>7 DEF c
  <2>2. m \in 0..Rounds(buffer) /\ ReadsAll(st, buffer, m)
    BY <1>4 DEF n
  <2> QED BY <1>1, <1>10, <1>11, <1>12, <2>1, <2>2, ParseLocal
<1>14. Done(d, su[m])
  BY <1>6, <1>7, <1>10, <1>13 DEF Done, c
<1>15. parse_buffer(d) = s
  BY <1>10, <1>11, <1>13, <1>14, DoneStays
<1>16. s.entries = SubSeq(r.entries, 1, r.committed_count)
  <2> DEFINE k == r.committed_count
             x == s.entries
             y == SubSeq(r.entries, 1, k)
  <2>1. k \in 0..Len(r.entries) /\ x \in Seq(Records) /\ Len(x) = k
        /\ \A i \in 1..k : r.entries[i] = x[i]
    BY <1>6, <1>7
  <2>2. y \in Seq(Records) /\ Len(y) = k /\ \A i \in 1..k : y[i] = r.entries[i]
    <3> HIDE DEF k, x
    <3> QED BY <1>7, <2>1, PrefixOf
  <2> HIDE DEF x, y, k
  <2>3. Len(x) = Len(y) /\ \A i \in 1..Len(x) : x[i] = y[i]
    BY <2>1, <2>2
  <2>4. x = y
    BY <2>1, <2>2, <2>3, SeqEqual
  <2> QED BY <2>4 DEF x, y, k
<1>17. r.committed_count \in 0..Len(r.entries)
  BY <1>6, <1>7
<1> QED BY <1>3, <1>6, <1>9, <1>15, <1>16, <1>17 DEF c, d, r

-----------------------------------------------------------------------------
\* The rounds of decode_fields.

\* The fields that can be decoded, and the states of the loop over them.
Fields(wires) ==
    {f \in [num : 1..5, val : Byte \cup Seq(Byte)] : wires[f.num] = 0 => f.val \in Byte}

FieldStates(wires) == [ok : BOOLEAN, at : Nat \ {0}, fields : Seq(Fields(wires))]

NoFields == [ok |-> TRUE, at |-> 1, fields |-> << >>]

FieldRound(b, wires, s) ==
    IF s.ok /\ s.at <= Len(b) THEN next_field(b, wires, s) ELSE s

FieldFold(it, b, wires) ==
    it = [s \in SUBSET (1..Len(b)) |->
             IF s = {} THEN NoFields ELSE FieldRound(b, wires, it[s \ {Max(s)}])]

\* decode_fields is the recursion in which the last field is read last.
LEMMA DecodeIsFold ==
    ASSUME NEW b \in Seq(Byte), NEW wires
    PROVE  decode_fields(b, wires) = (CHOOSE it : FieldFold(it, b, wires))[1..Len(b)]
<1>1. DOMAIN [i \in 1..Len(b) |-> i] = 1..Len(b)
  OBVIOUS
<1> QED BY <1>1 DEF decode_fields, FoldLeft, MapThenFoldSet, FieldFold, FieldRound, NoFields

\* The fields of a state of decode_fields.
LEMMA FieldStateFields ==
    ASSUME NEW wires, NEW s \in FieldStates(wires)
    PROVE  s.ok \in BOOLEAN /\ s.at \in Nat /\ s.at >= 1 /\ s.fields \in Seq(Fields(wires))
<1> DEFINE F == Seq(Fields(wires))
           N == Nat \ {0}
<1>1. s \in [ok : BOOLEAN, at : N, fields : F]
  BY DEF FieldStates
<1> HIDE DEF F, N
<1>2. s.ok \in BOOLEAN /\ s.at \in N /\ s.fields \in F
  BY <1>1
<1>4. s.at \in Nat /\ s.at >= 1
  BY <1>2 DEF N
<1> QED BY <1>2, <1>4 DEF F

\* A state with its ok flag set.
LEMMA FieldStateFailed ==
    ASSUME NEW wires, NEW s \in FieldStates(wires), NEW z
    PROVE  [s EXCEPT !.ok = z] = [ok |-> z, at |-> s.at, fields |-> s.fields]
<1> DEFINE F == Seq(Fields(wires))
           N == Nat \ {0}
           B == BOOLEAN
<1>1. s \in [ok : B, at : N, fields : F]
  BY DEF FieldStates
<1> HIDE DEF F, N, B
<1> QED BY <1>1

\* next_field stays inside its states, whatever the bytes are.
LEMMA NextFieldType ==
    ASSUME NEW b \in Seq(Byte), NEW wires, NEW s \in FieldStates(wires), s.at <= Len(b)
    PROVE  next_field(b, wires, s) \in FieldStates(wires)
<1> DEFINE a == s.at
           num == b[a] \div 8
           wire == b[a] % 8
           rest == Len(b) - a
           size == CASE wire = 0 -> 1
                     [] wire = 1 -> 8
                     [] wire = 2 -> IF rest = 0 THEN 1 ELSE 1 + b[a + 1]
                     [] OTHER -> 0
           val == IF wire = 0 THEN b[a + 1] ELSE SubSeq(b, a + 1 + (wire \div 2), a + size)
           ok == ~(num = 0 \/ wire # wires[num] \/ size > rest)
<1>0. s.at \in Nat /\ s.at >= 1 /\ s.fields \in Seq(Fields(wires))
  BY FieldStateFields
<1>1. a \in Nat /\ a >= 1 /\ Len(b) \in Nat /\ a \in 1..Len(b)
  BY <1>0
<1>2. rest \in Nat /\ (rest # 0 => a + 1 \in 1..Len(b))
  BY <1>1
<1>3. b[a] \in 0..47 /\ (rest # 0 => b[a + 1] \in 0..47)
  <2>1. b[a] \in Byte /\ (rest # 0 => b[a + 1] \in Byte)
    <3> HIDE DEF a, rest
    <3> QED BY <1>1, <1>2
  <2>2. Byte = 0..47
    BY BytesAre
  <2> QED BY <2>1, <2>2
<1>4. num \in 0..5 /\ wire \in 0..7
  <2> DEFINE x == b[a]
  <2>1. x \in 0..47
    BY <1>3
  <2> HIDE DEF x
  <2>2. x \div 8 \in 0..5 /\ x % 8 \in 0..7
    BY <2>1
  <2> QED BY <2>2 DEF x
<1>5. next_field(b, wires, s) = IF ok THEN [ok |-> TRUE, at |-> a + 1 + size,
                                             fields |-> Append(s.fields, [num |-> num, val |-> val])]
                                ELSE [s EXCEPT !.ok = FALSE]
  BY DEF next_field
<1> HIDE DEF num, wire, rest, a
<1>6. size \in Nat /\ (wire = 0 => size = 1)
  <2> DEFINE y == b[a + 1]
  <2>0. rest # 0 => y \in 0..47
    BY <1>3, Zenon
  <2> HIDE DEF y
  <2>1. ASSUME rest # 0 PROVE y \in Nat
    <3>1. y \in 0..47
      BY <2>0, <2>1
    <3> QED BY <3>1
  <2>2. (IF rest = 0 THEN 1 ELSE 1 + y) \in Nat
    BY <1>2, <2>1
  <2> QED BY <1>4, <2>2 DEF y
<1> HIDE DEF size
<1>7. CASE ok
  <2>1. num \in 1..5 /\ wires[num] = wire /\ a + size <= Len(b)
    <3>1. size <= rest
      BY <1>2, <1>6, <1>7
    <3>2. num \in 1..5 /\ wires[num] = wire
      BY <1>4, <1>7
    <3> QED BY <1>1, <1>6, <3>1, <3>2 DEF rest
  <2>2. val \in Byte \cup Seq(Byte) /\ (wire = 0 => val \in Byte)
    <3>1. CASE wire = 0
      <4>1. rest # 0
        BY <1>6, <1>7, <3>1
      <4> QED BY <1>2, <3>1, <4>1
    <3>2. CASE wire # 0
      <4> DEFINE lo == a + (wire \div 2)
                 hi == a + size
      <4>1. wire \div 2 \in Nat
        BY <1>4
      <4>2. lo \in Nat /\ hi \in Nat /\ hi <= Len(b) /\ a + 1 + (wire \div 2) = lo + 1
        BY <1>1, <1>6, <2>1, <4>1
      <4> HIDE DEF lo, hi
      <4>3. SubSeq(b, lo + 1, hi) \in Seq(Byte)
        BY <4>2, PayloadType
      <4>4. val = SubSeq(b, lo + 1, hi)
        BY <3>2, <4>2 DEF hi
      <4> QED BY <3>2, <4>3, <4>4
    <3> QED BY <3>1, <3>2
  <2> HIDE DEF val
  <2> DEFINE f == [num |-> num, val |-> val]
  <2>3. f \in Fields(wires)
    <3>1. f.num = num /\ f.val = val
      OBVIOUS
    <3>2. f \in [num : 1..5, val : Byte \cup Seq(Byte)]
      <4> DEFINE V == Byte \cup Seq(Byte)
      <4>1. val \in V
        BY <2>2
      <4> HIDE DEF V
      <4>2. f \in [num : 1..5, val : V]
        BY <2>1, <4>1
      <4> QED BY <4>2 DEF V
    <3> HIDE DEF f
    <3> QED BY <2>1, <2>2, <3>1, <3>2 DEF Fields
  <2> HIDE DEF f
  <2>4. Append(s.fields, f) \in Seq(Fields(wires)) /\ a + 1 + size \in Nat \ {0}
    BY <1>0, <1>1, <1>6, <2>3
  <2> DEFINE F == Seq(Fields(wires))
             N == Nat \ {0}
             p == Append(s.fields, f)
             q == a + 1 + size
  <2>5. p \in F /\ q \in N
    BY <2>4
  <2> HIDE DEF F, N, p, q
  <2>6. [ok |-> TRUE, at |-> q, fields |-> p] \in [ok : BOOLEAN, at : N, fields : F]
    BY <2>5
  <2> QED BY <1>5, <1>7, <2>6 DEF FieldStates, F, N, p, q, f
<1>8. CASE ~ok
  <2> DEFINE F == Seq(Fields(wires))
             N == Nat \ {0}
  <2>1. s.at \in N /\ s.fields \in F
    BY <1>0
  <2> HIDE DEF F, N
  <2>2. [ok |-> FALSE, at |-> s.at, fields |-> s.fields] \in [ok : BOOLEAN, at : N, fields : F]
    BY <2>1
  <2> QED BY <1>5, <1>8, <2>2, FieldStateFailed DEF FieldStates, F, N
<1> QED BY <1>7, <1>8

\* The state before the first field.
LEMMA NoFieldsType ==
    ASSUME NEW wires
    PROVE  NoFields \in FieldStates(wires)
<1>1. << >> \in Seq(Fields(wires)) /\ 1 \in Nat \ {0}
  OBVIOUS
<1> QED BY <1>1 DEF NoFields, FieldStates

\* One round of decode_fields.
LEMMA FieldRoundType ==
    ASSUME NEW b \in Seq(Byte), NEW wires, NEW s \in FieldStates(wires)
    PROVE  FieldRound(b, wires, s) \in FieldStates(wires)
BY NextFieldType DEF FieldRound

\* The recursion over sets of positions has a solution.
LEMMA FieldFoldExists ==
    ASSUME NEW b \in Seq(Byte), NEW wires
    PROVE  \E it : FieldFold(it, b, wires)
<1> DEFINE S == 1..Len(b)
           D == FieldStates(wires)
           pick == [s \in SUBSET S |-> Max(s)]
           step == [p \in S \X D |-> FieldRound(b, wires, p[2])]
<1>0. Len(b) \in Nat
  OBVIOUS
<1>1. IsFiniteSet(S)
  BY <1>0, FS_Interval
<1>2. ASSUME NEW s \in SUBSET S, s # {}
      PROVE  Max(s) \in s
  <2>1. s \in SUBSET Nat /\ \A x \in s : x <= Len(b)
    BY <1>0
  <2> QED BY <1>0, <1>2, <2>1, MaxOfBounded
<1>3. \A s \in SUBSET S : s # {} => pick[s] \in s
  BY <1>2
<1>4. step \in [S \X D -> D]
  <2>1. \A p \in S \X D : FieldRound(b, wires, p[2]) \in D
    BY FieldRoundType
  <2> HIDE DEF D, S
  <2> QED BY <2>1
<1>5. NoFields \in D
  BY NoFieldsType
<1>6. PICK it \in [SUBSET S -> D] : IsFold(it, SUBSET S, NoFields, pick, step)
  <2> HIDE DEF S, D, pick, step
  <2> QED BY <1>1, <1>3, <1>4, <1>5, FoldExists
<1>7. ASSUME NEW s \in SUBSET S
      PROVE  it[s] = IF s = {} THEN NoFields ELSE FieldRound(b, wires, it[s \ {Max(s)}])
  <2>1. CASE s = {}
    BY <1>6, <2>1 DEF IsFold
  <2>2. CASE s # {}
    <3>1. it[s] = step[<<pick[s], it[s \ {pick[s]}]>>]
      <4> HIDE DEF pick, step, S, D
      <4> QED BY <1>6, <2>2 DEF IsFold
    <3>2. pick[s] = Max(s) /\ Max(s) \in S /\ s \ {Max(s)} \in SUBSET S
      BY <1>2, <2>2
    <3>3. it[s \ {Max(s)}] \in D
      <4> HIDE DEF D, S
      <4> QED BY <1>6, <3>2
    <3>4. <<Max(s), it[s \ {Max(s)}]>> \in S \X D
      <4> HIDE DEF D, S
      <4> QED BY <3>2, <3>3
    <3> HIDE DEF D, S, pick
    <3> QED BY <2>2, <3>1, <3>2, <3>4
  <2> QED BY <2>1, <2>2
<1>8. it = [s \in SUBSET S |-> IF s = {} THEN NoFields
                               ELSE FieldRound(b, wires, it[s \ {Max(s)}])]
  <2> HIDE DEF D, S
  <2> QED BY <1>6, <1>7
<1>9. FieldFold(it, b, wires)
  BY <1>8 DEF FieldFold
<1> QED BY <1>9

\* The states that the loop over the fields goes through.
IsDecode(st, b, wires) ==
    /\ st \in [0..Len(b) -> FieldStates(wires)]
    /\ st[0] = NoFields
    /\ \A j \in 1..Len(b) : st[j] = FieldRound(b, wires, st[j - 1])
    /\ decode_fields(b, wires) = st[Len(b)]

\* There is a sequence of states for every message.
LEMMA DecodeExists ==
    ASSUME NEW b \in Seq(Byte), NEW wires
    PROVE  \E st : IsDecode(st, b, wires)
<1> DEFINE n == Len(b)
           it == CHOOSE x : FieldFold(x, b, wires)
           st == [j \in 0..n |-> it[1..j]]
<1>1. n \in Nat
  OBVIOUS
<1>2. FieldFold(it, b, wires)
  BY FieldFoldExists
<1> HIDE DEF n, it
<1>3. \A s \in SUBSET (1..n) :
          it[s] = IF s = {} THEN NoFields ELSE FieldRound(b, wires, it[s \ {Max(s)}])
  BY <1>2 DEF FieldFold, n
<1>4. it[1..0] = NoFields
  <2>1. 1..0 = {}
    OBVIOUS
  <2> QED BY <1>3, <2>1
<1>5. ASSUME NEW j \in 1..n
      PROVE  it[1..j] = FieldRound(b, wires, it[1..(j - 1)])
  <2>1. 1..j \in SUBSET (1..n) /\ 1..j # {} /\ (1..j) \ {j} = 1..(j - 1)
    BY <1>1
  <2>2. Max(1..j) = j
    BY <1>1, MaxOfInterval
  <2> QED BY <1>3, <2>1, <2>2
<1>6. st[0] = NoFields /\ st[n] = it[1..n]
  BY <1>1, <1>4
<1>7. \A j \in 1..n : st[j] = FieldRound(b, wires, st[j - 1])
  BY <1>1, <1>5
<1>8. st \in [0..n -> FieldStates(wires)]
  <2> DEFINE Bad == {j \in 0..n : st[j] \notin FieldStates(wires)}
  <2>1. SUFFICES ASSUME Bad # {} PROVE FALSE
    <3> HIDE DEF st
    <3>1. DOMAIN st = 0..n /\ st = [j \in 0..n |-> st[j]]
      BY DEF st
    <3> QED BY <3>1
  <2>2. Bad \in SUBSET Nat
    BY <1>1
  <2>3. PICK m \in Bad : \A l \in Bad : m <= l
    <3> HIDE DEF Bad
    <3> QED BY <2>1, <2>2, NatMin
  <2> HIDE DEF st
  <2>4. m # 0
    BY <1>6, <2>3, NoFieldsType
  <2>5. m \in 1..n /\ m - 1 \in 0..n /\ m - 1 < m
    BY <1>1, <2>3, <2>4
  <2>6. m - 1 \notin Bad
    <3>1. m \in Nat
      BY <2>2, <2>3
    <3> HIDE DEF Bad
    <3> QED BY <2>3, <2>5, <3>1
  <2>7. st[m - 1] \in FieldStates(wires)
    BY <2>5, <2>6
  <2>8. st[m] \in FieldStates(wires)
    BY <1>7, <2>5, <2>7, FieldRoundType
  <2> QED BY <2>3, <2>8
<1>9. decode_fields(b, wires) = st[n]
  BY <1>6, DecodeIsFold DEF n, it
<1> HIDE DEF st
<1>10. IsDecode(st, b, wires)
  BY <1>6, <1>7, <1>8, <1>9 DEF IsDecode, n
<1> QED BY <1>10

\* The loop ends at the end of the bytes or at the first error.
LEMMA DecodeDone ==
    ASSUME NEW b \in Seq(Byte), NEW wires, NEW st, IsDecode(st, b, wires),
           NEW m \in 0..Len(b), st[m].at > Len(b)
    PROVE  decode_fields(b, wires) = st[m]
<1> DEFINE n == Len(b)
           Bad == {l \in 0..n : l >= m /\ st[l] # st[m]}
<1>1. n \in Nat
  OBVIOUS
<1>2. \A l \in 1..n : st[l] = FieldRound(b, wires, st[l - 1])
  BY DEF IsDecode
<1>0. ~(st[m].at <= Len(b))
  <2>1. st[m] \in FieldStates(wires)
    BY DEF IsDecode
  <2>2. st[m].at \in Nat
    BY <2>1, FieldStateFields
  <2> QED BY <1>1, <2>2
<1> HIDE DEF n
<1>3. ASSUME Bad # {} PROVE FALSE
  <2>1. PICK l \in Bad : \A k \in Bad : l <= k
    <3>1. Bad \in SUBSET Nat
      BY <1>1
    <3> HIDE DEF Bad
    <3> QED BY <1>3, <3>1, NatMin
  <2>2. l \in 0..n /\ l >= m /\ st[l] # st[m] /\ l # m /\ m \in 0..n
    BY <2>1 DEF n
  <2>3. l \in 1..n /\ l - 1 \in 0..n /\ l - 1 >= m /\ l \in Nat
    BY <1>1, <2>2
  <2>4. st[l - 1] = st[m]
    <3>1. l - 1 \notin Bad
      <4> HIDE DEF Bad
      <4> QED BY <2>1, <2>3
    <3> QED BY <2>3, <3>1
  <2>5. st[l] = st[m]
    BY <1>0, <1>2, <2>3, <2>4 DEF FieldRound
  <2> QED BY <2>2, <2>5
<1>4. st[n] = st[m]
  <2>1. n \in 0..n /\ n >= m
    BY <1>1 DEF n
  <2> QED BY <1>3, <2>1
<1> QED BY <1>4 DEF IsDecode, n

-----------------------------------------------------------------------------
\* Fields at known places are decoded.

\* The bytes of b behind offset o begin with c.
HasAt(b, o, c) == o + Len(c) <= Len(b) /\ \A i \in 1..Len(c) : b[o + i] = c[i]

\* A sequence has itself at its beginning.
LEMMA HasAtSelf ==
    ASSUME NEW b \in Seq(Byte)
    PROVE  HasAt(b, 0, b)
BY DEF HasAt

\* Where a concatenation lies, its two parts lie one behind the other.
LEMMA HasAtConcat ==
    ASSUME NEW b \in Seq(Byte), NEW o \in Nat, NEW c \in Seq(Byte), NEW d \in Seq(Byte),
           NEW x, x = c \o d, HasAt(b, o, x)
    PROVE  HasAt(b, o, c) /\ HasAt(b, o + Len(c), d)
<1> DEFINE m == Len(c)
           n == Len(d)
<1>1. m \in Nat /\ n \in Nat /\ Len(b) \in Nat
  OBVIOUS
<1>2. /\ Len(x) = m + n
      /\ \A i \in 1..m : x[i] = c[i]
      /\ \A i \in 1..n : x[m + i] = d[i]
  <2>1. /\ Len(c \o d) = m + n
        /\ \A i \in 1..(m + n) : (c \o d)[i] = IF i <= m THEN c[i] ELSE d[i - m]
    BY ConcatProperties
  <2>2. \A i \in 1..n : m + i \in 1..(m + n) /\ ~(m + i <= m) /\ (m + i) - m = i
    BY <1>1
  <2>3. \A i \in 1..m : i \in 1..(m + n) /\ i <= m
    BY <1>1
  <2> HIDE DEF m, n
  <2> QED BY <2>1, <2>2, <2>3
<1>3. o + (m + n) <= Len(b) /\ \A i \in 1..(m + n) : b[o + i] = x[i]
  BY <1>2 DEF HasAt
<1> HIDE DEF m, n
<1>4. o + m <= Len(b) /\ (o + m) + n <= Len(b)
  BY <1>1, <1>3
<1>5. \A i \in 1..m : b[o + i] = c[i]
  <2> TAKE i \in 1..m
  <2>1. i \in 1..(m + n)
    BY <1>1
  <2>2. b[o + i] = x[i] /\ x[i] = c[i]
    BY <1>2, <1>3, <2>1
  <2> QED BY <2>2
<1>6. \A i \in 1..n : b[(o + m) + i] = d[i]
  <2> TAKE i \in 1..n
  <2>1. m + i \in 1..(m + n) /\ o + (m + i) = (o + m) + i
    BY <1>1
  <2>2. b[o + (m + i)] = x[m + i]
    BY <1>3, <2>1
  <2> QED BY <1>2, <2>1, <2>2
<1> QED BY <1>2, <1>4, <1>5, <1>6 DEF HasAt, m, n

\* next_field, with its parts given names.
FieldSize(b, a, wire, rest) ==
    CASE wire = 0 -> 1
      [] wire = 1 -> 8
      [] wire = 2 -> IF rest = 0 THEN 1 ELSE 1 + b[a + 1]
      [] OTHER -> 0

FieldVal(b, a, wire, size) ==
    IF wire = 0 THEN b[a + 1] ELSE SubSeq(b, a + 1 + (wire \div 2), a + size)

NextField(b, wires, s, a, num, wire, rest, size) ==
    IF num = 0 \/ wire # wires[num] \/ size > rest
      THEN [s EXCEPT !.ok = FALSE]
      ELSE [ok |-> TRUE, at |-> a + 1 + size,
            fields |-> Append(s.fields, [num |-> num, val |-> FieldVal(b, a, wire, size)])]

\* next_field with its LETs as operators.
LEMMA NextFieldIs ==
    ASSUME NEW b, NEW wires, NEW s
    PROVE  next_field(b, wires, s) =
               NextField(b, wires, s, s.at, b[s.at] \div 8, b[s.at] % 8, Len(b) - s.at,
                         FieldSize(b, s.at, b[s.at] % 8, Len(b) - s.at))
BY DEF next_field, NextField, FieldSize, FieldVal

\* The sizes of the wire types that occur.
LEMMA FieldSizes ==
    ASSUME NEW b, NEW a, NEW rest
    PROVE  /\ FieldSize(b, a, 0, rest) = 1
           /\ rest # 0 => FieldSize(b, a, 2, rest) = 1 + b[a + 1]
BY DEF FieldSize

\* The state in which the fields fs have been read from the first o bytes.
ReadUpTo(o, fs) == [ok |-> TRUE, at |-> o + 1, fields |-> fs]

FieldOf(num, val) == [num |-> num, val |-> val]

\* A field of wire type 0 is decoded to its number.
LEMMA VarintDecodes ==
    ASSUME NEW b \in Seq(Byte), NEW o \in Nat, NEW num \in 1..5, NEW n \in Byte,
           HasAt(b, o, <<8 * num, n>>), NEW wires, wires[num] = 0, NEW fs
    PROVE  /\ o + 1 <= Len(b)
           /\ next_field(b, wires, ReadUpTo(o, fs))
                 = ReadUpTo(o + 2, Append(fs, FieldOf(num, n)))
<1> DEFINE s == [ok |-> TRUE, at |-> o + 1, fields |-> fs]
           x == <<8 * num, n>>
           a == o + 1
<1>1. s.at = a /\ s.fields = fs
  OBVIOUS
<1>2. o + 2 <= Len(b) /\ b[a] = 8 * num /\ b[a + 1] = n
  <2>1. Len(x) = 2 /\ x[1] = 8 * num /\ x[2] = n
    OBVIOUS
  <2> HIDE DEF x
  <2>2. o + 2 <= Len(b) /\ \A i \in 1..2 : b[o + i] = x[i]
    BY <2>1 DEF HasAt, x
  <2>3. 1 \in 1..2 /\ 2 \in 1..2 /\ o + 2 = (o + 1) + 1
    OBVIOUS
  <2> QED BY <2>1, <2>2, <2>3
<1>3. b[a] \div 8 = num /\ b[a] % 8 = 0
  <2>1. (8 * num) \div 8 = num /\ (8 * num) % 8 = 0
    OBVIOUS
  <2> QED BY <1>2, <2>1
<1>4. ~(1 > Len(b) - a) /\ num # 0 /\ a + 1 + 1 = o + 3 /\ Len(b) \in Nat
  BY <1>2
<1> HIDE DEF s
<1> DEFINE rest == Len(b) - a
<1>5. next_field(b, wires, s)
        = IF num = 0 \/ 0 # wires[num] \/ 1 > rest THEN [s EXCEPT !.ok = FALSE]
          ELSE [ok |-> TRUE, at |-> a + 1 + 1,
                fields |-> Append(fs, [num |-> num, val |-> b[a + 1]])]
  <2> HIDE DEF a, rest
  <2>1. s.at = a /\ b[s.at] \div 8 = num /\ b[s.at] % 8 = 0 /\ Len(b) - s.at = rest
    BY <1>1, <1>3 DEF rest
  <2>2. FieldSize(b, a, 0, rest) = 1
    BY FieldSizes
  <2>3. next_field(b, wires, s) = NextField(b, wires, s, a, num, 0, rest, 1)
    BY <2>1, <2>2, NextFieldIs, Zenon
  <2> QED BY <1>1, <2>3 DEF NextField, FieldVal
<1>6. next_field(b, wires, s)
        = [ok |-> TRUE, at |-> o + 3, fields |-> Append(fs, [num |-> num, val |-> n])]
  BY <1>2, <1>4, <1>5
<1>7. o + 1 <= Len(b)
  BY <1>2, <1>4
<1>8. (o + 2) + 1 = o + 3
  OBVIOUS
<1> QED BY <1>6, <1>7, <1>8 DEF s, ReadUpTo, FieldOf

\* A field of wire type 2 is decoded to its bytes.
LEMMA BytesDecodes ==
    ASSUME NEW b \in Seq(Byte), NEW o \in Nat, NEW num \in 1..5, NEW c \in Seq(Byte),
           HasAt(b, o, BytesField(num, c)), 8 * num + 2 \in Byte, Len(c) \in Byte,
           NEW wires, wires[num] = 2, NEW fs
    PROVE  /\ o + 1 <= Len(b)
           /\ Len(BytesField(num, c)) = 2 + Len(c)
           /\ next_field(b, wires, ReadUpTo(o, fs))
                 = ReadUpTo(o + (2 + Len(c)), Append(fs, FieldOf(num, c)))
<1> DEFINE s == [ok |-> TRUE, at |-> o + 1, fields |-> fs]
           x == <<8 * num + 2, Len(c)>>
           n == Len(c)
           a == o + 1
           rest == Len(b) - a
           size == 1 + n
<1>1. s.at = a /\ s.fields = fs
  OBVIOUS
<1>2. x \in Seq(Byte) /\ Len(x) = 2 /\ x[1] = 8 * num + 2 /\ x[2] = n
  OBVIOUS
<1>3. n \in Nat /\ Len(b) \in Nat
  OBVIOUS
<1>4. BytesField(num, c) = x \o c
  BY DEF BytesField
<1> HIDE DEF x
<1>5. HasAt(b, o, x) /\ HasAt(b, o + 2, c) /\ Len(BytesField(num, c)) = 2 + n
  <2> DEFINE y == BytesField(num, c)
  <2>1. x \in Seq(Byte) /\ y = x \o c /\ HasAt(b, o, y)
    BY <1>2, <1>4
  <2> HIDE DEF y
  <2>2. HasAt(b, o, x) /\ HasAt(b, o + Len(x), c) /\ Len(y) = Len(x) + Len(c)
    <3>1. HasAt(b, o, x)
      BY <2>1, HasAtConcat, Zenon
    <3>2. HasAt(b, o + Len(x), c)
      BY <2>1, HasAtConcat, Zenon
    <3>3. Len(y) = Len(x) + Len(c)
      BY <2>1
    <3> QED BY <3>1, <3>2, <3>3
  <2> QED BY <1>2, <2>2 DEF y
<1>6. o + 2 <= Len(b) /\ b[a] = 8 * num + 2 /\ b[a + 1] = n
  <2>1. o + 2 <= Len(b) /\ \A i \in 1..2 : b[o + i] = x[i]
    BY <1>2, <1>5 DEF HasAt
  <2>2. 1 \in 1..2 /\ 2 \in 1..2 /\ o + 2 = (o + 1) + 1
    OBVIOUS
  <2> QED BY <1>2, <2>1, <2>2
<1>7. (o + 2) + n <= Len(b) /\ \A i \in 1..n : b[(o + 2) + i] = c[i]
  BY <1>5 DEF HasAt
<1>8. b[a] \div 8 = num /\ b[a] % 8 = 2
  <2>1. (8 * num + 2) \div 8 = num /\ (8 * num + 2) % 8 = 2
    OBVIOUS
  <2> QED BY <1>6, <2>1
<1>9. /\ ~(size > rest) /\ num # 0 /\ rest # 0 /\ a + 1 + size = o + (2 + n) + 1
      /\ a + 1 + (2 \div 2) = (o + 2) + 1 /\ a + size = (o + 2) + n /\ size \in Nat
  <2> HIDE DEF n
  <2>1. 2 \div 2 = 1
    OBVIOUS
  <2> QED BY <1>3, <1>6, <1>7, <2>1
<1>10. SubSeq(b, (o + 2) + 1, (o + 2) + n) = c
  <2> DEFINE p == o + 2
             q == p + n
             y == SubSeq(b, p + 1, q)
  <2>1. p \in Nat /\ q \in Nat /\ q <= Len(b) /\ q - p = n /\ (p < q <=> n # 0)
    BY <1>3, <1>7
  <2>2. /\ y \in Seq(Byte)
        /\ Len(y) = IF p < q THEN q - p ELSE 0
        /\ \A i \in 1..(q - p) : y[i] = b[p + i]
    <3> HIDE DEF p, q
    <3> QED BY <2>1, PayloadType
  <2>3. Len(y) = n /\ \A i \in 1..n : y[i] = c[i]
    <3>1. \A i \in 1..n : b[p + i] = c[i]
      BY <1>7
    <3> HIDE DEF p, q, y
    <3>2. Len(y) = n
      BY <1>3, <2>1, <2>2
    <3> QED BY <2>1, <2>2, <3>1, <3>2
  <2> HIDE DEF y
  <2>4. y = c
    BY <2>2, <2>3, SeqEqual
  <2> QED BY <2>4 DEF y
<1> HIDE DEF s, rest, a, n
<1>11. next_field(b, wires, s)
        = IF num = 0 \/ 2 # wires[num] \/ size > rest THEN [s EXCEPT !.ok = FALSE]
          ELSE [ok |-> TRUE, at |-> a + 1 + size,
                fields |-> Append(fs, [num |-> num,
                                       val |-> SubSeq(b, a + 1 + (2 \div 2), a + size)])]
  <2>1. s.at = a /\ b[s.at] \div 8 = num /\ b[s.at] % 8 = 2 /\ Len(b) - s.at = rest
    BY <1>1, <1>8 DEF rest
  <2>2. FieldSize(b, a, 2, rest) = size
    BY <1>6, <1>9, FieldSizes
  <2> HIDE DEF size
  <2>3. next_field(b, wires, s) = NextField(b, wires, s, a, num, 2, rest, size)
    BY <2>1, <2>2, NextFieldIs, Zenon
  <2>4. FieldVal(b, a, 2, size) = SubSeq(b, a + 1 + (2 \div 2), a + size)
    BY DEF FieldVal
  <2> QED BY <1>1, <2>3, <2>4 DEF NextField
<1>12. next_field(b, wires, s)
        = [ok |-> TRUE, at |-> o + (2 + n) + 1, fields |-> Append(fs, [num |-> num, val |-> c])]
  <2> HIDE DEF size
  <2> QED BY <1>9, <1>10, <1>11
<1>13. o + 1 <= Len(b)
  BY <1>3, <1>6
<1> QED BY <1>5, <1>12, <1>13 DEF s, n, ReadUpTo, FieldOf

-----------------------------------------------------------------------------
\* The bytes of a message, field by field.

\* Byte strings that are joined.
LEMMA ConcatBytes ==
    ASSUME NEW s, s \in Seq(Byte), NEW t, t \in Seq(Byte), NEW x, x = s \o t
    PROVE  x \in Seq(Byte) /\ Len(x) = Len(s) + Len(t)
BY ConcatProperties

\* b is the four parts, one behind the other.
Parts(b, A, B, C, D) ==
    /\ b \in Seq(Byte) /\ Len(b) = Len(A) + Len(B) + Len(C) + Len(D)
    /\ HasAt(b, 0, A) /\ HasAt(b, Len(A), B)
    /\ HasAt(b, Len(A) + Len(B), C) /\ HasAt(b, Len(A) + Len(B) + Len(C), D)

\* Four byte strings that are joined lie one behind the other.
LEMMA PartsAt ==
    ASSUME NEW A \in Seq(Byte), NEW B \in Seq(Byte), NEW C \in Seq(Byte), NEW D \in Seq(Byte),
           NEW b, b = A \o B \o C \o D
    PROVE  Parts(b, A, B, C, D)
<1> DEFINE Y == A \o B
           X == Y \o C
<1>3. b = X \o D
  OBVIOUS
<1>4. Y = A \o B /\ X = Y \o C
  OBVIOUS
<1> HIDE DEF X, Y
<1>1. Y \in Seq(Byte) /\ Len(Y) = Len(A) + Len(B)
  BY <1>4, ConcatBytes, Zenon
<1>2. X \in Seq(Byte) /\ Len(X) = Len(Y) + Len(C)
  BY <1>1, <1>4, ConcatBytes, Zenon
<1>5. b \in Seq(Byte) /\ Len(b) = Len(X) + Len(D)
  BY <1>2, <1>3, ConcatBytes, Zenon
<1>6. HasAt(b, 0, b)
  BY <1>5, HasAtSelf
<1>0. 0 \in Nat
  OBVIOUS
<1>7. HasAt(b, 0, X)
  BY <1>0, <1>2, <1>3, <1>5, <1>6, HasAtConcat, Zenon
<1>8. HasAt(b, 0 + Len(X), D)
  BY <1>0, <1>2, <1>3, <1>5, <1>6, HasAtConcat, Zenon
<1>9. HasAt(b, 0, Y)
  BY <1>0, <1>1, <1>4, <1>5, <1>7, HasAtConcat, Zenon
<1>10. HasAt(b, 0 + Len(Y), C)
  BY <1>0, <1>1, <1>4, <1>5, <1>7, HasAtConcat, Zenon
<1>11. HasAt(b, 0, A)
  BY <1>0, <1>4, <1>5, <1>9, HasAtConcat, Zenon
<1>12. HasAt(b, 0 + Len(A), B)
  BY <1>0, <1>4, <1>5, <1>9, HasAtConcat, Zenon
<1>13. Len(A) \in Nat /\ Len(B) \in Nat /\ Len(C) \in Nat /\ Len(D) \in Nat
  OBVIOUS
<1>14. /\ 0 + Len(X) = Len(A) + Len(B) + Len(C) /\ 0 + Len(Y) = Len(A) + Len(B)
       /\ 0 + Len(A) = Len(A) /\ Len(b) = Len(A) + Len(B) + Len(C) + Len(D)
  <2> DEFINE la == Len(A)
             lb == Len(B)
             lc == Len(C)
             ld == Len(D)
             lx == Len(X)
             ly == Len(Y)
  <2>1. /\ la \in Nat /\ lb \in Nat /\ lc \in Nat /\ ld \in Nat
        /\ ly = la + lb /\ lx = ly + lc /\ Len(b) = lx + ld
    BY <1>1, <1>2, <1>5, <1>13
  <2> HIDE DEF la, lb, lc, ld, lx, ly
  <2>2. 0 + lx = la + lb + lc /\ 0 + ly = la + lb /\ 0 + la = la /\ Len(b) = la + lb + lc + ld
    BY <2>1
  <2> QED BY <2>2 DEF la, lb, lc, ld, lx, ly
<1> QED BY <1>5, <1>8, <1>10, <1>11, <1>12, <1>14 DEF Parts

\* The bytes of a length-delimited field.
LEMMA BytesFieldType ==
    ASSUME NEW num \in Nat, NEW c \in Seq(Byte), 8 * num + 2 \in Byte, Len(c) \in Byte
    PROVE  BytesField(num, c) \in Seq(Byte) /\ Len(BytesField(num, c)) = 2 + Len(c)
<1> DEFINE x == <<8 * num + 2, Len(c)>>
<1>1. x \in Seq(Byte) /\ Len(x) = 2
  OBVIOUS
<1> DEFINE y == BytesField(num, c)
<1>2. y = x \o c
  BY DEF BytesField
<1> HIDE DEF x, y
<1>3. y \in Seq(Byte) /\ Len(y) = Len(x) + Len(c)
  BY <1>1, <1>2, ConcatBytes, Zenon
<1> QED BY <1>1, <1>3 DEF y

\* One step of the loop over the fields.
LEMMA DecodeStep ==
    ASSUME NEW b \in Seq(Byte), NEW wires, NEW st, IsDecode(st, b, wires),
           NEW j \in 0..Len(b), NEW o \in Nat, NEW fs,
           st[j] = ReadUpTo(o, fs), o + 1 <= Len(b), j + 1 <= Len(b)
    PROVE  st[j + 1] = next_field(b, wires, ReadUpTo(o, fs))
<1> DEFINE s == ReadUpTo(o, fs)
<1>1. s.ok /\ s.at <= Len(b)
  BY DEF ReadUpTo
<1>2. j + 1 \in 1..Len(b) /\ (j + 1) - 1 = j
  OBVIOUS
<1>3. st[j + 1] = FieldRound(b, wires, st[(j + 1) - 1])
  BY <1>2 DEF IsDecode
<1>4. st[j] = s
  OBVIOUS
<1> HIDE DEF s
<1>5. st[j + 1] = next_field(b, wires, s)
  BY <1>1, <1>2, <1>3, <1>4 DEF FieldRound
<1> QED BY <1>5 DEF s

\* Before the first field.
LEMMA DecodeStart ==
    ASSUME NEW b, NEW wires, NEW st, IsDecode(st, b, wires)
    PROVE  st[0] = ReadUpTo(0, << >>)
BY DEF IsDecode, NoFields, ReadUpTo

\* A length-delimited field is read in one round.
LEMMA DecodeBytesStep ==
    ASSUME NEW b \in Seq(Byte), NEW wires, NEW st, IsDecode(st, b, wires),
           NEW j \in 0..Len(b), NEW o \in Nat, NEW fs,
           st[j] = ReadUpTo(o, fs), j + 1 <= Len(b),
           NEW num \in 1..5, NEW c \in Seq(Byte), HasAt(b, o, BytesField(num, c)),
           8 * num + 2 \in Byte, Len(c) \in Byte, wires[num] = 2
    PROVE  st[j + 1] = ReadUpTo(o + (2 + Len(c)), Append(fs, FieldOf(num, c)))
<1>1. o + 1 <= Len(b)
  BY BytesDecodes
<1>2. next_field(b, wires, ReadUpTo(o, fs))
        = ReadUpTo(o + (2 + Len(c)), Append(fs, FieldOf(num, c)))
  BY BytesDecodes
<1>3. st[j + 1] = next_field(b, wires, ReadUpTo(o, fs))
  BY <1>1, DecodeStep
<1> QED BY <1>2, <1>3

\* A number is read in one round.
LEMMA DecodeVarintStep ==
    ASSUME NEW b \in Seq(Byte), NEW wires, NEW st, IsDecode(st, b, wires),
           NEW j \in 0..Len(b), NEW o \in Nat, NEW fs,
           st[j] = ReadUpTo(o, fs), j + 1 <= Len(b),
           NEW num \in 1..5, NEW n \in Byte, HasAt(b, o, <<8 * num, n>>), wires[num] = 0
    PROVE  st[j + 1] = ReadUpTo(o + 2, Append(fs, FieldOf(num, n)))
<1>1. o + 1 <= Len(b)
  BY VarintDecodes
<1>2. next_field(b, wires, ReadUpTo(o, fs))
        = ReadUpTo(o + 2, Append(fs, FieldOf(num, n)))
  BY VarintDecodes
<1>3. st[j + 1] = next_field(b, wires, ReadUpTo(o, fs))
  BY <1>1, DecodeStep
<1> QED BY <1>2, <1>3

\* All bytes have been read.
LEMMA DecodeEnds ==
    ASSUME NEW b \in Seq(Byte), NEW wires, NEW st, IsDecode(st, b, wires),
           NEW m \in 0..Len(b), NEW fs, st[m] = ReadUpTo(Len(b), fs)
    PROVE  decode_fields(b, wires).ok /\ decode_fields(b, wires).fields = fs
<1>1. st[m].at = Len(b) + 1 /\ st[m].ok /\ st[m].fields = fs /\ Len(b) \in Nat
  BY DEF ReadUpTo
<1>2. st[m].at > Len(b)
  BY <1>1
<1>3. decode_fields(b, wires) = st[m]
  BY <1>2, DecodeDone
<1> QED BY <1>1, <1>3

\* The message of a value.
LEMMA ValueDecodes ==
    ASSUME NEW v \in Seq(Byte), Len(v) + 2 \in Byte
    PROVE  /\ BytesField(5, v) \in Seq(Byte) /\ Len(BytesField(5, v)) = 2 + Len(v)
           /\ decode_fields(BytesField(5, v), ValueWires).ok
           /\ decode_value(BytesField(5, v)) = v
<1> DEFINE b == BytesField(5, v)
           fs == Append(<< >>, FieldOf(5, v))
<1>1. /\ Len(v) \in Nat /\ Len(v) \in Byte /\ 42 \in Byte /\ 8 * 5 + 2 = 42 /\ 5 \in 1..5
      /\ ValueWires[5] = 2
  <2>1. Len(v) \in Nat /\ 8 * 5 + 2 = 42 /\ 5 \in 1..5
    OBVIOUS
  <2>2. Len(v) \in Byte /\ 42 \in Byte
    <3> DEFINE n == Len(v)
    <3> HIDE DEF n
    <3>1. n \in Nat /\ n + 2 \in 0..47
      BY <2>1, BytesAre DEF n
    <3>2. n \in 0..47 /\ 42 \in 0..47
      BY <3>1
    <3> QED BY <3>2, BytesAre DEF n
  <2>3. ValueWires[5] = 2
    BY DEF ValueWires
  <2> QED BY <2>1, <2>2, <2>3
<1>2. b \in Seq(Byte) /\ Len(b) = 2 + Len(v)
  BY <1>1, BytesFieldType
<1>3. HasAt(b, 0, b)
  BY <1>2, HasAtSelf
<1>4. PICK st : IsDecode(st, b, ValueWires)
  BY <1>2, DecodeExists
<1>5. st[0] = ReadUpTo(0, << >>)
  BY <1>4, DecodeStart
<1>6. 0 \in 0..Len(b) /\ 0 + 1 <= Len(b) /\ 1 \in 0..Len(b) /\ Len(b) \in Nat /\ 0 \in Nat
  BY <1>1, <1>2
<1>7. st[0 + 1] = ReadUpTo(0 + (2 + Len(v)), fs)
  <2>1. 8 * 5 + 2 \in Byte
    BY <1>1
  <2> DEFINE z == 0
             num == 5
             e == << >>
  <2>2. /\ z \in 0..Len(b) /\ z \in Nat /\ st[z] = ReadUpTo(z, e) /\ z + 1 <= Len(b)
        /\ num \in 1..5 /\ HasAt(b, z, BytesField(num, v)) /\ 8 * num + 2 \in Byte
        /\ Len(v) \in Byte /\ ValueWires[num] = 2 /\ b \in Seq(Byte)
    BY <1>1, <1>2, <1>3, <1>5, <1>6, <2>1, Zenon
  <2> HIDE DEF z, num, b, e
  <2>3. st[z + 1] = ReadUpTo(z + (2 + Len(v)), Append(e, FieldOf(num, v)))
    BY <1>4, <2>2, DecodeBytesStep
  <2> QED BY <2>3 DEF z, num, b, e
<1> HIDE DEF b
<1>8. st[1] = ReadUpTo(Len(b), fs)
  BY <1>1, <1>2, <1>6, <1>7
<1>9. fs # << >> /\ Len(fs) = 1 /\ fs[1] = FieldOf(5, v)
  OBVIOUS
<1> HIDE DEF fs
<1>10. decode_fields(b, ValueWires).ok /\ decode_fields(b, ValueWires).fields = fs
  BY <1>2, <1>4, <1>6, <1>8, DecodeEnds
<1>11. Last(fs).num = 5 /\ Last(fs).val = v
  BY <1>9 DEF Last, FieldOf
<1>12. decode_value(b) = v
  BY <1>9, <1>10, <1>11 DEF decode_value
<1> QED BY <1>2, <1>10, <1>12 DEF b

-----------------------------------------------------------------------------
\* Looking up the fields that have been decoded.

\* The value of one more field.
Joined(b, f) == IF f.num = 3 THEN b \o f.val ELSE b

ValueFold(it, fs) ==
    it = [s \in SUBSET (DOMAIN fs) |->
             IF s = {} THEN << >> ELSE Joined(it[s \ {Max(s)}], fs[Max(s)])]

\* value_bytes is the recursion in which the last field is joined last.
LEMMA ValueIsFold ==
    ASSUME NEW fs
    PROVE  value_bytes(fs) = (CHOOSE it : ValueFold(it, fs))[DOMAIN fs]
BY DEF value_bytes, FoldLeft, MapThenFoldSet, ValueFold, Joined

\* At most one of the fields, the i-th, has number 3.
LEMMA ValueBytesAre ==
    ASSUME NEW F, NEW fs \in Seq(F), NEW i \in 0..Len(fs), NEW w \in Seq(Byte),
           \A j \in 1..Len(fs) : fs[j].num = 3 <=> j = i,
           i # 0 => fs[i].val = w
    PROVE  value_bytes(fs) = IF i = 0 THEN << >> ELSE w
<1> DEFINE n == Len(fs)
           it == CHOOSE x : ValueFold(x, fs)
           V(s) == IF i \in s THEN w ELSE << >>
           iu == [s \in SUBSET (1..n) |-> V(s)]
<1>1. n \in Nat /\ DOMAIN fs = 1..n
  OBVIOUS
<1>2. << >> \o w = w
  BY ConcatEmptySeq
<1>3. ASSUME NEW s \in SUBSET (1..n), s # {}
      PROVE  Max(s) \in s
  <2>1. s \in SUBSET Nat /\ \A x \in s : x <= n
    BY <1>1
  <2> HIDE DEF n
  <2> QED BY <1>1, <1>3, <2>1, MaxOfBounded
<1>4. ASSUME NEW s \in SUBSET (1..n), s # {}
      PROVE  V(s) = Joined(V(s \ {Max(s)}), fs[Max(s)])
  <2> DEFINE m == Max(s)
  <2>1. m \in s /\ m \in 1..n
    BY <1>3, <1>4
  <2> HIDE DEF m, n
  <2>2. CASE m = i
    <3>1. fs[m].num = 3 /\ fs[m].val = w
      BY <1>1, <2>1, <2>2 DEF n
    <3>2. V(s) = w /\ V(s \ {m}) = << >>
      BY <2>1, <2>2
    <3> QED BY <1>2, <3>1, <3>2 DEF Joined, m
  <2>3. CASE m # i
    <3>1. fs[m].num # 3
      BY <2>1, <2>3 DEF n
    <3>2. V(s) = V(s \ {m})
      BY <2>3
    <3> HIDE DEF V
    <3> QED BY <3>1, <3>2 DEF Joined, m
  <2> QED BY <2>2, <2>3
<1>5. V({}) = << >>
  OBVIOUS
<1>6. ASSUME NEW s \in SUBSET (1..n)
      PROVE  V(s) = IF s = {} THEN << >> ELSE Joined(iu[s \ {Max(s)}], fs[Max(s)])
  <2>1. iu[s \ {Max(s)}] = V(s \ {Max(s)})
    OBVIOUS
  <2> HIDE DEF V, n, iu
  <2> QED BY <1>4, <1>5, <2>1
<1>7. iu = [s \in SUBSET (1..n) |->
             IF s = {} THEN << >> ELSE Joined(iu[s \ {Max(s)}], fs[Max(s)])]
  <2>1. iu = [s \in SUBSET (1..n) |-> V(s)]
    OBVIOUS
  <2> HIDE DEF V, n, iu
  <2> QED BY <1>6, <2>1
<1>8. ValueFold(iu, fs)
  <2> HIDE DEF V, n, iu
  <2> QED BY <1>1, <1>7 DEF ValueFold
<1>9. ValueFold(it, fs)
  <2> HIDE DEF iu
  <2> QED BY <1>8
<1> HIDE DEF it, n, V
<1>10. \A s \in SUBSET (1..n) :
          it[s] = IF s = {} THEN << >> ELSE Joined(it[s \ {Max(s)}], fs[Max(s)])
  BY <1>1, <1>9 DEF ValueFold
<1> DEFINE Bad == {j \in 0..n : it[1..j] # V(1..j)}
<1>11. ASSUME Bad # {} PROVE FALSE
  <2>1. PICK m \in Bad : \A l \in Bad : m <= l
    <3>1. Bad \in SUBSET Nat
      BY <1>1
    <3> HIDE DEF Bad
    <3> QED BY <1>11, <3>1, NatMin
  <2>2. m \in 0..n /\ it[1..m] # V(1..m)
    BY <2>1
  <2>3. m # 0
    <3>1. 1..0 = {} /\ {} \in SUBSET (1..n)
      OBVIOUS
    <3>2. it[1..0] = V(1..0)
      BY <1>5, <1>10, <3>1
    <3> QED BY <2>2, <3>2
  <2>4. m \in 1..n /\ m - 1 \in 0..n /\ m \in Nat
    BY <1>1, <2>2, <2>3
  <2>5. it[1..(m - 1)] = V(1..(m - 1))
    <3>1. m - 1 \notin Bad
      <4> HIDE DEF Bad
      <4> QED BY <2>1, <2>4
    <3> QED BY <2>4, <3>1
  <2> HIDE DEF Bad
  <2>6. 1..m \in SUBSET (1..n) /\ 1..m # {} /\ (1..m) \ {m} = 1..(m - 1)
    <3>1. m \in 1..m /\ \A x \in 1..m : x \in 1..n
      BY <1>1, <2>4
    <3>2. (1..m) \ {m} = 1..(m - 1)
      BY <2>4
    <3> QED BY <3>1, <3>2
  <2>7. Max(1..m) = m
    BY <2>3, <2>4, MaxOfInterval
  <2>8. it[1..m] = Joined(it[1..(m - 1)], fs[m])
    BY <1>10, <2>6, <2>7
  <2>9. V(1..m) = Joined(V(1..(m - 1)), fs[m])
    BY <1>4, <2>6, <2>7
  <2> QED BY <2>2, <2>5, <2>8, <2>9
<1>12. it[1..n] = V(1..n)
  <2>1. n \in 0..n
    BY <1>1
  <2> QED BY <1>11, <2>1
<1>13. V(1..n) = IF i = 0 THEN << >> ELSE w
  <2>1. i \in 1..n <=> i # 0
    BY <1>1 DEF n
  <2> QED BY <2>1 DEF V
<1> QED BY <1>1, <1>12, <1>13, ValueIsFold DEF it

\* The maximum of one number.
LEMMA MaxOfOne ==
    ASSUME NEW x \in Nat
    PROVE  Max({x}) = x
<1>1. {x} \in SUBSET Nat /\ {x} # {} /\ \A y \in {x} : y <= x
  OBVIOUS
<1>2. Max({x}) \in {x}
  BY <1>1, MaxOfBounded
<1> QED BY <1>2

\* The i-th field is the only one with number num, and its value is w.
OnlyField(fs, num, i, w) ==
    /\ i \in 1..Len(fs) /\ fs[i].num = num /\ fs[i].val = w
    /\ \A j \in 1..Len(fs) : fs[j].num = num => j = i

\* A field that occurs once is the one that field finds.
LEMMA FieldIs ==
    ASSUME NEW F, NEW fs \in Seq(F), NEW num, NEW default, NEW i, NEW w,
           OnlyField(fs, num, i, w)
    PROVE  field(fs, num, default) = w
<1>0. i \in 1..Len(fs) /\ fs[i].num = num /\ fs[i].val = w
      /\ \A j \in 1..Len(fs) : fs[j].num = num => j = i
  BY DEF OnlyField
<1> DEFINE I == {j \in 1..Len(fs) : fs[j].num = num}
<1>1. I = {i}
  BY <1>0
<1>2. Max(I) = i /\ I # {} /\ i # 0
  BY <1>0, <1>1, MaxOfOne
<1>3. SelectLastInSeq(fs, LAMBDA f : f.num = num) = IF I # {} THEN Max(I) ELSE 0
  BY DEF SelectLastInSeq
<1> HIDE DEF I
<1> QED BY <1>0, <1>2, <1>3 DEF field

\* A field that does not occur has its default.
LEMMA FieldIsNot ==
    ASSUME NEW F, NEW fs \in Seq(F), NEW num, NEW default,
           \A j \in 1..Len(fs) : fs[j].num # num
    PROVE  field(fs, num, default) = default
<1> DEFINE I == {j \in 1..Len(fs) : fs[j].num = num}
<1>1. I = {}
  OBVIOUS
<1>3. SelectLastInSeq(fs, LAMBDA f : f.num = num) = IF I # {} THEN Max(I) ELSE 0
  BY DEF SelectLastInSeq
<1> HIDE DEF I
<1> QED BY <1>1, <1>3 DEF field

-----------------------------------------------------------------------------
\* An entry comes back from its bytes: PUT.

\* The entries that a log can hold.
AllEntries ==
    {put_entry(k, v, n) : k \in Keys, v \in Values, n \in 1..(ByteLimit - 1)}
        \cup {delete_entry(k, n) : k \in Keys, n \in 1..(ByteLimit - 1)}
        \cup {commit_entry(n) : n \in 1..(ByteLimit - 1)}

\* What BytesAssumption says of a key.
LEMMA KeysAreBytes ==
    ASSUME NEW k \in Keys
    PROVE  /\ k \in Seq(Byte) /\ k # << >> /\ Len(k) \in Nat /\ Len(k) + 10 < 48
           /\ Len(k) \in Byte
<1>1. k \in Seq(0..(ByteLimit - 1)) /\ k # << >>
  BY BytesAssumption
<1>2. k \in Seq(Byte) /\ Len(k) \in Nat
  BY <1>1 DEF Byte
<1>3. PICK v \in Values : Len(k) + Len(v) + 10 < ByteLimit
  BY BytesAssumption
<1>4. v \in Seq(0..(ByteLimit - 1))
  BY BytesAssumption
<1>5. Len(v) \in Nat
  BY <1>4
<1> DEFINE m == Len(k)
           n == Len(v)
<1>6. m \in Nat /\ n \in Nat /\ m + n + 10 < 48
  BY <1>2, <1>3, <1>5, BytesAre
<1> HIDE DEF m, n
<1>7. m + 10 < 48 /\ m \in 0..47
  BY <1>6
<1> QED BY <1>1, <1>2, <1>7, BytesAre DEF m

\* What BytesAssumption says of a value.
LEMMA ValuesAreBytes ==
    ASSUME NEW k \in Keys, NEW v \in Values
    PROVE  /\ v \in Seq(Byte) /\ v # None /\ Len(v) \in Nat
           /\ Len(k) + Len(v) + 10 < 48 /\ Len(v) + 2 \in Byte
<1>1. v \in Seq(0..(ByteLimit - 1)) /\ v # None
  BY BytesAssumption
<1>2. v \in Seq(Byte) /\ Len(v) \in Nat
  BY <1>1 DEF Byte
<1>3. Len(k) + Len(v) + 10 < ByteLimit
  BY BytesAssumption
<1> DEFINE m == Len(k)
           n == Len(v)
<1>4. m \in Nat /\ n \in Nat /\ m + n + 10 < 48
  BY <1>2, <1>3, KeysAreBytes, BytesAre
<1> HIDE DEF m, n
<1>5. n + 2 \in 0..47
  BY <1>4
<1> QED BY <1>1, <1>2, <1>4, <1>5, BytesAre DEF m, n

\* Two fields, one appended behind the other.
LEMMA TwoFields ==
    ASSUME NEW f, NEW g
    PROVE  LET fs == Append(Append(<< >>, f), g)
           IN  fs \in Seq({f, g}) /\ Len(fs) = 2 /\ fs[1] = f /\ fs[2] = g
OBVIOUS

\* Three of them.
LEMMA ThreeFields ==
    ASSUME NEW f, NEW g, NEW h
    PROVE  LET fs == Append(Append(Append(<< >>, f), g), h)
           IN  fs \in Seq({f, g, h}) /\ Len(fs) = 3 /\ fs[1] = f /\ fs[2] = g /\ fs[3] = h
OBVIOUS

\* The tags of the fields of a WalEntry are bytes.
LEMMA WiresAre ==
    /\ EntryWires[1] = 0 /\ EntryWires[2] = 2 /\ EntryWires[3] = 2 /\ EntryWires[4] = 0
    /\ 18 \in Byte /\ 26 \in Byte /\ 8 * 2 + 2 \in Byte /\ 8 * 3 + 2 \in Byte
    /\ 32 \in Byte /\ 8 \in Byte /\ 8 * 4 \in Byte /\ 8 * 1 \in Byte
<1>1. EntryWires[1] = 0 /\ EntryWires[2] = 2 /\ EntryWires[3] = 2 /\ EntryWires[4] = 0
  BY DEF EntryWires
<1>2. Byte = 0..47
  BY BytesAre
<1> QED BY <1>1, <1>2

\* The bytes of a number.
LEMMA VarintType ==
    ASSUME NEW num, 8 * num \in Byte, NEW n \in Byte
    PROVE  <<8 * num, n>> \in Seq(Byte) /\ Len(<<8 * num, n>>) = 2
OBVIOUS

\* A message decodes if its fields do.
LEMMA Decodable ==
    ASSUME NEW b, NEW F, NEW fs \in Seq(F), decode_fields(b, EntryWires).ok,
           decode_fields(b, EntryWires).fields = fs,
           \A j \in 1..Len(fs) : fs[j].num = 3 => decode_fields(fs[j].val, ValueWires).ok
    PROVE  ~undecodable(b)
<1>1. \A f \in ToSet(fs) : f.num = 3 => decode_fields(f.val, ValueWires).ok
  <2>1. DOMAIN fs = 1..Len(fs)
    OBVIOUS
  <2>2. \A f \in ToSet(fs) : \E j \in 1..Len(fs) : f = fs[j]
    BY <2>1 DEF ToSet
  <2> QED BY <2>2
<1> QED BY <1>1 DEF undecodable

\* A PUT comes back from its bytes.
LEMMA PutDecodes ==
    ASSUME NEW k \in Keys, NEW v \in Values, NEW n \in 1..47
    PROVE  LET b == encode(put_entry(k, v, n))
           IN  /\ b \in Seq(Byte) /\ Len(b) \in 1..47
               /\ ~undecodable(b) /\ decode(b) = put_entry(k, v, n)
<1> DEFINE e == put_entry(k, v, n)
           b == encode(e)
           w == BytesField(5, v)
           A == << >>
           B == BytesField(2, k)
           C == BytesField(3, w)
           D == <<8 * 4, n>>
<1>1. k \in Seq(Byte) /\ k # << >> /\ Len(k) \in Nat /\ Len(k) \in Byte
  BY KeysAreBytes
<1>2. v \in Seq(Byte) /\ v # None /\ Len(v) \in Nat /\ Len(v) + 2 \in Byte
      /\ Len(k) + Len(v) + 10 < 48
  BY ValuesAreBytes
<1>3. /\ w \in Seq(Byte) /\ Len(w) = 2 + Len(v) /\ decode_fields(w, ValueWires).ok
      /\ decode_value(w) = v
  BY <1>2, ValueDecodes
<1>4. Len(w) \in Byte
  <2>1. 2 + Len(v) = Len(v) + 2
    BY <1>2
  <2> QED BY <1>2, <1>3, <2>1
<1>5. b = A \o B \o C \o D
  <2>1. e.op = "put" /\ e.key = k /\ e.value = v /\ e.sequence = n
    BY DEF put_entry
  <2>2. VarintField(1, OpCode(e.op)) = << >>
    BY <2>1 DEF VarintField, OpCode
  <2>3. VarintField(4, e.sequence) = D
    BY <2>1 DEF VarintField
  <2> HIDE DEF e, B, C, D, w
  <2> QED BY <1>1, <1>2, <2>1, <2>2, <2>3 DEF encode, B, C, w
<1>6. B \in Seq(Byte) /\ Len(B) = 2 + Len(k)
  <2>1. 2 \in Nat /\ 8 * 2 + 2 \in Byte
    BY WiresAre
  <2> QED BY <1>1, <2>1, BytesFieldType, Zenon
<1>7. C \in Seq(Byte) /\ Len(C) = 2 + Len(w)
  <2>1. 3 \in Nat /\ 8 * 3 + 2 \in Byte
    BY WiresAre
  <2> HIDE DEF w
  <2> QED BY <1>3, <1>4, <2>1, BytesFieldType, Zenon
<1>8. n \in Byte /\ n # 0
  BY BytesAre
<1>9. D \in Seq(Byte) /\ Len(D) = 2
  BY <1>8, WiresAre, VarintType
<1>10. A \in Seq(Byte) /\ Len(A) = 0
  OBVIOUS
<1> HIDE DEF b, w, A, B, C, D
<1>11. /\ b \in Seq(Byte) /\ Len(b) = Len(A) + Len(B) + Len(C) + Len(D)
       /\ HasAt(b, Len(A), B) /\ HasAt(b, Len(A) + Len(B), C)
       /\ HasAt(b, Len(A) + Len(B) + Len(C), D)
  <2>0. A \in Seq(Byte) /\ B \in Seq(Byte) /\ C \in Seq(Byte) /\ D \in Seq(Byte)
    BY <1>6, <1>7, <1>9, <1>10
  <2>1. Parts(b, A, B, C, D)
    BY <1>5, <2>0, PartsAt
  <2> QED BY <2>1 DEF Parts
<1> DEFINE o1 == 2 + Len(k)
           o2 == o1 + (2 + Len(w))
<1>12. /\ o1 \in Nat /\ o2 \in Nat /\ Len(b) = o2 + 2 /\ Len(b) \in 6..47
       /\ HasAt(b, 0, B) /\ HasAt(b, o1, C) /\ HasAt(b, o2, D)
  <2>1. Len(A) = 0 /\ Len(A) + Len(B) = o1 /\ Len(A) + Len(B) + Len(C) = o2
        /\ Len(b) = o2 + 2 /\ o1 \in Nat /\ o2 \in Nat
    BY <1>1, <1>2, <1>3, <1>6, <1>7, <1>9, <1>10, <1>11
  <2>2. Len(b) \in 6..47
    <3> DEFINE x == Len(k)
               y == Len(v)
               z == Len(b)
    <3>1. x \in Nat /\ y \in Nat /\ x + y + 10 < 48 /\ z = 2 + x + (2 + (2 + y)) + 2
      BY <1>1, <1>2, <1>3, <2>1
    <3> HIDE DEF x, y, z
    <3>2. z \in 6..47
      BY <3>1
    <3> QED BY <3>2 DEF z
  <2> HIDE DEF o1, o2
  <2> QED BY <1>11, <2>1, <2>2
<1> HIDE DEF o1, o2
<1>13. PICK st : IsDecode(st, b, EntryWires)
  BY <1>11, DecodeExists
<1>14. /\ Len(b) \in Nat /\ 0 \in 0..Len(b) /\ 1 \in 0..Len(b)
       /\ 2 \in 0..Len(b) /\ 3 \in 0..Len(b)
       /\ 0 + 1 <= Len(b) /\ 1 + 1 <= Len(b) /\ 2 + 1 <= Len(b)
  BY <1>12
<1> DEFINE f == FieldOf(2, k)
           g == FieldOf(3, w)
           h == FieldOf(4, n)
           e0 == << >>
           e1 == Append(e0, f)
           e2 == Append(e1, g)
           fs == Append(e2, h)
<1>15. st[0] = ReadUpTo(0, e0)
  BY <1>13, DecodeStart
<1> HIDE DEF e0
<1>16. st[1] = ReadUpTo(o1, e1)
  <2> DEFINE num == 2
             z == 0
  <2>1. /\ num \in 1..5 /\ 8 * num + 2 \in Byte /\ EntryWires[num] = 2
        /\ HasAt(b, z, BytesField(num, k)) /\ st[z] = ReadUpTo(z, e0)
        /\ z \in Nat /\ z \in 0..Len(b) /\ z + 1 <= Len(b)
    BY <1>12, <1>14, <1>15, WiresAre DEF B
  <2> HIDE DEF num, z
  <2>2. st[z + 1] = ReadUpTo(z + (2 + Len(k)), Append(e0, FieldOf(num, k)))
    BY <1>1, <1>11, <1>13, <2>1, DecodeBytesStep
  <2>3. z + 1 = 1 /\ z + (2 + Len(k)) = o1
    BY <1>1 DEF z, o1
  <2> QED BY <2>2, <2>3 DEF num
<1> HIDE DEF e1
<1>17. st[2] = ReadUpTo(o2, e2)
  <2> DEFINE num == 3
             z == 1
  <2>1. /\ num \in 1..5 /\ 8 * num + 2 \in Byte /\ EntryWires[num] = 2
        /\ HasAt(b, o1, BytesField(num, w)) /\ st[z] = ReadUpTo(o1, e1)
        /\ z \in 0..Len(b) /\ z + 1 <= Len(b)
        /\ o1 \in Nat /\ b \in Seq(Byte) /\ w \in Seq(Byte)
    BY <1>3, <1>11, <1>12, <1>14, <1>16, WiresAre DEF C
  <2> HIDE DEF num, z
  <2>2. st[z + 1] = ReadUpTo(o1 + (2 + Len(w)), Append(e1, FieldOf(num, w)))
    BY <1>4, <1>13, <2>1, DecodeBytesStep
  <2>3. z + 1 = 2
    BY DEF z
  <2> QED BY <2>2, <2>3 DEF num, o2
<1> HIDE DEF e2
<1>18. st[3] = ReadUpTo(Len(b), fs)
  <2> DEFINE num == 4
             z == 2
  <2>1. /\ num \in 1..5 /\ EntryWires[num] = 0
        /\ HasAt(b, o2, <<8 * num, n>>) /\ st[z] = ReadUpTo(o2, e2)
        /\ z \in 0..Len(b) /\ z + 1 <= Len(b)
    BY <1>12, <1>14, <1>17, WiresAre DEF D
  <2> HIDE DEF num, z
  <2>2. st[z + 1] = ReadUpTo(o2 + 2, Append(e2, FieldOf(num, n)))
    BY <1>8, <1>11, <1>12, <1>13, <2>1, DecodeVarintStep
  <2>3. z + 1 = 3 /\ o2 + 2 = Len(b)
    BY <1>12 DEF z
  <2> QED BY <2>2, <2>3 DEF num
<1>19. fs \in Seq({f, g, h}) /\ Len(fs) = 3 /\ fs[1] = f /\ fs[2] = g /\ fs[3] = h
  BY ThreeFields DEF e0, e1, e2
<1> HIDE DEF fs
<1>20. decode_fields(b, EntryWires).ok /\ decode_fields(b, EntryWires).fields = fs
  BY <1>11, <1>13, <1>14, <1>18, DecodeEnds
<1>21. /\ fs[1].num = 2 /\ fs[2].num = 3 /\ fs[3].num = 4
       /\ fs[1].val = k /\ fs[2].val = w /\ fs[3].val = n
  BY <1>19 DEF FieldOf
<1> DEFINE S == {f, g, h}
<1>22. fs \in Seq(S) /\ Len(fs) = 3
  BY <1>19
<1> HIDE DEF S, f, g, h
<1>23. \A j \in 1..Len(fs) : j = 1 \/ j = 2 \/ j = 3
  BY <1>22
<1>24. ~undecodable(b)
  <2>1. \A j \in 1..Len(fs) : fs[j].num = 3 => decode_fields(fs[j].val, ValueWires).ok
    BY <1>3, <1>21, <1>23
  <2> QED BY <1>20, <1>22, <2>1, Decodable
<1>25. 1 \in 1..Len(fs) /\ 2 \in 1..Len(fs) /\ 3 \in 1..Len(fs) /\ 2 \in 0..Len(fs)
  BY <1>22
<1>26. field(fs, 1, 0) = 0
  <2>1. \A j \in 1..Len(fs) : fs[j].num # 1
    BY <1>21, <1>23
  <2> QED BY <1>22, <2>1, FieldIsNot
<1>27. field(fs, 2, << >>) = k
  <2>1. OnlyField(fs, 2, 1, k)
    BY <1>21, <1>23, <1>25 DEF OnlyField
  <2> QED BY <1>22, <2>1, FieldIs
<1>28. field(fs, 4, 0) = n
  <2>1. OnlyField(fs, 4, 3, n)
    BY <1>21, <1>23, <1>25 DEF OnlyField
  <2> QED BY <1>22, <2>1, FieldIs
<1>29. value_bytes(fs) = w
  <2>1. \A j \in 1..Len(fs) : fs[j].num = 3 <=> j = 2
    BY <1>21, <1>23
  <2>2. fs[2].val = w
    BY <1>21
  <2> DEFINE i == 2
  <2>3. /\ i \in 0..Len(fs) /\ i # 0 /\ fs[i].val = w
        /\ \A j \in 1..Len(fs) : fs[j].num = 3 <=> j = i
    BY <1>25, <2>1, <2>2
  <2> HIDE DEF i
  <2> QED BY <1>3, <1>22, <2>3, ValueBytesAre
<1>30. decode(b) = e
  BY <1>3, <1>20, <1>26, <1>27, <1>28, <1>29 DEF decode, put_entry
<1>31. Len(b) \in 1..47
  BY <1>12
<1> QED BY <1>11, <1>24, <1>30, <1>31 DEF b

-----------------------------------------------------------------------------
\* DELETE, COMMIT, and any entry.

\* A message without fields.
LEMMA NoValueDecodes == decode_value(<< >>) = None
<1> DEFINE b == << >>
           e0 == << >>
           m == 0
<1>1. b \in Seq(Byte) /\ Len(b) = 0 /\ m = 0 /\ e0 = << >>
  OBVIOUS
<1> HIDE DEF b, e0, m
<1>2. PICK st : IsDecode(st, b, ValueWires)
  BY <1>1, DecodeExists
<1>3. st[0] = ReadUpTo(0, << >>)
  BY <1>2, DecodeStart
<1>4. m \in 0..Len(b) /\ st[m] = ReadUpTo(Len(b), e0)
  BY <1>1, <1>3
<1>5. decode_fields(b, ValueWires).fields = e0
  <2>1. b \in Seq(Byte)
    BY <1>1
  <2> QED BY <1>2, <1>4, <2>1, DecodeEnds
<1>6. decode_fields(<< >>, ValueWires).fields = << >>
  BY <1>1, <1>5 DEF b
<1> QED BY <1>6 DEF decode_value

\* A DELETE comes back from its bytes.
LEMMA DeleteDecodes ==
    ASSUME NEW k \in Keys, NEW n \in 1..47
    PROVE  LET b == encode(delete_entry(k, n))
           IN  /\ b \in Seq(Byte) /\ Len(b) \in 1..47
               /\ ~undecodable(b) /\ decode(b) = delete_entry(k, n)
<1> DEFINE e == delete_entry(k, n)
           b == encode(e)
           A == <<8 * 1, 1>>
           B == BytesField(2, k)
           C == << >>
           D == <<8 * 4, n>>
<1>1. k \in Seq(Byte) /\ k # << >> /\ Len(k) \in Nat /\ Len(k) \in Byte /\ Len(k) + 10 < 48
  BY KeysAreBytes
<1>5. b = A \o B \o C \o D
  <2>1. e.op = "delete" /\ e.key = k /\ e.value = None /\ e.sequence = n
    BY DEF delete_entry
  <2>2. VarintField(1, OpCode(e.op)) = A
    BY <2>1 DEF VarintField, OpCode
  <2>3. VarintField(4, e.sequence) = D
    BY <2>1 DEF VarintField
  <2> HIDE DEF e, A, B, D
  <2> QED BY <1>1, <2>1, <2>2, <2>3 DEF encode, B
<1>6. B \in Seq(Byte) /\ Len(B) = 2 + Len(k)
  <2>1. 2 \in Nat /\ 8 * 2 + 2 \in Byte
    BY WiresAre
  <2> QED BY <1>1, <2>1, BytesFieldType, Zenon
<1>8. n \in Byte /\ n # 0 /\ 1 \in Byte
  BY BytesAre
<1>9. D \in Seq(Byte) /\ Len(D) = 2 /\ A \in Seq(Byte) /\ Len(A) = 2
  BY <1>8, WiresAre, VarintType
<1>10. C \in Seq(Byte) /\ Len(C) = 0
  OBVIOUS
<1> HIDE DEF b, A, B, C, D
<1>11. /\ b \in Seq(Byte) /\ Len(b) = Len(A) + Len(B) + Len(C) + Len(D)
       /\ HasAt(b, 0, A) /\ HasAt(b, Len(A), B)
       /\ HasAt(b, Len(A) + Len(B) + Len(C), D)
  <2>0. A \in Seq(Byte) /\ B \in Seq(Byte) /\ C \in Seq(Byte) /\ D \in Seq(Byte)
    BY <1>6, <1>9, <1>10
  <2>1. Parts(b, A, B, C, D)
    BY <1>5, <2>0, PartsAt
  <2> QED BY <2>1 DEF Parts
<1> DEFINE o1 == 2
           o2 == o1 + (2 + Len(k))
<1>12. /\ o1 \in Nat /\ o2 \in Nat /\ Len(b) = o2 + 2 /\ Len(b) \in 6..47
       /\ HasAt(b, 0, A) /\ HasAt(b, o1, B) /\ HasAt(b, o2, D)
  <2>1. Len(A) = o1 /\ Len(A) + Len(B) + Len(C) = o2
        /\ Len(b) = o2 + 2 /\ o1 \in Nat /\ o2 \in Nat
    BY <1>1, <1>6, <1>9, <1>10, <1>11
  <2>2. Len(b) \in 6..47
    <3> DEFINE x == Len(k)
               z == Len(b)
    <3>1. x \in Nat /\ x + 10 < 48 /\ z = 2 + (2 + x) + 2
      BY <1>1, <2>1
    <3> HIDE DEF x, z
    <3>2. z \in 6..47
      BY <3>1
    <3> QED BY <3>2 DEF z
  <2> HIDE DEF o1, o2
  <2> QED BY <1>11, <2>1, <2>2
<1>13. PICK st : IsDecode(st, b, EntryWires)
  BY <1>11, DecodeExists
<1>14. /\ Len(b) \in Nat /\ 0 \in 0..Len(b) /\ 1 \in 0..Len(b)
       /\ 2 \in 0..Len(b) /\ 3 \in 0..Len(b)
       /\ 0 + 1 <= Len(b) /\ 1 + 1 <= Len(b) /\ 2 + 1 <= Len(b)
  BY <1>12
<1> HIDE DEF o2
<1> DEFINE f == FieldOf(1, 1)
           g == FieldOf(2, k)
           h == FieldOf(4, n)
           e0 == << >>
           e1 == Append(e0, f)
           e2 == Append(e1, g)
           fs == Append(e2, h)
<1>15. st[0] = ReadUpTo(0, e0)
  BY <1>13, DecodeStart
<1> HIDE DEF e0
<1>16. st[1] = ReadUpTo(o1, e1)
  <2> DEFINE num == 1
             z == 0
             u == 1
  <2>1. /\ num \in 1..5 /\ EntryWires[num] = 0 /\ u \in Byte
        /\ HasAt(b, z, <<8 * num, u>>) /\ st[z] = ReadUpTo(z, e0)
        /\ z \in Nat /\ z \in 0..Len(b) /\ z + 1 <= Len(b)
    BY <1>8, <1>12, <1>14, <1>15, WiresAre DEF A
  <2> HIDE DEF num, z, u
  <2>2. st[z + 1] = ReadUpTo(z + 2, Append(e0, FieldOf(num, u)))
    BY <1>11, <1>13, <2>1, DecodeVarintStep
  <2>3. z + 1 = 1 /\ z + 2 = o1
    BY DEF z
  <2> QED BY <2>2, <2>3 DEF num, u
<1> HIDE DEF e1, o1
<1>17. st[2] = ReadUpTo(o2, e2)
  <2> DEFINE num == 2
             z == 1
  <2>1. /\ num \in 1..5 /\ 8 * num + 2 \in Byte /\ EntryWires[num] = 2
        /\ HasAt(b, o1, BytesField(num, k)) /\ st[z] = ReadUpTo(o1, e1)
        /\ z \in 0..Len(b) /\ z + 1 <= Len(b)
        /\ o1 \in Nat /\ b \in Seq(Byte) /\ k \in Seq(Byte)
    BY <1>1, <1>11, <1>12, <1>14, <1>16, WiresAre DEF B
  <2> HIDE DEF num, z
  <2>2. st[z + 1] = ReadUpTo(o1 + (2 + Len(k)), Append(e1, FieldOf(num, k)))
    BY <1>1, <1>13, <2>1, DecodeBytesStep
  <2>3. z + 1 = 2
    BY DEF z
  <2> QED BY <2>2, <2>3 DEF num, o2
<1> HIDE DEF e2
<1>18. st[3] = ReadUpTo(Len(b), fs)
  <2> DEFINE num == 4
             z == 2
  <2>1. /\ num \in 1..5 /\ EntryWires[num] = 0
        /\ HasAt(b, o2, <<8 * num, n>>) /\ st[z] = ReadUpTo(o2, e2)
        /\ z \in 0..Len(b) /\ z + 1 <= Len(b)
    BY <1>12, <1>14, <1>17, WiresAre DEF D
  <2> HIDE DEF num, z
  <2>2. st[z + 1] = ReadUpTo(o2 + 2, Append(e2, FieldOf(num, n)))
    BY <1>8, <1>11, <1>12, <1>13, <2>1, DecodeVarintStep
  <2>3. z + 1 = 3 /\ o2 + 2 = Len(b)
    BY <1>12 DEF z
  <2> QED BY <2>2, <2>3 DEF num
<1>19. fs \in Seq({f, g, h}) /\ Len(fs) = 3 /\ fs[1] = f /\ fs[2] = g /\ fs[3] = h
  BY ThreeFields DEF e0, e1, e2
<1> HIDE DEF fs
<1>20. decode_fields(b, EntryWires).ok /\ decode_fields(b, EntryWires).fields = fs
  BY <1>11, <1>13, <1>14, <1>18, DecodeEnds
<1>21. /\ fs[1].num = 1 /\ fs[2].num = 2 /\ fs[3].num = 4
       /\ fs[1].val = 1 /\ fs[2].val = k /\ fs[3].val = n
  BY <1>19 DEF FieldOf
<1> DEFINE S == {f, g, h}
<1>22. fs \in Seq(S) /\ Len(fs) = 3
  BY <1>19
<1> HIDE DEF S, f, g, h
<1>23. \A j \in 1..Len(fs) : j = 1 \/ j = 2 \/ j = 3
  BY <1>22
<1>24. ~undecodable(b)
  <2>1. \A j \in 1..Len(fs) : fs[j].num = 3 => decode_fields(fs[j].val, ValueWires).ok
    BY <1>21, <1>23
  <2> QED BY <1>20, <1>22, <2>1, Decodable
<1>25. 1 \in 1..Len(fs) /\ 2 \in 1..Len(fs) /\ 3 \in 1..Len(fs) /\ 0 \in 0..Len(fs)
  BY <1>22
<1>26. field(fs, 1, 0) = 1
  <2>1. OnlyField(fs, 1, 1, 1)
    BY <1>21, <1>23, <1>25 DEF OnlyField
  <2> QED BY <1>22, <2>1, FieldIs
<1>27. field(fs, 2, << >>) = k
  <2>1. OnlyField(fs, 2, 2, k)
    BY <1>21, <1>23, <1>25 DEF OnlyField
  <2> QED BY <1>22, <2>1, FieldIs
<1>28. field(fs, 4, 0) = n
  <2>1. OnlyField(fs, 4, 3, n)
    BY <1>21, <1>23, <1>25 DEF OnlyField
  <2> QED BY <1>22, <2>1, FieldIs
<1>29. value_bytes(fs) = << >>
  <2> DEFINE i == 0
  <2>3. i \in 0..Len(fs) /\ i = 0 /\ \A j \in 1..Len(fs) : fs[j].num = 3 <=> j = i
    BY <1>21, <1>23, <1>25
  <2> HIDE DEF i
  <2> QED BY <1>1, <1>22, <2>3, ValueBytesAre
<1>30. decode(b) = e
  BY <1>20, <1>26, <1>27, <1>28, <1>29, NoValueDecodes DEF decode, delete_entry
<1>31. Len(b) \in 1..47
  BY <1>12
<1> QED BY <1>11, <1>24, <1>30, <1>31 DEF b

\* A COMMIT comes back from its bytes.
LEMMA CommitDecodes ==
    ASSUME NEW n \in 1..47
    PROVE  LET b == encode(commit_entry(n))
           IN  /\ b \in Seq(Byte) /\ Len(b) \in 1..47
               /\ ~undecodable(b) /\ decode(b) = commit_entry(n)
<1> DEFINE e == commit_entry(n)
           b == encode(e)
           A == <<8 * 1, 2>>
           B == << >>
           C == << >>
           D == <<8 * 4, n>>
<1>5. b = A \o B \o C \o D
  <2>1. e.op = "commit" /\ e.key = << >> /\ e.value = None /\ e.sequence = n
    BY DEF commit_entry
  <2>2. VarintField(1, OpCode(e.op)) = A
    BY <2>1 DEF VarintField, OpCode
  <2>3. VarintField(4, e.sequence) = D
    BY <2>1 DEF VarintField
  <2> HIDE DEF e, A, D
  <2> QED BY <2>1, <2>2, <2>3 DEF encode
<1>8. n \in Byte /\ n # 0 /\ 2 \in Byte
  BY BytesAre
<1>9. D \in Seq(Byte) /\ Len(D) = 2 /\ A \in Seq(Byte) /\ Len(A) = 2
  BY <1>8, WiresAre, VarintType
<1>10. B \in Seq(Byte) /\ Len(B) = 0 /\ C \in Seq(Byte) /\ Len(C) = 0
  OBVIOUS
<1> HIDE DEF b, A, B, C, D
<1>11. /\ b \in Seq(Byte) /\ Len(b) = Len(A) + Len(B) + Len(C) + Len(D)
       /\ HasAt(b, 0, A) /\ HasAt(b, Len(A) + Len(B) + Len(C), D)
  <2>0. A \in Seq(Byte) /\ B \in Seq(Byte) /\ C \in Seq(Byte) /\ D \in Seq(Byte)
    BY <1>9, <1>10
  <2>1. Parts(b, A, B, C, D)
    BY <1>5, <2>0, PartsAt
  <2> QED BY <2>1 DEF Parts
<1> DEFINE o1 == 2
<1>12. Len(b) = o1 + 2 /\ o1 \in Nat /\ HasAt(b, 0, A) /\ HasAt(b, o1, D)
  <2>1. Len(A) + Len(B) + Len(C) = o1 /\ Len(b) = o1 + 2
    BY <1>9, <1>10, <1>11
  <2> QED BY <1>11, <2>1
<1>13. PICK st : IsDecode(st, b, EntryWires)
  BY <1>11, DecodeExists
<1>14. Len(b) \in Nat /\ 0 \in 0..Len(b) /\ 1 \in 0..Len(b) /\ 2 \in 0..Len(b)
       /\ 0 + 1 <= Len(b) /\ 1 + 1 <= Len(b)
  BY <1>12
<1> DEFINE f == FieldOf(1, 2)
           h == FieldOf(4, n)
           e0 == << >>
           e1 == Append(e0, f)
           fs == Append(e1, h)
<1>15. st[0] = ReadUpTo(0, e0)
  BY <1>13, DecodeStart
<1> HIDE DEF e0
<1>16. st[1] = ReadUpTo(o1, e1)
  <2> DEFINE num == 1
             z == 0
             u == 2
  <2>1. /\ num \in 1..5 /\ EntryWires[num] = 0 /\ u \in Byte
        /\ HasAt(b, z, <<8 * num, u>>) /\ st[z] = ReadUpTo(z, e0)
        /\ z \in Nat /\ z \in 0..Len(b) /\ z + 1 <= Len(b)
    BY <1>8, <1>12, <1>14, <1>15, WiresAre DEF A
  <2> HIDE DEF num, z, u
  <2>2. st[z + 1] = ReadUpTo(z + 2, Append(e0, FieldOf(num, u)))
    BY <1>11, <1>13, <2>1, DecodeVarintStep
  <2>3. z + 1 = 1 /\ z + 2 = o1
    BY DEF z
  <2> QED BY <2>2, <2>3 DEF num, u
<1> HIDE DEF e1, o1
<1>18. st[2] = ReadUpTo(Len(b), fs)
  <2> DEFINE num == 4
             z == 1
  <2>1. /\ num \in 1..5 /\ EntryWires[num] = 0
        /\ HasAt(b, o1, <<8 * num, n>>) /\ st[z] = ReadUpTo(o1, e1)
        /\ z \in 0..Len(b) /\ z + 1 <= Len(b)
    BY <1>12, <1>14, <1>16, WiresAre DEF D
  <2> HIDE DEF num, z
  <2>2. st[z + 1] = ReadUpTo(o1 + 2, Append(e1, FieldOf(num, n)))
    BY <1>8, <1>11, <1>12, <1>13, <2>1, DecodeVarintStep
  <2>3. z + 1 = 2 /\ o1 + 2 = Len(b)
    BY <1>12 DEF z
  <2> QED BY <2>2, <2>3 DEF num
<1>19. fs \in Seq({f, h}) /\ Len(fs) = 2 /\ fs[1] = f /\ fs[2] = h
  BY TwoFields DEF e0, e1
<1> HIDE DEF fs
<1>20. decode_fields(b, EntryWires).ok /\ decode_fields(b, EntryWires).fields = fs
  BY <1>11, <1>13, <1>14, <1>18, DecodeEnds
<1>21. fs[1].num = 1 /\ fs[2].num = 4 /\ fs[1].val = 2 /\ fs[2].val = n
  BY <1>19 DEF FieldOf
<1> DEFINE S == {f, h}
<1>22. fs \in Seq(S) /\ Len(fs) = 2
  BY <1>19
<1> HIDE DEF S, f, h
<1>23. \A j \in 1..Len(fs) : j = 1 \/ j = 2
  BY <1>22
<1>24. ~undecodable(b)
  <2>1. \A j \in 1..Len(fs) : fs[j].num = 3 => decode_fields(fs[j].val, ValueWires).ok
    BY <1>21, <1>23
  <2> QED BY <1>20, <1>22, <2>1, Decodable
<1>25. 1 \in 1..Len(fs) /\ 2 \in 1..Len(fs) /\ 0 \in 0..Len(fs)
  BY <1>22
<1>26. field(fs, 1, 0) = 2
  <2>1. OnlyField(fs, 1, 1, 2)
    BY <1>21, <1>23, <1>25 DEF OnlyField
  <2> QED BY <1>22, <2>1, FieldIs
<1>27. field(fs, 2, << >>) = << >>
  <2>1. \A j \in 1..Len(fs) : fs[j].num # 2
    BY <1>21, <1>23
  <2> QED BY <1>22, <2>1, FieldIsNot
<1>28. field(fs, 4, 0) = n
  <2>1. OnlyField(fs, 4, 2, n)
    BY <1>21, <1>23, <1>25 DEF OnlyField
  <2> QED BY <1>22, <2>1, FieldIs
<1>29. value_bytes(fs) = << >>
  <2> DEFINE i == 0
             w == << >>
  <2>3. /\ i \in 0..Len(fs) /\ i = 0 /\ w \in Seq(Byte)
        /\ \A j \in 1..Len(fs) : fs[j].num = 3 <=> j = i
    BY <1>21, <1>23, <1>25
  <2> HIDE DEF i, w
  <2> QED BY <1>22, <2>3, ValueBytesAre
<1>30. decode(b) = e
  BY <1>20, <1>26, <1>27, <1>28, <1>29, NoValueDecodes DEF decode, commit_entry
<1>31. Len(b) \in 1..47
  BY <1>12 DEF o1
<1> QED BY <1>11, <1>24, <1>30, <1>31 DEF b

\* WalEntry::decode undoes encode: every PUT, DELETE and COMMIT that a log can
\* hold is decoded from its bytes without an error and is the same entry again,
\* with its default fields that the encoding leaves out.
THEOREM EntriesDecode ==
    ASSUME NEW e \in AllEntries
    PROVE  /\ encode(e) \in Seq(Byte) /\ Len(encode(e)) \in 1..47
           /\ ~undecodable(encode(e)) /\ decode(encode(e)) = e
<1>1. ByteLimit - 1 = 47
  BY BytesAre
<1>2. CASE e \in {put_entry(k, v, n) : k \in Keys, v \in Values, n \in 1..(ByteLimit - 1)}
  <2>1. PICK k \in Keys, v \in Values, n \in 1..(ByteLimit - 1) : e = put_entry(k, v, n)
    BY <1>2
  <2>2. n \in 1..47
    BY <1>1
  <2> QED BY <2>1, <2>2, PutDecodes, Zenon
<1>3. CASE e \in {delete_entry(k, n) : k \in Keys, n \in 1..(ByteLimit - 1)}
  <2>1. PICK k \in Keys, n \in 1..(ByteLimit - 1) : e = delete_entry(k, n)
    BY <1>3
  <2>2. n \in 1..47
    BY <1>1
  <2> QED BY <2>1, <2>2, DeleteDecodes, Zenon
<1>4. CASE e \in {commit_entry(n) : n \in 1..(ByteLimit - 1)}
  <2>1. PICK n \in 1..47 : e = commit_entry(n)
    BY <1>1, <1>4, Zenon
  <2> QED BY <2>1, CommitDecodes, Zenon
<1> QED BY <1>2, <1>3, <1>4 DEF AllEntries

-----------------------------------------------------------------------------
\* Frames.

\* A frame is eight bytes that announce the length of what follows.
LEMMA FrameBytes ==
    ASSUME NEW e \in AllEntries
    PROVE  /\ frame(e) \in Seq(Byte) /\ Len(frame(e)) = 8 + Len(encode(e))
           /\ Len(encode(e)) \in 1..47
           /\ HasAt(frame(e), 8, encode(e))
           /\ \A i \in 1..7 : frame(e)[i] = 0
           /\ frame(e)[8] = Len(encode(e))
<1> DEFINE d == encode(e)
           n == Len(d)
           p == <<0, 0, 0, 0, 0, 0, 0, n>>
           x == frame(e)
<1>1. d \in Seq(Byte) /\ n \in 1..47
  BY EntriesDecode
<1>2. x = p \o d
  BY DEF frame
<1> HIDE DEF d, n
<1>3. n \in Byte /\ 0 \in Byte
  BY <1>1, BytesAre
<1>4. p \in Seq(Byte) /\ Len(p) = 8 /\ (\A i \in 1..7 : p[i] = 0) /\ p[8] = n
  <2>1. p \in Seq(Byte) /\ Len(p) = 8
    BY <1>3
  <2>2. /\ p[1] = 0 /\ p[2] = 0 /\ p[3] = 0 /\ p[4] = 0
        /\ p[5] = 0 /\ p[6] = 0 /\ p[7] = 0 /\ p[8] = n
    OBVIOUS
  <2>3. \A i \in 1..7 : i = 1 \/ i = 2 \/ i = 3 \/ i = 4 \/ i = 5 \/ i = 6 \/ i = 7
    OBVIOUS
  <2> HIDE DEF p
  <2> QED BY <2>1, <2>2, <2>3
<1> HIDE DEF p, x
<1>5. x \in Seq(Byte) /\ Len(x) = Len(p) + Len(d)
  BY <1>1, <1>2, <1>4, ConcatBytes, Zenon
<1>6. HasAt(x, 0, x)
  BY <1>5, HasAtSelf
<1>7. HasAt(x, 0, p) /\ HasAt(x, 0 + Len(p), d)
  <2> DEFINE z == 0
  <2>1. z \in Nat /\ HasAt(x, z, x)
    BY <1>6
  <2> HIDE DEF z
  <2>2. HasAt(x, z, p) /\ HasAt(x, z + Len(p), d)
    BY <1>1, <1>2, <1>4, <1>5, <2>1, HasAtConcat, Zenon
  <2> QED BY <2>2 DEF z
<1>8. \A i \in 1..8 : x[i] = p[i]
  BY <1>4, <1>7 DEF HasAt
<1>9. /\ x \in Seq(Byte) /\ Len(x) = 8 + Len(d) /\ n = Len(d)
      /\ HasAt(x, 8, d) /\ (\A i \in 1..7 : x[i] = 0) /\ x[8] = n
  <2>1. Len(d) \in Nat /\ 0 + Len(p) = 8
    BY <1>1, <1>4
  <2>2. n = Len(d)
    BY DEF n
  <2>3. (\A i \in 1..7 : x[i] = 0) /\ x[8] = n
    BY <1>4, <1>8
  <2> QED BY <1>4, <1>5, <1>7, <2>1, <2>2, <2>3
<1> QED BY <1>1, <1>9 DEF x, d

\* The eight bytes of a frame announce the length of its payload.
LEMMA PrefixRead ==
    ASSUME NEW e \in AllEntries, NEW b \in Seq(Byte), NEW o \in Nat,
           \A i \in 1..8 : b[o + i] = frame(e)[i]
    PROVE  announced(b, o) = Len(encode(e))
<1> DEFINE n == Len(encode(e))
<1>1. n \in Nat /\ (\A i \in 1..7 : frame(e)[i] = 0) /\ frame(e)[8] = n
  BY FrameBytes
<1> HIDE DEF n
<1>2. (\A i \in 1..6 : b[o + i] = 0) /\ b[o + 7] = 0 /\ b[o + 8] = n
  <2> DEFINE x == frame(e)
  <2>1. (\A i \in 1..6 : i \in 1..7 /\ i \in 1..8) /\ 7 \in 1..7 /\ 7 \in 1..8 /\ 8 \in 1..8
    OBVIOUS
  <2>2. (\A i \in 1..7 : x[i] = 0) /\ x[8] = n /\ \A i \in 1..8 : b[o + i] = x[i]
    BY <1>1
  <2> HIDE DEF x
  <2>3. \A i \in 1..6 : b[o + i] = 0
    BY <2>1, <2>2
  <2>4. b[o + 7] = x[7] /\ b[o + 8] = x[8] /\ x[7] = 0
    BY <2>1, <2>2
  <2> QED BY <2>2, <2>3, <2>4
<1>3. 256 * 0 + n = n
  BY <1>1
<1>4. announced(b, o) = n
  BY <1>2, <1>3 DEF announced
<1> QED BY <1>4 DEF n

\* The payload of a frame is what has been encoded.
LEMMA FrameRead ==
    ASSUME NEW e \in AllEntries, NEW b \in Seq(Byte), NEW o \in Nat, HasAt(b, o, frame(e))
    PROVE  /\ announced(b, o) = Len(encode(e))
           /\ o + 8 + Len(encode(e)) <= Len(b)
           /\ SubSeq(b, o + 8 + 1, o + 8 + Len(encode(e))) = encode(e)
<1> DEFINE d == encode(e)
           n == Len(d)
           x == frame(e)
           a == o + 8
           f == a + n
           y == SubSeq(b, a + 1, f)
<1>1. /\ d \in Seq(Byte) /\ n \in Nat /\ Len(b) \in Nat /\ Len(x) = 8 + n /\ HasAt(x, 8, d)
      /\ a \in Nat /\ f \in Nat /\ n > 0
  <2>1. d \in Seq(Byte) /\ n \in 1..47 /\ Len(x) = 8 + n /\ HasAt(x, 8, d)
    BY FrameBytes, EntriesDecode
  <2>2. Len(b) \in Nat
    OBVIOUS
  <2> HIDE DEF d, x, n
  <2>3. n \in Nat /\ a \in Nat /\ f \in Nat /\ n > 0
    BY <2>1
  <2> QED BY <2>1, <2>2, <2>3
<1> HIDE DEF d, x
<1>2. o + (8 + n) <= Len(b) /\ \A i \in 1..(8 + n) : b[o + i] = x[i]
  <2>1. HasAt(b, o, x)
    BY DEF x
  <2> QED BY <1>1, <2>1 DEF HasAt
<1>3. \A i \in 1..n : x[8 + i] = d[i]
  BY <1>1 DEF HasAt
<1> HIDE DEF n
<1>4. f <= Len(b) /\ f - a = n /\ a < f
  BY <1>1, <1>2
<1>5. y \in Seq(Byte) /\ Len(y) = n /\ \A i \in 1..n : y[i] = b[a + i]
  <2> HIDE DEF a, f
  <2> QED BY <1>1, <1>4, PayloadType
<1>6. \A i \in 1..n : b[a + i] = d[i]
  <2> TAKE i \in 1..n
  <2>1. 8 + i \in 1..(8 + n) /\ o + (8 + i) = a + i
    BY <1>1
  <2>2. b[o + (8 + i)] = x[8 + i]
    BY <1>2, <2>1
  <2> QED BY <1>3, <2>1, <2>2
<1>7. y = d
  <2> HIDE DEF y
  <2>1. Len(d) = n
    BY DEF n
  <2>2. \A i \in 1..n : y[i] = d[i]
    BY <1>5, <1>6
  <2> QED BY <1>1, <1>5, <2>1, <2>2, SeqEqual
<1>8. announced(b, o) = n
  <2>1. \A i \in 1..8 : i \in 1..(8 + n)
    BY <1>1
  <2>2. \A i \in 1..8 : b[o + i] = frame(e)[i]
    BY <1>2, <2>1 DEF x
  <2> QED BY <2>2, PrefixRead DEF n, d
<1> QED BY <1>4, <1>7, <1>8 DEF n, d

-----------------------------------------------------------------------------
\* Frames that lie one behind the other are read one by one.

\* Entries with the offsets of their ends, as whole keeps them.
Wholes == Seq([entry : AllEntries, end : Nat])

EndAt(ws, i) == IF i = 0 THEN 0 ELSE ws[i].end

\* The frame of ws[i] begins where the one before it ends.
Tile(b, ws, i) ==
    /\ ws[i].end = EndAt(ws, i - 1) + Len(frame(ws[i].entry))
    /\ HasAt(b, EndAt(ws, i - 1), frame(ws[i].entry))

Tiled(b, ws, m) == \A i \in 1..m : Tile(b, ws, i)

\* c is the last of the first i entries that is a COMMIT.
IsLastCommit(ws, i, c) ==
    /\ c \in 0..i
    /\ c # 0 => ws[c].entry.op = "commit"
    /\ \A j \in (c + 1)..i : ws[j].entry.op # "commit"

\* What parse_buffer knows when it has read the first i entries.
HasRead(ws, i, s) ==
    /\ s.offset = EndAt(ws, i) /\ 8 * i <= s.offset
    /\ Len(s.entries) = i /\ \A j \in 1..i : s.entries[j] = ws[j].entry
    /\ IsLastCommit(ws, i, s.committed_count)
    /\ s.committed_end = EndAt(ws, s.committed_count)

\* The fields of whole's elements.
LEMMA WholeFields ==
    ASSUME NEW ws \in Wholes, NEW i \in 1..Len(ws)
    PROVE  ws[i].entry \in AllEntries /\ ws[i].end \in Nat
<1> DEFINE R == [entry : AllEntries, end : Nat]
<1>1. ws[i] \in R
  <2> HIDE DEF R
  <2>1. ws \in Seq(R)
    BY DEF Wholes, R
  <2> QED BY <2>1
<1> QED BY <1>1

\* Ends are offsets.
LEMMA EndAtType ==
    ASSUME NEW ws \in Wholes, NEW i \in 0..Len(ws)
    PROVE  EndAt(ws, i) \in Nat
<1>1. CASE i = 0
  BY <1>1 DEF EndAt
<1>2. CASE i # 0
  <2>1. i \in 1..Len(ws)
    BY <1>2
  <2> QED BY <1>2, <2>1, WholeFields DEF EndAt
<1> QED BY <1>1, <1>2

\* The loop reads the frame that is next.
LEMMA ReadsTile ==
    ASSUME NEW b \in Seq(Byte), NEW s \in ParseStates, ~s.stop, NEW e \in AllEntries,
           HasAt(b, s.offset, frame(e))
    PROVE  /\ Advances(b, s)
           /\ Round(b, s) = [offset |-> s.offset + Len(frame(e)),
                 entries |-> Append(s.entries, e),
                 committed_count |-> IF e.op = "commit" THEN Len(Append(s.entries, e))
                                     ELSE s.committed_count,
                 committed_end |-> IF e.op = "commit" THEN s.offset + Len(frame(e))
                                   ELSE s.committed_end,
                 stop |-> FALSE]
<1> DEFINE o == s.offset
           d == encode(e)
           n == Len(d)
<1>1. o \in Nat /\ Len(b) \in Nat /\ n \in Nat /\ n > 0 /\ Len(frame(e)) = 8 + n
  <2>1. o \in Nat
    BY StateFields
  <2>2. n \in 1..47 /\ Len(frame(e)) = 8 + n
    BY FrameBytes
  <2> HIDE DEF n
  <2> QED BY <2>1, <2>2
<1>2. announced(b, o) = n /\ o + 8 + n <= Len(b) /\ SubSeq(b, o + 8 + 1, o + 8 + n) = d
  BY <1>1, FrameRead
<1>3. End(b, s) = o + 8 + n /\ Payload(b, s) = d
  <2>1. End(b, s) = o + 8 + n
    BY <1>2, BytesAre DEF End
  <2> QED BY <1>2, <2>1, BytesAre DEF Payload
<1>4. ~undecodable(d) /\ decode(d) = e
  BY EntriesDecode
<1> HIDE DEF d
<1>5. Advances(b, s)
  <2> HIDE DEF n
  <2>1. ~(o >= Len(b)) /\ o + 8 <= Len(b)
    BY <1>1, <1>2
  <2> QED BY <1>2, <1>3, <2>1, BytesAre DEF Advances, Done
<1>6. Round(b, s) = Advanced(s, o + 8 + n, d)
  BY <1>3, <1>5, RoundSteps
<1>7. o + 8 + n = o + Len(frame(e))
  <2> DEFINE l == Len(frame(e))
  <2>1. l = 8 + n
    BY <1>1
  <2> HIDE DEF n, l
  <2>2. o + 8 + n = o + l
    BY <1>1, <2>1
  <2> QED BY <2>2 DEF l
<1>8. Round(b, s) = Advanced(s, o + Len(frame(e)), d)
  BY <1>6, <1>7
<1> QED BY <1>4, <1>5, <1>8 DEF Advanced

\* The entries of the tiles are read one by one.
LEMMA ReadOne ==
    ASSUME NEW b \in Seq(Byte), NEW ws \in Wholes, NEW i \in 1..Len(ws), Tile(b, ws, i),
           NEW s \in ParseStates, ~s.stop, HasRead(ws, i - 1, s)
    PROVE  Advances(b, s) /\ HasRead(ws, i, Round(b, s)) /\ ~Round(b, s).stop
<1> DEFINE e == ws[i].entry
           f == s.offset + Len(frame(e))
           x == Append(s.entries, e)
           c == IF e.op = "commit" THEN Len(x) ELSE s.committed_count
           d == IF e.op = "commit" THEN f ELSE s.committed_end
           t == Round(b, s)
<1>0. Len(ws) \in Nat /\ i \in Nat /\ i - 1 \in 0..Len(ws) /\ i # 0
  BY DEF Wholes
<1>1. e \in AllEntries /\ ws[i].end \in Nat
  BY WholeFields
<1>2. /\ s.offset = EndAt(ws, i - 1) /\ 8 * (i - 1) <= s.offset
      /\ Len(s.entries) = i - 1 /\ \A j \in 1..(i - 1) : s.entries[j] = ws[j].entry
      /\ IsLastCommit(ws, i - 1, s.committed_count)
      /\ s.committed_end = EndAt(ws, s.committed_count)
  BY DEF HasRead
<1>3. HasAt(b, s.offset, frame(e)) /\ ws[i].end = f
  BY <1>2 DEF Tile
<1>4. Advances(b, s) /\ t = [offset |-> f, entries |-> x, committed_count |-> c,
                             committed_end |-> d, stop |-> FALSE]
  BY <1>1, <1>3, ReadsTile
<1>5. t.offset = f /\ t.entries = x /\ t.committed_count = c /\ t.committed_end = d /\ ~t.stop
  BY <1>4
<1>6. s.entries \in Seq(Records) /\ s.offset \in Nat
  BY StateFields
<1>7. Len(x) = i /\ \A j \in 1..i : x[j] = ws[j].entry
  <2> DEFINE S == Records \cup {e}
  <2>1. s.entries \in Seq(S) /\ e \in S
    BY <1>6
  <2> HIDE DEF S
  <2>2. Len(x) = Len(s.entries) + 1 /\ x[Len(s.entries) + 1] = e
        /\ \A j \in 1..Len(s.entries) : x[j] = s.entries[j]
    BY <2>1
  <2>3. Len(s.entries) + 1 = i
    BY <1>0, <1>2
  <2>4. \A j \in 1..i : j = i \/ j \in 1..(i - 1)
    BY <1>0
  <2> HIDE DEF x, e
  <2>5. x[i] = ws[i].entry
    BY <2>2, <2>3 DEF e
  <2>6. \A j \in 1..(i - 1) : x[j] = ws[j].entry
    BY <1>2, <2>2
  <2> QED BY <2>2, <2>3, <2>4, <2>5, <2>6
<1>8. EndAt(ws, i) = f
  BY <1>0, <1>3 DEF EndAt
<1>9. 8 * i <= f
  <2> DEFINE l == Len(frame(e))
             n == Len(encode(e))
             o == s.offset
  <2>1. l = 8 + n /\ n \in 1..47
    BY <1>1, FrameBytes
  <2>2. o \in Nat /\ 8 * (i - 1) <= o
    BY <1>2, <1>6
  <2> HIDE DEF l, n, o
  <2>3. 8 * i <= o + l
    BY <1>0, <2>1, <2>2
  <2> QED BY <2>3 DEF o, l
<1>10. IsLastCommit(ws, i, c) /\ d = EndAt(ws, c)
  <2>1. CASE e.op = "commit"
    <3>1. c = i /\ d = f
      BY <1>7, <2>1
    <3>2. IsLastCommit(ws, i, i)
      BY <1>0, <2>1 DEF IsLastCommit
    <3> QED BY <1>8, <3>1, <3>2
  <2>2. CASE e.op # "commit"
    <3> DEFINE k == s.committed_count
    <3>1. c = k /\ d = s.committed_end
      BY <2>2
    <3> HIDE DEF k
    <3>2. k \in 0..(i - 1) /\ (k # 0 => ws[k].entry.op = "commit")
          /\ \A j \in (k + 1)..(i - 1) : ws[j].entry.op # "commit"
      BY <1>2 DEF IsLastCommit, k
    <3>3. k \in 0..i /\ \A j \in (k + 1)..i : j = i \/ j \in (k + 1)..(i - 1)
      BY <1>0, <3>2
    <3>4. IsLastCommit(ws, i, k)
      BY <2>2, <3>2, <3>3 DEF IsLastCommit
    <3> QED BY <1>2, <3>1, <3>4 DEF k
  <2> QED BY <2>1, <2>2
<1> HIDE DEF t, x, c, d, f
<1> QED BY <1>4, <1>5, <1>7, <1>8, <1>9, <1>10 DEF HasRead, t

\* The first m rounds read the first m entries.
LEMMA ReadsTiles ==
    ASSUME NEW b \in Seq(Byte), NEW ws \in Wholes, NEW m \in 0..Len(ws), Tiled(b, ws, m),
           NEW st, IsParse(st, b), NEW i \in 0..m
    PROVE  i \in 0..Rounds(b) /\ HasRead(ws, i, st[i]) /\ ~st[i].stop /\ ReadsAll(st, b, i)
<1> DEFINE n == Rounds(b)
           Good(j) == j <= n /\ HasRead(ws, j, st[j]) /\ ~st[j].stop
                      /\ (j # 0 => Advances(b, st[j - 1]))
           Bad == {j \in 0..m : ~Good(j)}
<1>1. n \in Nat /\ n >= 1 /\ Len(b) \in Nat /\ 8 * n > Len(b) /\ Len(ws) \in Nat /\ m \in Nat
  BY RoundsAre DEF Wholes
<1>2. st[0] = Start /\ \A l \in 1..n : st[l] = Round(b, st[l - 1])
  BY DEF IsParse
<1>3. \A l \in 0..n : st[l] \in ParseStates
  BY DEF IsParse
<1> HIDE DEF n
<1>4. ASSUME Bad # {} PROVE FALSE
  <2>1. Bad \in SUBSET Nat
    BY <1>1
  <2>2. PICK j \in Bad : \A l \in Bad : j <= l
    <3> HIDE DEF Bad
    <3> QED BY <1>4, <2>1, NatMin
  <2>3. j \in Nat /\ j \in 0..m /\ ~Good(j)
    BY <1>1, <2>2
  <2>4. j # 0
    <3>1. /\ Start.offset = 0 /\ Start.entries = << >> /\ Start.committed_count = 0
          /\ Start.committed_end = 0 /\ Start.stop = FALSE
      BY DEF Start
    <3>2. IsLastCommit(ws, 0, 0) /\ EndAt(ws, 0) = 0
      BY DEF IsLastCommit, EndAt
    <3>3. HasRead(ws, 0, Start)
      <4> DEFINE z == 0
                 S == Start
      <4>1. /\ S.offset = z /\ Len(S.entries) = z /\ S.committed_count = z
            /\ S.committed_end = z /\ IsLastCommit(ws, z, z) /\ EndAt(ws, z) = z
            /\ 8 * z <= z /\ (\A l \in 1..z : FALSE)
        BY <3>1, <3>2
      <4> HIDE DEF z, S
      <4>2. HasRead(ws, z, S)
        BY <4>1 DEF HasRead
      <4> QED BY <4>2 DEF z, S
    <3>4. Good(0)
      BY <1>1, <1>2, <3>1, <3>3
    <3> QED BY <2>3, <3>4
  <2>5. j - 1 \in 0..m /\ j - 1 < j /\ j \in 1..m /\ j \in 1..Len(ws)
    BY <1>1, <2>3, <2>4
  <2>6. Good(j - 1)
    <3>1. j - 1 \notin Bad
      <4> HIDE DEF Bad
      <4> QED BY <2>2, <2>3, <2>5
    <3> HIDE DEF Good
    <3> QED BY <2>5, <3>1
  <2> DEFINE s == st[j - 1]
  <2>7. s \in ParseStates /\ HasRead(ws, j - 1, s) /\ ~s.stop
    <3>1. j - 1 \in 0..n
      BY <1>1, <2>3, <2>5, <2>6
    <3> QED BY <1>3, <2>6, <3>1
  <2>8. Tile(b, ws, j)
    BY <2>5 DEF Tiled
  <2>9. Advances(b, s) /\ HasRead(ws, j, Round(b, s)) /\ ~Round(b, s).stop
    <3> HIDE DEF s
    <3> QED BY <2>5, <2>7, <2>8, ReadOne
  <2>10. j \in 1..n
    <3> DEFINE o == s.offset
    <3>1. o \in Nat
      BY <2>7, StateFields
    <3>2. 8 * (j - 1) <= o
      BY <2>7 DEF HasRead
    <3>3. o < Len(b)
      <4>1. ~(o >= Len(b))
        BY <2>9 DEF Advances, Done
      <4> HIDE DEF o
      <4> QED BY <1>1, <3>1, <4>1
    <3> HIDE DEF o
    <3> QED BY <1>1, <2>3, <2>4, <3>1, <3>2, <3>3
  <2>11. st[j] = Round(b, s)
    BY <1>2, <2>10
  <2>12. Good(j)
    BY <2>4, <2>9, <2>10, <2>11
  <2> HIDE DEF Good
  <2> QED BY <2>3, <2>12
<1>5. \A j \in 0..m : Good(j)
  <2> HIDE DEF Good
  <2> QED BY <1>4
<1>6. ReadsAll(st, b, i)
  <2> SUFFICES ASSUME NEW j \in 1..i PROVE Advances(b, st[j - 1])
    BY DEF ReadsAll
  <2>1. j \in 0..m /\ j # 0
    BY <1>1
  <2> QED BY <1>5, <2>1
<1>7. Good(i) /\ i \in Nat
  <2> HIDE DEF Good
  <2> QED BY <1>1, <1>5
<1>8. i \in 0..n
  BY <1>1, <1>7
<1> QED BY <1>6, <1>7, <1>8 DEF n

-----------------------------------------------------------------------------
\* A log that is cut inside a frame.

Ordered(ws) == \A i, j \in 1..Len(ws) : i <= j => ws[i].end <= ws[j].end

\* A frame takes at least its length prefix.
LEMMA TileGrows ==
    ASSUME NEW b \in Seq(Byte), NEW ws \in Wholes, NEW i \in 1..Len(ws), Tile(b, ws, i)
    PROVE  /\ EndAt(ws, i) = ws[i].end /\ ws[i].end >= EndAt(ws, i - 1) + 8
           /\ ws[i].end > EndAt(ws, i - 1) /\ ws[i].end <= Len(b)
<1> DEFINE e == ws[i].entry
           l == Len(frame(e))
           n == Len(encode(e))
           o == EndAt(ws, i - 1)
           x == ws[i].end
<1>1. e \in AllEntries /\ x \in Nat
  BY WholeFields
<1>2. l = 8 + n /\ n \in 1..47
  BY <1>1, FrameBytes
<1>3. i - 1 \in 0..Len(ws) /\ i # 0
  BY DEF Wholes
<1>4. o \in Nat
  BY <1>3, EndAtType
<1>5. x = o + l /\ o + l <= Len(b)
  BY DEF Tile, HasAt
<1>6. EndAt(ws, i) = x
  BY <1>3 DEF EndAt
<1> HIDE DEF l, n, o, x
<1>7. x >= o + 8 /\ x > o /\ x <= Len(b)
  BY <1>1, <1>2, <1>4, <1>5
<1> QED BY <1>6, <1>7 DEF o, x

\* Where the two begin with the same n bytes.
LEMMA TiledPart ==
    ASSUME NEW b \in Seq(Byte), NEW c \in Seq(Byte), NEW ws \in Wholes, NEW k \in 0..Len(ws),
           Tiled(b, ws, k), NEW n \in Nat, n <= Len(c), \A i \in 1..n : c[i] = b[i],
           \A i \in 1..k : ws[i].end <= n
    PROVE  Tiled(c, ws, k)
<1> SUFFICES ASSUME NEW i \in 1..k PROVE Tile(c, ws, i)
  BY DEF Tiled
<1> DEFINE e == ws[i].entry
           l == Len(frame(e))
           o == EndAt(ws, i - 1)
           x == ws[i].end
           f == frame(e)
<1>0. Len(ws) \in Nat
  BY DEF Wholes
<1>1. i \in 1..Len(ws) /\ i - 1 \in 0..Len(ws)
  BY <1>0
<1>2. Tile(b, ws, i) /\ x <= n
  BY DEF Tiled
<1>3. e \in AllEntries /\ x \in Nat /\ o \in Nat
  BY <1>1, WholeFields, EndAtType
<1>4. f \in Seq(Byte)
  BY <1>3, FrameBytes
<1>5. l \in Nat
  BY <1>4
<1>6. x = o + l /\ \A j \in 1..l : b[o + j] = f[j]
  BY <1>2 DEF Tile, HasAt
<1> HIDE DEF f, l, o, x
<1>7. o + l <= Len(c) /\ Len(c) \in Nat
  BY <1>2, <1>3, <1>5, <1>6
<1>8. \A j \in 1..l : c[o + j] = f[j]
  <2> TAKE j \in 1..l
  <2>1. o + j \in 1..n
    BY <1>2, <1>3, <1>5, <1>6
  <2> QED BY <1>6, <2>1
<1> QED BY <1>6, <1>7, <1>8 DEF Tile, HasAt, f, l, o, x

\* In a log that is cut inside a frame, or behind the last one, the loop stops.
LEMMA CutStops ==
    ASSUME NEW b \in Seq(Byte), NEW ws \in Wholes, NEW m \in 0..Len(ws), Tiled(b, ws, m),
           NEW n \in 0..Len(b), NEW k \in 0..m, EndAt(ws, k) <= n,
           k = m => EndAt(ws, m) = n, k # m => ws[k + 1].end > n,
           NEW s \in ParseStates, s.offset = EndAt(ws, k)
    PROVE  ~Advances(SubSeq(b, 1, n), s)
<1> DEFINE c == SubSeq(b, 1, n)
           o == EndAt(ws, k)
<1>0. Len(ws) \in Nat /\ k \in 0..Len(ws) /\ n \in Nat /\ Len(b) \in Nat
  BY DEF Wholes
<1>1. c \in Seq(Byte) /\ Len(c) = n /\ \A i \in 1..n : c[i] = b[i]
  BY PrefixOf
<1>2. o \in Nat
  BY <1>0, EndAtType
<1>3. CASE k = m
  BY <1>1, <1>3 DEF Advances, Done
<1>4. CASE k # m
  <2>1. k + 1 \in 1..Len(ws) /\ k + 1 \in 1..m /\ (k + 1) - 1 = k
    BY <1>0, <1>4
  <2> DEFINE e == ws[k + 1].entry
             x == ws[k + 1].end
             f == frame(e)
             l == Len(encode(e))
  <2>2. e \in AllEntries /\ x \in Nat
    BY <2>1, WholeFields
  <2>3. x = o + Len(f) /\ HasAt(b, o, f)
    <3>1. Tile(b, ws, k + 1)
      BY <2>1 DEF Tiled
    <3> QED BY <2>1, <3>1 DEF Tile
  <2>4. Len(f) = 8 + l /\ l \in 1..47
    BY <2>2, FrameBytes
  <2>5. SUFFICES ASSUME Advances(c, s) PROVE FALSE
    OBVIOUS
  <2> HIDE DEF c
  <2>6. o + 8 <= n
    BY <1>1, <2>5, BytesAre DEF Advances
  <2>7. \A i \in 1..8 : c[o + i] = f[i]
    <3> TAKE i \in 1..8
    <3> HIDE DEF o, f, l
    <3>1. o + i \in 1..n /\ i \in 1..Len(f)
      BY <1>0, <1>2, <2>4, <2>6
    <3> QED BY <1>1, <2>3, <3>1 DEF HasAt
  <2>8. announced(c, o) = l
    BY <1>1, <1>2, <2>2, <2>7, PrefixRead
  <2>9. End(c, s) = o + 8 + l
    BY <2>8, BytesAre DEF End
  <2>10. o + 8 + l <= n
    BY <1>1, <2>5, <2>9 DEF Advances
  <2>11. x > n
    BY <1>4
  <2> DEFINE y == Len(f)
  <2>12. x = o + y /\ y = 8 + l
    BY <2>3, <2>4
  <2> HIDE DEF o, l, x, y
  <2> QED BY <1>0, <1>2, <2>2, <2>4, <2>10, <2>11, <2>12
<1> QED BY <1>3, <1>4

\* What has been read when the loop stops is the result.
LEMMA StopsThere ==
    ASSUME NEW b \in Seq(Byte), NEW st, IsParse(st, b), NEW k \in 0..Rounds(b),
           ~st[k].stop, 8 * k <= st[k].offset, ~Advances(b, st[k])
    PROVE  /\ parse_buffer(b).entries = st[k].entries
           /\ parse_buffer(b).committed_count = st[k].committed_count
           /\ parse_buffer(b).committed_end = st[k].committed_end
<1> DEFINE n == Rounds(b)
           s == st[k]
           t == Round(b, s)
<1>1. n \in Nat /\ Len(b) \in Nat /\ 8 * n > Len(b)
  BY RoundsAre
<1>2. s \in ParseStates /\ \A l \in 1..n : st[l] = Round(b, st[l - 1])
  BY DEF IsParse
<1>3. s.offset \in Nat
  BY <1>2, StateFields
<1>4. CASE Done(b, s)
  <2>1. parse_buffer(b) = s
    BY <1>4, DoneStays
  <2> QED BY <2>1
<1>5. CASE ~Done(b, s)
  <2>1. s.offset < Len(b)
    <3>1. ~(s.offset >= Len(b))
      BY <1>5 DEF Done
    <3> QED BY <1>1, <1>3, <3>1
  <2>2. k + 1 \in 1..n /\ k + 1 \in 0..n /\ (k + 1) - 1 = k
    <3> DEFINE o == s.offset
    <3>1. o \in Nat /\ o < Len(b) /\ 8 * k <= o
      BY <1>3, <2>1
    <3> HIDE DEF o, n
    <3>2. k \in 0..n
      BY DEF n
    <3> QED BY <1>1, <3>1, <3>2
  <2>3. st[k + 1] = t
    BY <1>2, <2>2
  <2>4. Done(b, t) /\ t = [s EXCEPT !.stop = t.stop]
    BY <1>2, RoundSteps
  <2>5. t = [offset |-> s.offset, entries |-> s.entries,
             committed_count |-> s.committed_count,
             committed_end |-> s.committed_end, stop |-> t.stop]
    BY <1>2, <2>4, StateStop
  <2> HIDE DEF t, s
  <2>6. t.entries = s.entries /\ t.committed_count = s.committed_count
        /\ t.committed_end = s.committed_end
    BY <2>5
  <2>7. parse_buffer(b) = t
    BY <2>2, <2>3, <2>4, DoneStays
  <2> QED BY <2>6, <2>7 DEF s
<1> QED BY <1>4, <1>5

-----------------------------------------------------------------------------
\* What is parsed of a log that is cut, and of one that is torn.

\* The last entry that ends in the first n bytes.
LEMMA LastTile ==
    ASSUME NEW b \in Seq(Byte), NEW ws \in Wholes, NEW m \in 0..Len(ws), Tiled(b, ws, m),
           Ordered(ws), NEW n \in 0..Len(b), n <= EndAt(ws, m)
    PROVE  \E k \in 0..m :
               /\ EndAt(ws, k) <= n /\ (k = m => EndAt(ws, m) = n)
               /\ k # m => ws[k + 1].end > n
               /\ \A i \in 1..k : ws[i].end <= n
               /\ \A i \in (k + 1)..m : ws[i].end > n
<1> DEFINE S == {i \in 0..m : EndAt(ws, i) <= n}
           k == Max(S)
<1>0. Len(ws) \in Nat /\ m \in Nat /\ n \in Nat
  BY DEF Wholes
<1>1. 0 \in S
  BY <1>0 DEF EndAt
<1>2. S \in SUBSET Nat /\ S # {} /\ \A i \in S : i <= m
  BY <1>0, <1>1
<1>3. k \in S /\ \A i \in S : k >= i
  <2> HIDE DEF S
  <2> QED BY <1>0, <1>2, MaxOfBounded
<1>4. k \in 0..m /\ EndAt(ws, k) <= n
  <2> HIDE DEF k
  <2> QED BY <1>3
<1>5. \A i \in 0..m : EndAt(ws, i) <= n => k >= i
  <2> HIDE DEF k
  <2> QED BY <1>3
<1> HIDE DEF k, S
<1>6. \A i \in 1..Len(ws) : ws[i].end \in Nat /\ EndAt(ws, i) = ws[i].end
  <2> TAKE i \in 1..Len(ws)
  <2>1. i # 0
    BY <1>0
  <2> QED BY <2>1, WholeFields DEF EndAt
<1>7. \A i \in (k + 1)..m : ws[i].end > n
  <2> TAKE i \in (k + 1)..m
  <2>1. i \in 0..m /\ i \in 1..Len(ws) /\ ~(k >= i)
    BY <1>0, <1>4
  <2>2. ~(ws[i].end <= n) /\ ws[i].end \in Nat
    BY <1>5, <1>6, <2>1
  <2> QED BY <1>0, <2>2
<1>8. k # m => ws[k + 1].end > n
  <2>1. k # m => k + 1 \in (k + 1)..m
    BY <1>0, <1>4
  <2> QED BY <1>7, <2>1
<1>9. \A i \in 1..k : ws[i].end <= n
  <2> TAKE i \in 1..k
  <2>1. i \in 1..Len(ws) /\ k \in 1..Len(ws) /\ i <= k
    BY <1>0, <1>4
  <2> DEFINE x == ws[i].end
             y == ws[k].end
  <2>2. x <= y /\ x \in Nat /\ y \in Nat /\ y <= n
    BY <1>4, <1>6, <2>1 DEF Ordered
  <2> HIDE DEF x, y
  <2>3. x <= n
    BY <1>0, <2>2
  <2> QED BY <2>3 DEF x
<1>10. k = m => EndAt(ws, m) = n
  <2>1. EndAt(ws, m) \in Nat
    BY EndAtType
  <2> QED BY <1>0, <1>4, <2>1
<1> QED BY <1>4, <1>7, <1>8, <1>9, <1>10

\* The first k entries, parsed.
ParsedAs(r, ws, k) ==
    /\ r.entries \in Seq(Records) /\ Len(r.entries) = k
    /\ \A j \in 1..k : r.entries[j] = ws[j].entry
    /\ IsLastCommit(ws, k, r.committed_count)
    /\ r.committed_end = EndAt(ws, r.committed_count)

\* A log of frames that is cut somewhere is parsed as those that are left.
LEMMA ParseCut ==
    ASSUME NEW b \in Seq(Byte), NEW ws \in Wholes, NEW m \in 0..Len(ws), Tiled(b, ws, m),
           Ordered(ws), NEW n \in 0..Len(b), n <= EndAt(ws, m)
    PROVE  \E k \in 0..m :
               /\ \A i \in 1..k : ws[i].end <= n
               /\ \A i \in (k + 1)..m : ws[i].end > n
               /\ ParsedAs(parse_buffer(SubSeq(b, 1, n)), ws, k)
<1> DEFINE c == SubSeq(b, 1, n)
           r == parse_buffer(c)
<1>0. Len(ws) \in Nat /\ m \in Nat /\ n \in Nat
  BY DEF Wholes
<1>1. c \in Seq(Byte) /\ Len(c) = n /\ \A i \in 1..n : c[i] = b[i]
  BY PrefixOf
<1>2. PICK k \in 0..m : /\ EndAt(ws, k) <= n /\ (k = m => EndAt(ws, m) = n)
                        /\ k # m => ws[k + 1].end > n
                        /\ \A i \in 1..k : ws[i].end <= n
                        /\ \A i \in (k + 1)..m : ws[i].end > n
  BY LastTile
<1>3. k \in 0..Len(ws) /\ k \in 0..k /\ Tiled(b, ws, k)
  BY <1>0 DEF Tiled
<1>4. Tiled(c, ws, k)
  <2> HIDE DEF c
  <2>1. n <= Len(c)
    BY <1>0, <1>1
  <2> QED BY <1>0, <1>1, <1>2, <1>3, <2>1, TiledPart
<1>5. PICK st : IsParse(st, c)
  BY <1>1, ParseExists
<1>6. k \in 0..Rounds(c) /\ HasRead(ws, k, st[k]) /\ ~st[k].stop
  <2> HIDE DEF c
  <2> QED BY <1>1, <1>3, <1>4, <1>5, ReadsTiles
<1>7. st[k] \in ParseStates
  BY <1>5, <1>6 DEF IsParse
<1>8. /\ st[k].offset = EndAt(ws, k) /\ 8 * k <= st[k].offset
      /\ Len(st[k].entries) = k /\ \A j \in 1..k : st[k].entries[j] = ws[j].entry
      /\ IsLastCommit(ws, k, st[k].committed_count)
      /\ st[k].committed_end = EndAt(ws, st[k].committed_count)
  BY <1>6 DEF HasRead
<1>9. ~Advances(c, st[k])
  BY <1>2, <1>7, <1>8, CutStops
<1>10. r.entries = st[k].entries /\ r.committed_count = st[k].committed_count
       /\ r.committed_end = st[k].committed_end
  <2> HIDE DEF c
  <2> QED BY <1>1, <1>5, <1>6, <1>8, <1>9, StopsThere
<1>11. st[k].entries \in Seq(Records)
  BY <1>7, StateFields
<1> HIDE DEF r
<1>12. /\ r.entries \in Seq(Records) /\ Len(r.entries) = k
       /\ \A j \in 1..k : r.entries[j] = ws[j].entry
       /\ IsLastCommit(ws, k, r.committed_count)
       /\ r.committed_end = EndAt(ws, r.committed_count)
  BY <1>8, <1>10, <1>11
<1>13. ParsedAs(r, ws, k)
  BY <1>12 DEF ParsedAs
<1> QED BY <1>2, <1>13 DEF r

\* Frames at the beginning are read, whatever comes behind them.
LEMMA ParsePast ==
    ASSUME NEW b \in Seq(Byte), NEW ws \in Wholes, NEW m \in 0..Len(ws), Tiled(b, ws, m)
    PROVE  LET r == parse_buffer(b)
           IN  /\ r.entries \in Seq(Records) /\ m <= Len(r.entries)
               /\ \A j \in 1..m : r.entries[j] = ws[j].entry
               /\ \E c \in 0..m : IsLastCommit(ws, m, c) /\ c <= r.committed_count
                                  /\ EndAt(ws, c) <= r.committed_end
               /\ r.committed_end <= EndAt(ws, m) =>
                     \E j \in 0..m : r.committed_end = EndAt(ws, j)
<1> DEFINE n == Rounds(b)
           r == parse_buffer(b)
<1>0. Len(ws) \in Nat /\ m \in Nat /\ n \in Nat /\ m \in 0..m /\ n \in 0..n
  BY RoundsAre DEF Wholes
<1>1. PICK st : IsParse(st, b)
  BY ParseExists
<1>2. m \in 0..n /\ HasRead(ws, m, st[m]) /\ ~st[m].stop
  BY <1>0, <1>1, ReadsTiles
<1>3. r = st[n] /\ st[n] \in ParseStates /\ st[m] \in ParseStates
  BY <1>0, <1>1, <1>2 DEF IsParse
<1>4. Grows(st[m], r)
  BY <1>0, <1>1, <1>2, <1>3, StatesGrow
<1> DEFINE s == st[m]
           c == s.committed_count
<1>5. /\ s.offset = EndAt(ws, m) /\ Len(s.entries) = m
      /\ \A j \in 1..m : s.entries[j] = ws[j].entry
      /\ IsLastCommit(ws, m, c) /\ s.committed_end = EndAt(ws, c)
  BY <1>2 DEF HasRead
<1>6. r.entries \in Seq(Records)
  BY <1>3, StateFields
<1>7. c \in 0..m /\ c <= r.committed_count /\ EndAt(ws, c) <= r.committed_end
  BY <1>4, <1>5 DEF Grows, IsLastCommit
<1>8. m <= Len(r.entries) /\ \A j \in 1..m : r.entries[j] = ws[j].entry
  <2> HIDE DEF r, s
  <2> QED BY <1>4, <1>5 DEF Grows, s
<1>9. ASSUME r.committed_end <= EndAt(ws, m)
      PROVE  \E j \in 0..m : r.committed_end = EndAt(ws, j)
  <2>1. PICK i \in 0..n : ReadsAll(st, b, i) /\ Committed(st[i], st[n])
    BY <1>0, <1>1, LastCommit
  <2>2. st[i].offset = r.committed_end
    BY <1>3, <2>1 DEF Committed
  <2>3. CASE i <= m
    <3>1. i \in 0..m
      BY <1>0, <2>3
    <3>2. HasRead(ws, i, st[i])
      BY <1>1, <3>1, ReadsTiles
    <3>3. r.committed_end = EndAt(ws, i)
      BY <2>2, <3>2 DEF HasRead
    <3> QED BY <3>1, <3>3
  <2>4. CASE ~(i <= m)
    <3> HIDE DEF n
    <3>1. m + 1 \in 1..i /\ (m + 1) - 1 = m /\ m + 1 \in 0..n /\ m + 1 <= i /\ m + 1 \in 1..n
      BY <1>0, <2>4
    <3>2. Advances(b, s)
      <4>1. Advances(b, st[(m + 1) - 1])
        BY <2>1, <3>1 DEF ReadsAll
      <4> QED BY <3>1, <4>1
    <3>3. st[m + 1] = Round(b, s)
      <4>1. st[m + 1] = Round(b, st[(m + 1) - 1])
        BY <1>1, <3>1 DEF IsParse, n
      <4> QED BY <3>1, <4>1
    <3>4. Step(s, st[m + 1])
      BY <1>3, <3>2, <3>3, RoundSteps
    <3>5. Grows(st[m + 1], st[i])
      BY <1>1, <3>1, StatesGrow DEF n
    <3>6. st[m + 1] \in ParseStates /\ st[i] \in ParseStates
      BY <1>1, <3>1 DEF IsParse, n
    <3> DEFINE x == s.offset
               y == st[m + 1].offset
               w == st[i].offset
    <3>7. x \in Nat /\ y \in Nat /\ w \in Nat
      BY <1>3, <3>6, StateFields
    <3>8. y >= x + 8 /\ y <= w /\ w <= x
      BY <1>5, <1>9, <2>2, <3>4, <3>5, BytesAre DEF Step, Grows
    <3> HIDE DEF x, y, w
    <3> QED BY <3>7, <3>8
  <2> QED BY <2>3, <2>4
<1> HIDE DEF c, r
<1> QED BY <1>5, <1>6, <1>7, <1>8, <1>9 DEF r

-----------------------------------------------------------------------------
\* The reference, and the numbers that are read back.

\* There is only one last COMMIT.
LEMMA LastCommitUnique ==
    ASSUME NEW ws, NEW k \in Nat, NEW c, NEW d, IsLastCommit(ws, k, c), IsLastCommit(ws, k, d)
    PROVE  c = d
<1>1. /\ c \in 0..k /\ d \in 0..k
      /\ c # 0 => ws[c].entry.op = "commit"
      /\ d # 0 => ws[d].entry.op = "commit"
      /\ \A j \in (c + 1)..k : ws[j].entry.op # "commit"
      /\ \A j \in (d + 1)..k : ws[j].entry.op # "commit"
  BY DEF IsLastCommit
<1>2. ~(c < d)
  <2>1. c < d => d \in (c + 1)..k /\ d # 0
    BY <1>1
  <2> QED BY <1>1, <2>1
<1>3. ~(d < c)
  <2>1. d < c => c \in (d + 1)..k /\ c # 0
    BY <1>1
  <2> QED BY <1>1, <2>1
<1> QED BY <1>1, <1>2, <1>3

\* What whole is cut down to.
LEMMA WholeUpToIs ==
    ASSUME whole \in Wholes, NEW n \in Nat, NEW k \in 0..Len(whole),
           \A i \in 1..k : whole[i].end <= n,
           \A i \in (k + 1)..Len(whole) : whole[i].end > n
    PROVE  WholeUpTo(n) = SubSeq(whole, 1, k)
<1> DEFINE I == {i \in 1..Len(whole) : whole[i].end <= n}
           l == SelectLastInSeq(whole, LAMBDA w : w.end <= n)
<1>0. Len(whole) \in Nat /\ k \in Nat
  BY DEF Wholes
<1>1. l = IF I # {} THEN Max(I) ELSE 0
  BY DEF SelectLastInSeq
<1>2. \A i \in 1..Len(whole) : whole[i].end \in Nat
  BY WholeFields
<1>3. I = 1..k
  <2>1. \A i \in 1..Len(whole) : i \in 1..k \/ i \in (k + 1)..Len(whole)
    BY <1>0
  <2>2. \A i \in 1..k : i \in 1..Len(whole)
    BY <1>0
  <2>3. \A i \in (k + 1)..Len(whole) : i \in 1..Len(whole)
    BY <1>0
  <2>4. \A i \in (k + 1)..Len(whole) : ~(whole[i].end <= n)
    <3> TAKE i \in (k + 1)..Len(whole)
    <3>1. whole[i].end > n /\ whole[i].end \in Nat
      BY <1>2, <2>3
    <3> QED BY <3>1
  <2> QED BY <2>1, <2>2, <2>4
<1> HIDE DEF I
<1>4. l = k
  <2>1. CASE k = 0
    BY <1>1, <1>3, <2>1
  <2>2. CASE k # 0
    <3>1. Max(1..k) = k
      BY <1>0, <2>2, MaxOfInterval
    <3>2. 1..k # {}
      BY <1>0, <2>2
    <3> QED BY <1>1, <1>3, <3>1, <3>2
  <2> QED BY <2>1, <2>2
<1> QED BY <1>4 DEF WholeUpTo

\* What Reference(n) says when the first k entries end in the first n bytes.
LEMMA ReferenceIs ==
    ASSUME whole \in Wholes, NEW n \in Nat, NEW k \in 0..Len(whole),
           \A i \in 1..k : whole[i].end <= n,
           \A i \in (k + 1)..Len(whole) : whole[i].end > n
    PROVE  \E c \in 0..k :
               /\ IsLastCommit(whole, k, c)
               /\ Reference(n) = [entries |-> [i \in 1..k |-> whole[i].entry],
                                  committed_count |-> c,
                                  committed_end |-> EndAt(whole, c)]
<1> DEFINE ws == SubSeq(whole, 1, k)
           I == {i \in 1..Len(ws) : ws[i].entry.op = "commit"}
           c == SelectLastInSeq(ws, LAMBDA w : w.entry.op = "commit")
           es == [i \in 1..Len(ws) |-> ws[i].entry]
           xs == [i \in 1..k |-> whole[i].entry]
           x == IF c = 0 THEN 0 ELSE ws[c].end
<1>0. WholeUpTo(n) = ws
  BY WholeUpToIs
<1>1. Reference(n) = [entries |-> es, committed_count |-> c, committed_end |-> x]
  BY <1>0 DEF Reference
<1>2. Len(ws) = k /\ \A i \in 1..k : ws[i] = whole[i]
  BY PrefixOf DEF Wholes
<1>3. k \in Nat
  BY DEF Wholes
<1>4. c = IF I # {} THEN Max(I) ELSE 0
  BY DEF SelectLastInSeq
<1> HIDE DEF ws
<1>5. es = xs
  BY <1>2
<1>6. I \in SUBSET Nat /\ \A i \in I : i <= k
  BY <1>2, <1>3
<1>7. c \in 0..k /\ (c # 0 => c \in I) /\ \A i \in I : c >= i
  <2>1. CASE I = {}
    <3> HIDE DEF I, c
    <3>1. c = 0
      BY <1>4, <2>1
    <3> QED BY <1>3, <2>1, <3>1
  <2>2. CASE I # {}
    <3>1. \A i \in I : i \in 1..k
      BY <1>2
    <3> HIDE DEF I, c
    <3>2. Max(I) \in I /\ \A y \in I : Max(I) >= y
      BY <1>3, <1>6, <2>2, MaxOfBounded
    <3>3. c \in I /\ \A i \in I : c >= i
      BY <1>4, <2>2, <3>2
    <3>4. c \in 1..k
      BY <3>1, <3>3
    <3>5. c \in 0..k
      BY <1>3, <3>4
    <3> QED BY <3>3, <3>5
  <2> QED BY <2>1, <2>2
<1> HIDE DEF c
<1>8. IsLastCommit(whole, k, c)
  <2>1. c # 0 => whole[c].entry.op = "commit"
    BY <1>2, <1>7
  <2>2. \A j \in (c + 1)..k : j \in 1..k /\ ~(c >= j)
    BY <1>3, <1>7
  <2>3. \A j \in (c + 1)..k : j \notin I
    <3> HIDE DEF I
    <3> QED BY <1>7, <2>2
  <2>4. \A j \in (c + 1)..k : whole[j].entry.op # "commit"
    BY <1>2, <2>2, <2>3
  <2> QED BY <1>7, <2>1, <2>4 DEF IsLastCommit
<1>9. x = EndAt(whole, c)
  <2>1. c # 0 => c \in 1..k
    BY <1>3, <1>7
  <2> QED BY <1>2, <2>1 DEF EndAt
<1> HIDE DEF x, es, xs
<1>10. Reference(n) = [entries |-> xs, committed_count |-> c, committed_end |-> EndAt(whole, c)]
  BY <1>1, <1>5, <1>9
<1> QED BY <1>7, <1>8, <1>10 DEF xs

\* The sequence number of a record that decodes is one byte.
LEMMA SequenceOfRecord ==
    ASSUME NEW e \in Records
    PROVE  e.sequence \in Byte
<1>1. PICK b \in Seq(Byte) : e = decode(b)
  BY DEF Records
<1> DEFINE fs == decode_fields(b, EntryWires).fields
           I == {i \in 1..Len(fs) : fs[i].num = 4}
           l == SelectLastInSeq(fs, LAMBDA f : f.num = 4)
<1>2. PICK st : IsDecode(st, b, EntryWires)
  BY DecodeExists
<1>3. decode_fields(b, EntryWires) \in FieldStates(EntryWires)
  <2>1. Len(b) \in 0..Len(b)
    OBVIOUS
  <2> QED BY <1>2, <2>1 DEF IsDecode
<1>4. fs \in Seq(Fields(EntryWires))
  BY <1>3, FieldStateFields
<1>5. e.sequence = field(fs, 4, 0)
  BY <1>1 DEF decode
<1>6. l = IF I # {} THEN Max(I) ELSE 0
  BY DEF SelectLastInSeq
<1>7. field(fs, 4, 0) = IF l = 0 THEN 0 ELSE fs[l].val
  BY DEF field
<1> HIDE DEF fs, l
<1>8. Len(fs) \in Nat /\ 0 \in Byte
  BY <1>4, BytesAre
<1>9. CASE I = {}
  BY <1>5, <1>6, <1>7, <1>8, <1>9
<1>10. CASE I # {}
  <2>1. I \in SUBSET Nat /\ (\A i \in I : i <= Len(fs)) /\ \A i \in I : i \in 1..Len(fs)
    BY <1>8
  <2>2. \A i \in I : fs[i].num = 4
    OBVIOUS
  <2> HIDE DEF I
  <2>3. Max(I) \in I
    BY <1>8, <1>10, <2>1, MaxOfBounded
  <2>4. l \in I /\ l \in 1..Len(fs) /\ l # 0
    <3>1. l \in I
      BY <1>6, <1>10, <2>3
    <3>2. l \in 1..Len(fs)
      BY <2>1, <3>1
    <3> QED BY <1>8, <3>1, <3>2
  <2>5. fs[l] \in Fields(EntryWires) /\ fs[l].num = 4
    <3> DEFINE F == Fields(EntryWires)
    <3> HIDE DEF F
    <3>1. fs \in Seq(F)
      BY <1>4 DEF F
    <3>2. fs[l] \in F
      BY <2>4, <3>1
    <3> QED BY <2>2, <2>4, <3>2 DEF F
  <2>6. fs[l].val \in Byte
    BY <2>5, WiresAre DEF Fields
  <2> QED BY <1>5, <1>7, <2>4, <2>6
<1> QED BY <1>9, <1>10

-----------------------------------------------------------------------------
\* Logs that grow, whole entry by whole entry or torn.

\* The first m entries are read before the first tear, at f, is met.
Past(b, ws, f, m) ==
    /\ Tiled(b, ws, m)
    /\ EndAt(ws, m) = f
    /\ \A i \in (m + 1)..Len(ws) : ws[i].end > f

\* A log of the bytes b, whose entries are ws, torn at the offsets T.
IsLog(b, ws, T) ==
    /\ b \in Seq(Byte)
    /\ ws \in Wholes
    /\ T \in SUBSET Nat
    /\ \A t \in T : t < Len(b)

LogOk(b, ws, T) ==
    /\ Ordered(ws)
    /\ \A i \in 1..Len(ws) : ws[i].end <= Len(b)
    /\ \E m \in 0..Len(ws) : Past(b, ws, Min({Len(b)} \cup T), m)

\* The least offset is the first tear, or the end of a log without one.
LEMMA FirstIs ==
    ASSUME NEW l \in Nat, NEW T \in SUBSET Nat, NEW f \in {l} \cup T,
           \A t \in {l} \cup T : f <= t
    PROVE  Min({l} \cup T) = f
<1> DEFINE S == {l} \cup T
           g == Min(S)
<1>1. S \in SUBSET Nat /\ S # {} /\ f \in S /\ \A t \in S : f <= t
  OBVIOUS
<1> HIDE DEF S
<1>2. g \in S /\ \A t \in S : g <= t
  BY <1>1, MinOfNats
<1> HIDE DEF g
<1>3. g = f
  <2>1. g \in Nat /\ f \in Nat /\ g <= f /\ f <= g
    BY <1>1, <1>2
  <2> QED BY <2>1
<1> QED BY <1>3 DEF g, S

\* What the first tear is.
LEMMA FirstOf ==
    ASSUME NEW l \in Nat, NEW T \in SUBSET Nat
    PROVE  /\ Min({l} \cup T) \in {l} \cup T /\ Min({l} \cup T) \in Nat
           /\ Min({l} \cup T) <= l
           /\ \A t \in T : Min({l} \cup T) <= t
<1> DEFINE S == {l} \cup T
           g == Min(S)
<1>1. S \in SUBSET Nat /\ S # {} /\ l \in S /\ \A t \in T : t \in S
  OBVIOUS
<1>2. g \in S /\ \A t \in S : g <= t
  <2> HIDE DEF S
  <2> QED BY <1>1, MinOfNats
<1> HIDE DEF g, S
<1>3. g \in S /\ g \in Nat /\ g <= l /\ \A t \in T : g <= t
  BY <1>1, <1>2
<1> QED BY <1>3 DEF g, S

\* The tears U of a log that had the tears T when it was l bytes long.
LaterTears(U, T, l) == (U = T /\ T # {}) \/ U = T \cup {l}

\* A log that grows has the same first tear.
LEMMA SameFirst ==
    ASSUME NEW l \in Nat, NEW n \in Nat, l <= n, NEW T \in SUBSET Nat, \A t \in T : t < l,
           NEW U, LaterTears(U, T, l)
    PROVE  Min({n} \cup U) = Min({l} \cup T)
<1>0. (U = T /\ T # {}) \/ U = T \cup {l}
  BY DEF LaterTears
<1> DEFINE f == Min({l} \cup T)
<1>1. f \in {l} \cup T /\ f \in Nat /\ f <= l /\ \A t \in T : f <= t
  BY FirstOf
<1> HIDE DEF f
<1>2. U \in SUBSET Nat
  BY <1>0
<1>3. f \in {n} \cup U
  <2>1. CASE U = T \cup {l}
    BY <1>1, <2>1
  <2>2. CASE U = T /\ T # {}
    <3>1. PICK t \in T : TRUE
      BY <2>2
    <3>2. f <= t /\ t < l /\ t \in Nat
      BY <1>1, <3>1
    <3>3. f # l
      BY <1>1, <3>2
    <3> QED BY <1>1, <2>2, <3>3
  <2> QED BY <1>0, <2>1, <2>2
<1>4. \A t \in {n} \cup U : f <= t
  <2>1. f <= n
    BY <1>1
  <2>2. \A t \in U : t \in T \/ t = l
    BY <1>0
  <2> QED BY <1>1, <2>1, <2>2
<1>5. Min({n} \cup U) = f
  BY <1>2, <1>3, <1>4, FirstIs
<1> QED BY <1>5 DEF f

\* More bytes at the end of a log, and one more entry.
Extended(x, b, y) == x = b \o y

OneMore(v, ws, e, n) == v = Append(ws, [entry |-> e, end |-> n])

\* A log with more bytes at its end.
LEMMA Longer ==
    ASSUME NEW b \in Seq(Byte), NEW y \in Seq(Byte), NEW x, Extended(x, b, y)
    PROVE  /\ x \in Seq(Byte) /\ Len(x) = Len(b) + Len(y)
           /\ \A i \in 1..Len(b) : x[i] = b[i]
           /\ HasAt(x, Len(b), y)
<1>0. x = b \o y
  BY DEF Extended
<1>1. x \in Seq(Byte) /\ Len(x) = Len(b) + Len(y)
  BY <1>0, ConcatBytes, Zenon
<1>2. HasAt(x, 0, x)
  BY <1>1, HasAtSelf
<1> DEFINE z == 0
<1>3. z \in Nat /\ HasAt(x, z, x)
  BY <1>2
<1> HIDE DEF z
<1>4. HasAt(x, z, b) /\ HasAt(x, z + Len(b), y)
  BY <1>0, <1>1, <1>3, HasAtConcat, Zenon
<1>5. Len(b) \in Nat
  OBVIOUS
<1>6. \A i \in 1..Len(b) : x[i] = b[i]
  BY <1>4, <1>5 DEF HasAt, z
<1>7. z + Len(b) = Len(b)
  BY <1>5 DEF z
<1> QED BY <1>1, <1>4, <1>6, <1>7

\* An append that fails after some bytes.
LEMMA LogTears ==
    ASSUME NEW b, NEW ws, NEW T, IsLog(b, ws, T), LogOk(b, ws, T),
           NEW y \in Seq(Byte), Len(y) >= 1, NEW x, Extended(x, b, y)
    PROVE  IsLog(x, ws, T \cup {Len(b)}) /\ LogOk(x, ws, T \cup {Len(b)})
<1> DEFINE l == Len(b)
           n == Len(x)
           U == T \cup {l}
           f == Min({l} \cup T)
<1>1. b \in Seq(Byte) /\ ws \in Wholes /\ T \in SUBSET Nat /\ (\A t \in T : t < l) /\ l \in Nat
  BY DEF IsLog
<1>2. Len(y) \in Nat /\ x \in Seq(Byte) /\ n = l + Len(y) /\ \A i \in 1..l : x[i] = b[i]
  BY <1>1, Longer
<1> HIDE DEF n, l
<1>3. n \in Nat /\ l < n /\ l <= n
  BY <1>1, <1>2
<1>4. IsLog(x, ws, U)
  <2>1. U \in SUBSET Nat /\ \A t \in U : t < n
    BY <1>1, <1>3
  <2> QED BY <1>1, <1>2, <2>1 DEF IsLog, n
<1>5. /\ Ordered(ws) /\ \A i \in 1..Len(ws) : ws[i].end <= l
  BY DEF LogOk, l
<1>6. PICK m \in 0..Len(ws) : Past(b, ws, f, m)
  BY DEF LogOk, l
<1>7. Min({n} \cup U) = f
  <2>1. LaterTears(U, T, l)
    BY DEF LaterTears
  <2> HIDE DEF U
  <2> QED BY <1>1, <1>3, <2>1, SameFirst
<1>8. Len(ws) \in Nat /\ m \in Nat
  BY <1>1 DEF Wholes
<1>9. Tiled(x, ws, m)
  <2>1. \A i \in 1..m : i \in 1..Len(ws)
    BY <1>8
  <2>2. \A i \in 1..m : ws[i].end <= l
    BY <1>5, <2>1
  <2>3. Tiled(b, ws, m) /\ l <= Len(x)
    BY <1>3, <1>6 DEF Past, n
  <2> QED BY <1>1, <1>2, <2>2, <2>3, TiledPart
<1>10. Past(x, ws, f, m)
  BY <1>6, <1>9 DEF Past
<1>11. \A i \in 1..Len(ws) : ws[i].end <= n
  <2> TAKE i \in 1..Len(ws)
  <2>1. ws[i].end \in Nat /\ ws[i].end <= l
    BY <1>1, <1>5, WholeFields
  <2> QED BY <1>1, <1>3, <2>1
<1> HIDE DEF f, U
<1>12. LogOk(x, ws, U)
  BY <1>5, <1>7, <1>10, <1>11 DEF LogOk, n
<1> QED BY <1>4, <1>12 DEF U, l

\* One more entry.
LEMMA AppendWhole ==
    ASSUME NEW ws \in Wholes, NEW e \in AllEntries, NEW n \in Nat,
           NEW v, OneMore(v, ws, e, n)
    PROVE  /\ v \in Wholes /\ Len(v) = Len(ws) + 1
           /\ \A i \in 1..Len(ws) : v[i] = ws[i]
           /\ v[Len(ws) + 1].entry = e /\ v[Len(ws) + 1].end = n
<1> DEFINE R == [entry : AllEntries, end : Nat]
           w == [entry |-> e, end |-> n]
<1>1. w \in R /\ w.entry = e /\ w.end = n
  OBVIOUS
<1>2. v = Append(ws, w)
  BY DEF OneMore
<1> HIDE DEF R, w
<1>3. ws \in Seq(R)
  BY DEF Wholes, R
<1>4. v \in Seq(R) /\ Len(v) = Len(ws) + 1 /\ (\A i \in 1..Len(ws) : v[i] = ws[i])
      /\ v[Len(ws) + 1] = w
  BY <1>1, <1>2, <1>3
<1> QED BY <1>1, <1>4 DEF Wholes, R

\* The first m entries are the same.
SameUpTo(v, ws, m) == \A i \in 1..m : v[i] = ws[i]

\* They lie at the same places.
LEMMA SameTiles ==
    ASSUME NEW b, NEW ws, NEW v, NEW m \in Nat, Tiled(b, ws, m), SameUpTo(v, ws, m)
    PROVE  Tiled(b, v, m) /\ \A i \in 0..m : EndAt(v, i) = EndAt(ws, i)
<1>0. \A i \in 1..m : v[i] = ws[i]
  BY DEF SameUpTo
<1>1. \A i \in 0..m : EndAt(v, i) = EndAt(ws, i)
  <2> TAKE i \in 0..m
  <2>1. i = 0 \/ i \in 1..m
    OBVIOUS
  <2> QED BY <1>0, <2>1 DEF EndAt
<1>2. ASSUME NEW i \in 1..m PROVE Tile(b, v, i)
  <2>1. v[i] = ws[i] /\ i - 1 \in 0..m
    BY <1>0
  <2>2. EndAt(v, i - 1) = EndAt(ws, i - 1)
    BY <1>1, <2>1
  <2>3. Tile(b, ws, i)
    BY DEF Tiled
  <2> QED BY <2>1, <2>2, <2>3 DEF Tile
<1> QED BY <1>1, <1>2 DEF Tiled

-----------------------------------------------------------------------------
\* Logs that grow by an entry, and logs that are cut.

\* An entry is appended whole.
LEMMA LogGrows ==
    ASSUME NEW b, NEW ws, NEW T, IsLog(b, ws, T), LogOk(b, ws, T),
           NEW e \in AllEntries, NEW x, Extended(x, b, frame(e)),
           NEW v, OneMore(v, ws, e, Len(x))
    PROVE  IsLog(x, v, T) /\ LogOk(x, v, T) /\ Len(x) >= Len(b)
<1> DEFINE l == Len(b)
           n == Len(x)
           f == Min({l} \cup T)
           h == frame(e)
           w == Len(h)
           k == Len(ws)
<1>1. b \in Seq(Byte) /\ ws \in Wholes /\ T \in SUBSET Nat /\ (\A t \in T : t < l) /\ l \in Nat
  BY DEF IsLog
<1>2. h \in Seq(Byte) /\ w \in Nat /\ w >= 8
  <2>1. h \in Seq(Byte) /\ w = 8 + Len(encode(e)) /\ Len(encode(e)) \in 1..47
    BY FrameBytes
  <2> DEFINE d == Len(encode(e))
  <2>2. w = 8 + d /\ d \in 1..47
    BY <2>1
  <2> HIDE DEF d, w
  <2>3. w \in Nat /\ w >= 8
    BY <2>2
  <2> QED BY <2>1, <2>3
<1>3. x \in Seq(Byte) /\ n = l + w /\ (\A i \in 1..l : x[i] = b[i]) /\ HasAt(x, l, h)
  <2> HIDE DEF h
  <2>1. Extended(x, b, h)
    BY DEF h
  <2> QED BY <1>1, <1>2, <2>1, Longer
<1> HIDE DEF n, l, h, w
<1>4. n \in Nat /\ l < n /\ l <= n
  BY <1>1, <1>2, <1>3
<1>5. /\ v \in Wholes /\ Len(v) = k + 1 /\ \A i \in 1..k : v[i] = ws[i]
      /\ v[k + 1].entry = e /\ v[k + 1].end = n
  <2>1. OneMore(v, ws, e, n)
    BY DEF n
  <2> QED BY <1>1, <1>4, <2>1, AppendWhole
<1>6. k \in Nat
  BY <1>1 DEF Wholes
<1>7. Ordered(ws) /\ (\A i \in 1..k : ws[i].end <= l)
  BY DEF LogOk, l
<1>8. PICK m \in 0..k : Past(b, ws, f, m)
  BY DEF LogOk, l
<1>9. IsLog(x, v, T)
  <2>1. \A t \in T : t < n
    BY <1>1, <1>4
  <2> QED BY <1>1, <1>3, <1>5, <2>1 DEF IsLog, n
<1> HIDE DEF k
<1>10. \A i \in 1..k : ws[i].end \in Nat
  BY <1>1, WholeFields DEF k
<1>11. \A i \in 1..Len(v) : i \in 1..k \/ i = k + 1
  BY <1>5, <1>6
<1>12. \A i \in 1..Len(v) : v[i].end <= n
  <2> TAKE i \in 1..Len(v)
  <2>1. CASE i \in 1..k
    <3>1. v[i].end = ws[i].end /\ ws[i].end \in Nat /\ ws[i].end <= l
      BY <1>5, <1>7, <1>10, <2>1
    <3> QED BY <1>1, <1>4, <3>1
  <2>2. CASE i = k + 1
    BY <1>4, <1>5, <2>2
  <2> QED BY <1>11, <2>1, <2>2
<1>13. Ordered(v)
  <2> SUFFICES ASSUME NEW i \in 1..Len(v), NEW j \in 1..Len(v), i <= j
               PROVE  v[i].end <= v[j].end
    BY DEF Ordered
  <2>1. CASE j = k + 1
    BY <1>5, <1>12, <2>1
  <2>2. CASE j \in 1..k
    <3>1. i \in 1..k
      BY <1>5, <1>6, <2>2
    <3>2. ws[i].end <= ws[j].end
      BY <1>7, <2>2, <3>1 DEF Ordered, k
    <3> QED BY <1>5, <2>2, <3>1, <3>2
  <2> QED BY <1>11, <2>1, <2>2
<1>14. Tiled(x, ws, m)
  <2>1. \A i \in 1..m : i \in 1..k
    BY <1>6
  <2>2. \A i \in 1..m : ws[i].end <= l
    BY <1>7, <2>1
  <2>3. Tiled(b, ws, m) /\ l <= Len(x)
    BY <1>4, <1>8 DEF Past, n
  <2> QED BY <1>1, <1>3, <2>2, <2>3, TiledPart DEF k
<1>15. m \in Nat /\ Tiled(x, v, m) /\ \A i \in 0..m : EndAt(v, i) = EndAt(ws, i)
  <2>1. m \in Nat /\ \A i \in 1..m : i \in 1..k
    BY <1>6
  <2>2. SameUpTo(v, ws, m)
    BY <1>5, <2>1 DEF SameUpTo
  <2> QED BY <1>14, <2>1, <2>2, SameTiles
<1>16. f \in Nat /\ f <= l /\ EndAt(ws, m) = f /\ \A i \in (m + 1)..k : ws[i].end > f
  BY <1>1, <1>8, FirstOf DEF Past, k
<1>17. CASE T # {}
  <2>1. Min({n} \cup T) = f
    <3>1. LaterTears(T, T, l)
      BY <1>17 DEF LaterTears
    <3> QED BY <1>1, <1>4, <3>1, SameFirst
  <2>2. m \in 0..Len(v) /\ EndAt(v, m) = f
    <3>1. m \in 0..Len(v) /\ m \in 0..m
      BY <1>5, <1>6
    <3> QED BY <1>15, <1>16, <3>1
  <2>3. \A i \in (m + 1)..Len(v) : v[i].end > f
    <3> TAKE i \in (m + 1)..Len(v)
    <3>1. i \in (m + 1)..k \/ i = k + 1
      BY <1>5, <1>6
    <3>2. \A j \in (m + 1)..k : j \in 1..k
      BY <1>6
    <3> HIDE DEF f
    <3>3. n > f
      BY <1>1, <1>4, <1>16
    <3> QED BY <1>5, <1>16, <3>1, <3>2, <3>3
  <2> HIDE DEF f
  <2>4. Past(x, v, f, m)
    BY <1>15, <2>2, <2>3 DEF Past
  <2>5. LogOk(x, v, T)
    BY <1>12, <1>13, <2>1, <2>2, <2>4 DEF LogOk, n
  <2> QED BY <1>4, <1>9, <2>5 DEF n, l
<1>18. CASE T = {}
  <2>1. f = l
    <3>1. f \in {l} \cup T
      BY <1>1, FirstOf
    <3> HIDE DEF f
    <3> QED BY <1>18, <3>1
  <2>2. Min({n} \cup T) = n
    <3>1. n \in {n} \cup T /\ \A t \in {n} \cup T : n <= t
      BY <1>4, <1>18
    <3> QED BY <1>1, <1>4, <3>1, FirstIs
  <2> HIDE DEF f
  <2>3. m = k
    <3>1. m # k => k \in (m + 1)..k /\ k \in 1..k
      BY <1>6
    <3>2. m # k => ws[k].end > l /\ ws[k].end <= l /\ ws[k].end \in Nat
      BY <1>7, <1>10, <1>16, <2>1, <3>1
    <3> QED BY <1>1, <3>2
  <2> DEFINE i == k + 1
  <2>4. i \in Nat /\ i # 0 /\ i - 1 = k /\ i \in 0..Len(v) /\ k \in 0..m /\ Len(v) = i
    BY <1>5, <1>6, <2>3
  <2>5. v[i].entry = e /\ v[i].end = n
    BY <1>5
  <2> HIDE DEF i
  <2>6. EndAt(v, i - 1) = l /\ EndAt(v, i) = n
    BY <1>15, <1>16, <2>1, <2>3, <2>4, <2>5 DEF EndAt
  <2>7. Tile(x, v, i)
    BY <1>3, <2>5, <2>6 DEF Tile, h, w
  <2>8. Tiled(x, v, i)
    <3>1. \A j \in 1..i : j \in 1..m \/ j = i
      BY <1>6, <2>3, <2>4
    <3> QED BY <1>15, <2>7, <3>1 DEF Tiled
  <2>9. \A j \in (i + 1)..Len(v) : v[j].end > n
    BY <2>4
  <2>10. Past(x, v, n, i)
    BY <2>6, <2>8, <2>9 DEF Past
  <2>11. LogOk(x, v, T)
    BY <1>12, <1>13, <2>2, <2>4, <2>10 DEF LogOk, n
  <2> QED BY <1>4, <1>9, <2>11 DEF n, l
<1> QED BY <1>17, <1>18

\* The first k entries are left when the log is cut to c bytes.
CutTo(b, ws, T, c, k) ==
    /\ \A i \in 1..k : ws[i].end <= c
    /\ \A i \in (k + 1)..Len(ws) : ws[i].end > c
    /\ \E m \in 0..k : Past(SubSeq(b, 1, c), ws, Min({c} \cup {t \in T : t < c}), m)

\* The log is cut at c, behind the last COMMIT that parse_buffer has met.
CommittedEnd(b, n, c) == c = parse_buffer(SubSeq(b, 1, n)).committed_end

\* What recovery leaves is again a log whose beginning is made of frames.
LEMMA LogCut ==
    ASSUME NEW b, NEW ws, NEW T, IsLog(b, ws, T), LogOk(b, ws, T), NEW n \in 0..Len(b),
           NEW c, CommittedEnd(b, n, c)
    PROVE  c \in 0..n /\ \E k \in 0..Len(ws) : CutTo(b, ws, T, c, k)
<1> DEFINE l == Len(b)
           f == Min({l} \cup T)
           U == {t \in T : t < c}
           a == SubSeq(b, 1, n)
           x == SubSeq(b, 1, c)
           r == parse_buffer(a)
<1>1. b \in Seq(Byte) /\ ws \in Wholes /\ T \in SUBSET Nat /\ (\A t \in T : t < l) /\ l \in Nat
      /\ Len(ws) \in Nat /\ n \in Nat
  BY DEF IsLog, Wholes
<1>2. a \in Seq(Byte) /\ Len(a) = n /\ \A i \in 1..n : a[i] = b[i]
  BY <1>1, PrefixOf
<1>3. c \in 0..n /\ c \in Nat /\ c \in 0..l
  <2>1. r.committed_end \in 0..Len(a)
    <3> HIDE DEF a
    <3> QED BY <1>2, ParseTwice
  <2>2. c = r.committed_end
    BY DEF CommittedEnd
  <2> HIDE DEF r, a
  <2>3. c \in 0..n
    BY <1>2, <2>1, <2>2
  <2> QED BY <1>1, <2>3
<1>4. x \in Seq(Byte) /\ Len(x) = c /\ \A i \in 1..c : x[i] = b[i]
  BY <1>1, <1>3, PrefixOf
<1>5. Ordered(ws) /\ (\A i \in 1..Len(ws) : ws[i].end <= l)
  BY DEF LogOk
<1>6. PICK m \in 0..Len(ws) : Past(b, ws, f, m)
  BY DEF LogOk
<1>7. /\ f \in {l} \cup T /\ f \in Nat /\ f <= l /\ \A t \in T : f <= t
  BY <1>1, FirstOf
<1> HIDE DEF f
<1>8. /\ Tiled(b, ws, m) /\ EndAt(ws, m) = f /\ \A i \in (m + 1)..Len(ws) : ws[i].end > f
  BY <1>6 DEF Past
<1>9. \A i \in 1..Len(ws) : ws[i].end \in Nat /\ EndAt(ws, i) = ws[i].end
  <2> TAKE i \in 1..Len(ws)
  <2>1. i # 0
    BY <1>1
  <2> QED BY <1>1, <2>1, WholeFields DEF EndAt
<1>10. U \in SUBSET Nat
  BY <1>1
<1>11. CASE c > f
  <2>1. f \in U
    BY <1>1, <1>3, <1>7, <1>11
  <2>2. Min({c} \cup U) = f
    <3>1. \A t \in {c} \cup U : f <= t
      BY <1>3, <1>7, <1>11
    <3> HIDE DEF U
    <3> QED BY <1>3, <1>10, <2>1, <3>1, FirstIs
  <2> HIDE DEF U
  <2>3. \A i \in 1..m : ws[i].end <= c
    <3> TAKE i \in 1..m
    <3>1. i \in 1..Len(ws) /\ m \in 1..Len(ws) /\ i <= m
      BY <1>1
    <3> DEFINE y == ws[i].end
               z == ws[m].end
    <3>2. y \in Nat /\ z = f /\ y <= z
      BY <1>5, <1>8, <1>9, <3>1 DEF Ordered
    <3> HIDE DEF y, z
    <3>3. y <= c
      BY <1>3, <1>7, <1>11, <3>2
    <3> QED BY <3>3 DEF y
  <2>4. Tiled(x, ws, m)
    <3> HIDE DEF x
    <3>1. c <= Len(x)
      BY <1>3, <1>4
    <3> QED BY <1>1, <1>3, <1>4, <1>8, <2>3, <3>1, TiledPart
  <2>5. Past(x, ws, f, m)
    BY <1>8, <2>4 DEF Past
  <2> DEFINE S == {i \in 0..Len(ws) : EndAt(ws, i) <= c}
             k == Max(S)
  <2>6. 0 \in S /\ S \in SUBSET Nat /\ \A i \in S : i <= Len(ws)
    BY <1>1, <1>3 DEF EndAt
  <2>7. k \in S /\ \A i \in S : k >= i
    <3> HIDE DEF S
    <3> QED BY <1>1, <2>6, MaxOfBounded
  <2>8. m \in S
    BY <1>3, <1>7, <1>8, <1>11
  <2>9. k \in 0..Len(ws) /\ EndAt(ws, k) <= c /\ k >= m
    <3>1. k >= m
      BY <2>7, <2>8
    <3> HIDE DEF k
    <3> QED BY <2>7, <3>1
  <2>10. \A i \in 0..Len(ws) : EndAt(ws, i) <= c => k >= i
    <3> HIDE DEF k
    <3> QED BY <2>7
  <2> HIDE DEF k, S
  <2>11. \A i \in 1..k : ws[i].end <= c
    <3> TAKE i \in 1..k
    <3>1. i \in 1..Len(ws) /\ k \in 1..Len(ws) /\ i <= k
      BY <1>1, <2>9
    <3> DEFINE y == ws[i].end
               z == ws[k].end
    <3>2. y \in Nat /\ z \in Nat /\ z <= c /\ y <= z
      BY <1>5, <1>9, <2>9, <3>1 DEF Ordered
    <3> HIDE DEF y, z
    <3>3. y <= c
      BY <1>3, <3>2
    <3> QED BY <3>3 DEF y
  <2>12. \A i \in (k + 1)..Len(ws) : ws[i].end > c
    <3> TAKE i \in (k + 1)..Len(ws)
    <3>1. i \in 1..Len(ws) /\ i \in 0..Len(ws) /\ ~(k >= i)
      BY <1>1, <2>9
    <3>2. ws[i].end \in Nat /\ ~(ws[i].end <= c)
      BY <1>9, <2>10, <3>1
    <3> QED BY <1>3, <3>2
  <2>13. m \in 0..k
    BY <1>1, <2>9
  <2> QED BY <1>3, <2>2, <2>5, <2>9, <2>11, <2>12, <2>13 DEF U, CutTo
<1>12. CASE ~(c > f)
  <2>0. c <= f
    BY <1>3, <1>7, <1>12
  <2>1. U = {}
    <3> SUFFICES ASSUME NEW t \in U PROVE FALSE
      OBVIOUS
    <3>1. t \in Nat /\ t < c /\ f <= t
      BY <1>1, <1>7
    <3> QED BY <1>3, <1>7, <2>0, <3>1
  <2>2. Min({c} \cup U) = c
    <3>1. c \in {c} \cup U /\ \A t \in {c} \cup U : c <= t
      BY <1>3, <2>1
    <3> QED BY <1>3, <1>10, <3>1, FirstIs
  <2> HIDE DEF U
  <2>3. PICK k \in 0..m : c = EndAt(ws, k)
    <3>1. CASE n <= f
      <4>1. n <= EndAt(ws, m)
        BY <1>8, <3>1
      <4>2. PICK j \in 0..m : ParsedAs(r, ws, j)
        <5> HIDE DEF f, l
        <5> QED BY <1>1, <1>5, <1>8, <4>1, ParseCut
      <4>3. r.committed_count \in 0..j /\ c = EndAt(ws, r.committed_count)
        BY <4>2 DEF IsLastCommit, CommittedEnd, ParsedAs
      <4>4. r.committed_count \in 0..m
        BY <1>1, <4>3
      <4> QED BY <4>3, <4>4
    <3>2. CASE ~(n <= f)
      <4>1. \A i \in 1..m : ws[i].end <= n
        <5> TAKE i \in 1..m
        <5>1. i \in 1..Len(ws) /\ m \in 1..Len(ws) /\ i <= m
          BY <1>1
        <5> DEFINE y == ws[i].end
                   z == ws[m].end
        <5>2. y \in Nat /\ z = f /\ y <= z
          BY <1>5, <1>8, <1>9, <5>1 DEF Ordered
        <5> HIDE DEF y, z
        <5>3. y <= n
          BY <1>1, <1>7, <3>2, <5>2
        <5> QED BY <5>3 DEF y
      <4> HIDE DEF a
      <4>2. Tiled(a, ws, m)
        <5>1. n <= Len(a)
          BY <1>1, <1>2
        <5> QED BY <1>1, <1>2, <1>8, <4>1, <5>1, TiledPart
      <4>3. c = r.committed_end
        BY DEF a, CommittedEnd
      <4>4. r.committed_end <= EndAt(ws, m)
        BY <1>8, <2>0, <4>3
      <4>5. \E j \in 0..m : r.committed_end = EndAt(ws, j)
        BY <1>1, <1>2, <4>2, <4>4, ParsePast
      <4> QED BY <4>3, <4>5
    <3> QED BY <3>1, <3>2
  <2>4. k \in 0..Len(ws) /\ k \in 0..k /\ k \in Nat
    BY <1>1
  <2>5. \A i \in 1..k : ws[i].end <= c
    <3> TAKE i \in 1..k
    <3>1. i \in 1..Len(ws) /\ k \in 1..Len(ws) /\ i <= k
      BY <1>1
    <3> QED BY <1>5, <1>9, <2>3, <3>1 DEF Ordered
  <2>6. \A i \in (k + 1)..Len(ws) : ws[i].end > c
    <3> TAKE i \in (k + 1)..Len(ws)
    <3>0. i \in 1..Len(ws)
      BY <1>1, <2>4
    <3>1. CASE k = m
      <4>1. ws[i].end > f /\ ws[i].end \in Nat
        BY <1>8, <1>9, <3>0, <3>1
      <4> QED BY <1>3, <1>7, <2>0, <4>1
    <3>2. CASE k # m
      <4> DEFINE j == k + 1
                 y == ws[i].end
                 z == ws[j].end
      <4>1. j \in 1..Len(ws) /\ j \in 1..m /\ j - 1 = k /\ j <= i
        BY <1>1, <2>4, <3>2
      <4>2. Tile(b, ws, j)
        BY <1>8, <4>1 DEF Tiled
      <4>3. z > EndAt(ws, j - 1)
        BY <1>1, <4>1, <4>2, TileGrows
      <4>4. z > c /\ z <= y /\ y \in Nat /\ z \in Nat
        BY <1>5, <1>9, <2>3, <3>0, <4>1, <4>3 DEF Ordered
      <4> HIDE DEF y, z
      <4>5. y > c
        BY <1>3, <4>4
      <4> QED BY <4>5 DEF y
    <3> QED BY <3>1, <3>2
  <2>7. Tiled(x, ws, k)
    <3> HIDE DEF x
    <3>1. c <= Len(x)
      BY <1>3, <1>4
    <3>2. Tiled(b, ws, k)
      <4>1. \A i \in 1..k : i \in 1..m
        BY <1>1
      <4> QED BY <1>8, <4>1 DEF Tiled
    <3> QED BY <1>1, <1>3, <1>4, <2>4, <2>5, <3>1, <3>2, TiledPart
  <2>8. Past(x, ws, c, k)
    BY <2>3, <2>6, <2>7 DEF Past
  <2> HIDE DEF x
  <2> QED BY <1>3, <2>2, <2>4, <2>5, <2>6, <2>8 DEF U, x, CutTo
<1> QED BY <1>11, <1>12

-----------------------------------------------------------------------------
\* The inductive invariant.

\* The inductive invariant: up to the first tear the file is the frames of the
\* entries written whole, one behind the other, and the others end behind it.
FramesInv ==
    /\ IsLog(file, whole, tears)
    /\ LogOk(file, whole, tears)
    /\ synced \in 0..Len(file)
    /\ sequence \in Byte
    /\ pc \in {"idle", "commit"}
    /\ pc = "commit" => sequence # 0

\* append writes entries that the encoding can hold.
LEMMA EntriesAreAll ==
    ASSUME sequence \in Byte, sequence < MaxSequence, NEW e \in Entries
    PROVE  e \in AllEntries /\ sequence + 1 \in Byte /\ sequence + 1 # 0
<1>1. MaxSequence \in 0..(ByteLimit - 1)
  BY BytesAssumption
<1>2. sequence \in 0..47 /\ MaxSequence \in 0..47
  BY <1>1, BytesAre
<1>3. sequence + 1 \in 1..47 /\ sequence + 1 \in 0..47
  BY <1>2
<1>4. sequence + 1 \in 1..(ByteLimit - 1) /\ sequence + 1 \in Byte /\ sequence + 1 # 0
  <2>1. ByteLimit - 1 = 47
    BY BytesAre
  <2> QED BY <1>3, <2>1, BytesAre
<1> DEFINE n == sequence + 1
<1>5. n \in 1..(ByteLimit - 1)
  BY <1>4
<1>6. \/ e \in {put_entry(k, v, n) : k \in Keys, v \in Values}
      \/ e \in {delete_entry(k, n) : k \in Keys}
  BY DEF Entries
<1> HIDE DEF n
<1>7. e \in AllEntries
  BY <1>5, <1>6 DEF AllEntries
<1> QED BY <1>4, <1>7

\* write_commit writes entries that the encoding can hold.
LEMMA CommitsAreAll ==
    ASSUME sequence \in Byte, sequence # 0
    PROVE  commit_entry(sequence) \in AllEntries
<1>1. sequence \in 1..(ByteLimit - 1)
  BY BytesAre
<1> QED BY <1>1 DEF AllEntries

\* The invariant holds of an empty log.
LEMMA FramesInit == Init => FramesInv
<1> SUFFICES ASSUME Init PROVE FramesInv
  OBVIOUS
<1>1. file = << >> /\ synced = 0 /\ sequence = 0 /\ pc = "idle" /\ whole = << >> /\ tears = {}
  BY DEF Init
<1>2. << >> \in Seq(Byte) /\ Len(<< >>) = 0
  OBVIOUS
<1>3. whole \in Wholes
  BY <1>1 DEF Wholes
<1>4. Len(file) = 0 /\ Len(whole) = 0 /\ file \in Seq(Byte)
  BY <1>1, <1>2
<1>5. IsLog(file, whole, tears)
  BY <1>1, <1>3, <1>4 DEF IsLog
<1>6. LogOk(file, whole, tears)
  <2> DEFINE l == 0
             T == {}
  <2>1. l \in Nat /\ T \in SUBSET Nat /\ l \in {l} \cup T /\ \A t \in {l} \cup T : l <= t
    OBVIOUS
  <2>2. Min({l} \cup T) = l
    <3> HIDE DEF l, T
    <3> QED BY <2>1, FirstIs
  <2>3. Min({Len(file)} \cup tears) = 0
    BY <1>1, <1>4, <2>2
  <2>4. Past(file, whole, 0, 0) /\ 0 \in 0..Len(whole)
    BY <1>4 DEF Past, Tiled, EndAt
  <2>5. Ordered(whole) /\ \A i \in 1..Len(whole) : whole[i].end <= Len(file)
    BY <1>4 DEF Ordered
  <2> QED BY <2>3, <2>4, <2>5 DEF LogOk
<1>7. synced \in 0..Len(file) /\ sequence \in Byte
  BY <1>1, <1>4, BytesAre
<1> QED BY <1>1, <1>5, <1>6, <1>7 DEF FramesInv

\* It is kept when an entry is appended whole,
LEMMA WrittenStep ==
    ASSUME FramesInv, NEW e \in AllEntries, Written(e), tears' = tears
    PROVE  /\ IsLog(file, whole, tears)' /\ LogOk(file, whole, tears)'
           /\ Len(file') \in Nat /\ Len(file') >= Len(file)
<1>1. Extended(file', file, frame(e)) /\ OneMore(whole', whole, e, Len(file'))
  BY DEF Written, Extended, OneMore
<1>2. IsLog(file, whole, tears) /\ LogOk(file, whole, tears)
  BY DEF FramesInv
<1>3. IsLog(file', whole', tears) /\ LogOk(file', whole', tears) /\ Len(file') >= Len(file)
  BY <1>1, <1>2, LogGrows
<1>4. Len(file') \in Nat
  BY <1>3 DEF IsLog
<1> QED BY <1>3, <1>4

\* when write_all fails after some bytes,
LEMMA FailsStep ==
    ASSUME FramesInv, NEW e \in AllEntries, Fails(e)
    PROVE  /\ IsLog(file, whole, tears)' /\ LogOk(file, whole, tears)'
           /\ synced' \in 0..Len(file') /\ pc' = "idle"
<1>1. PICK n \in 1..(Len(frame(e)) - 1) : file' = file \o SubSeq(frame(e), 1, n)
  BY DEF Fails
<1>2. /\ tears' = tears \cup {Len(file)} /\ pc' = "idle" /\ synced' = synced /\ whole' = whole
  BY DEF Fails
<1>3. /\ IsLog(file, whole, tears) /\ LogOk(file, whole, tears) /\ synced \in 0..Len(file)
  BY DEF FramesInv
<1> DEFINE h == frame(e)
           y == SubSeq(h, 1, n)
<1>4. h \in Seq(Byte)
  BY FrameBytes
<1> HIDE DEF h
<1>5. y \in Seq(Byte) /\ Len(y) = n /\ n \in Nat /\ n >= 1
  <2>1. n \in 0..Len(h) /\ n \in Nat /\ n >= 1
    <3>1. Len(h) \in Nat /\ n \in 1..(Len(h) - 1)
      BY <1>1, <1>4 DEF h
    <3> QED BY <3>1
  <2> QED BY <1>4, <2>1, PrefixOf
<1>6. Extended(file', file, y)
  BY <1>1 DEF Extended, h
<1> HIDE DEF y
<1>7. Len(y) >= 1
  BY <1>5
<1>8. IsLog(file', whole, tears \cup {Len(file)}) /\ LogOk(file', whole, tears \cup {Len(file)})
  BY <1>3, <1>5, <1>6, <1>7, LogTears
<1>9. file \in Seq(Byte)
  BY <1>3 DEF IsLog
<1>10. Len(file') = Len(file) + Len(y)
  BY <1>5, <1>6, <1>9, Longer
<1>11. synced' \in 0..Len(file')
  <2>1. Len(file) \in Nat
    BY <1>9
  <2> QED BY <1>2, <1>3, <1>5, <1>10, <2>1
<1> QED BY <1>2, <1>8, <1>11

\* and when the table is opened again.
LEMMA ReopenStep ==
    ASSUME FramesInv, reopen
    PROVE  FramesInv'
<1>1. IsLog(file, whole, tears) /\ LogOk(file, whole, tears) /\ synced \in 0..Len(file)
  BY DEF FramesInv
<1>2. file \in Seq(Byte) /\ whole \in Wholes /\ tears \in SUBSET Nat
      /\ Len(file) \in Nat /\ Len(whole) \in Nat
  BY <1>1 DEF IsLog, Wholes
<1>3. PICK n \in synced..Len(file) :
          LET r == parse_buffer(SubSeq(file, 1, n))
              committed == SubSeq(r.entries, 1, r.committed_count)
          IN  /\ file' = SubSeq(file, 1, r.committed_end)
              /\ sequence' = Max({0} \cup {e.sequence : e \in ToSet(committed)})
  BY DEF reopen
<1> DEFINE a == SubSeq(file, 1, n)
           r == parse_buffer(a)
           c == r.committed_end
           x == SubSeq(file, 1, c)
           es == SubSeq(r.entries, 1, r.committed_count)
           U == {t \in tears : t < c}
<1>4. n \in 0..Len(file)
  BY <1>1, <1>2
<1>5. a \in Seq(Byte)
  BY <1>2, <1>4, PrefixOf
<1>6. r \in ParseStates /\ r.committed_count \in 0..Len(r.entries)
  <2> HIDE DEF a
  <2> QED BY <1>5, ParseTwice
<1>7. PICK k \in 0..Len(whole) :
          /\ c \in 0..n
          /\ \A i \in 1..k : whole[i].end <= c
          /\ \A i \in (k + 1)..Len(whole) : whole[i].end > c
          /\ \E m \in 0..k : Past(x, whole, Min({c} \cup U), m)
  <2> DEFINE cc == c
  <2>1. CommittedEnd(file, n, cc)
    BY DEF CommittedEnd
  <2> HIDE DEF cc
  <2>2. cc \in 0..n /\ \E k \in 0..Len(whole) : CutTo(file, whole, tears, cc, k)
    BY <1>1, <1>4, <2>1, LogCut
  <2> QED BY <2>2, Zenon DEF cc, CutTo
<1>8. file' = x /\ sequence' = Max({0} \cup {e.sequence : e \in ToSet(es)})
  BY <1>3
<1> HIDE DEF a, r
<1>9. r.entries \in Seq(Records)
  BY <1>6, StateFields
<1> HIDE DEF c
<1>10. c \in 0..Len(file) /\ c \in Nat
  BY <1>2, <1>4, <1>7
<1>11. x \in Seq(Byte) /\ Len(x) = c
  BY <1>2, <1>10, PrefixOf
<1> HIDE DEF x
<1>12. Len(file') = c /\ file' \in Seq(Byte)
  BY <1>8, <1>11
<1> DEFINE ws == SubSeq(whole, 1, k)
<1>13. whole' = ws
  <2>1. whole' = WholeUpTo(c)
    BY <1>12 DEF reopen
  <2>2. WholeUpTo(c) = SubSeq(whole, 1, k)
    BY <1>2, <1>7, <1>10, WholeUpToIs
  <2> QED BY <2>1, <2>2
<1>14. ws \in Wholes /\ Len(ws) = k /\ (\A i \in 1..k : ws[i] = whole[i]) /\ k \in Nat
  <2> DEFINE R == [entry : AllEntries, end : Nat]
  <2>1. whole \in Seq(R)
    BY <1>2 DEF Wholes
  <2> HIDE DEF R
  <2>2. SubSeq(whole, 1, k) \in Seq(R) /\ Len(ws) = k /\ (\A i \in 1..k : ws[i] = whole[i])
    BY <2>1, PrefixOf
  <2> QED BY <1>2, <2>2 DEF Wholes, R
<1> HIDE DEF ws
<1>15. tears' = U /\ pc' = "idle" /\ synced' = Len(file')
  BY <1>12 DEF reopen
<1>16. U \in SUBSET Nat /\ \A t \in U : t < c
  BY <1>2
<1> HIDE DEF U
<1>17. IsLog(file', whole', tears')
  BY <1>12, <1>13, <1>14, <1>15, <1>16 DEF IsLog
<1>18. LogOk(file', whole', tears')
  <2>1. PICK m \in 0..k : Past(x, whole, Min({c} \cup U), m)
    BY <1>7
  <2> DEFINE f == Min({c} \cup U)
  <2>2. /\ Tiled(x, whole, m) /\ EndAt(whole, m) = f
        /\ \A i \in (m + 1)..Len(whole) : whole[i].end > f
    BY <2>1 DEF Past
  <2>3. /\ m \in Nat /\ m \in 0..m /\ \A i \in 1..m : i \in 1..k
        /\ \A i \in (m + 1)..k : i \in 1..k /\ i \in (m + 1)..Len(whole)
    BY <1>2, <1>14
  <2>4. SameUpTo(ws, whole, m)
    BY <1>14, <2>3 DEF SameUpTo
  <2>5. Tiled(x, ws, m) /\ \A i \in 0..m : EndAt(ws, i) = EndAt(whole, i)
    BY <2>2, <2>3, <2>4, SameTiles
  <2> HIDE DEF f
  <2>6. Past(x, ws, f, m)
    <3>1. EndAt(ws, m) = f
      BY <2>2, <2>3, <2>5
    <3>2. \A i \in (m + 1)..Len(ws) : ws[i].end > f
      BY <1>14, <2>2, <2>3
    <3> QED BY <2>5, <3>1, <3>2 DEF Past
  <2>7. Ordered(whole)
    BY <1>1 DEF LogOk
  <2>8. Ordered(ws)
    <3> SUFFICES ASSUME NEW i \in 1..Len(ws), NEW j \in 1..Len(ws), i <= j
                 PROVE  ws[i].end <= ws[j].end
      BY DEF Ordered
    <3>1. i \in 1..k /\ j \in 1..k /\ i \in 1..Len(whole) /\ j \in 1..Len(whole)
      BY <1>2, <1>14
    <3>2. whole[i].end <= whole[j].end
      BY <2>7, <3>1 DEF Ordered
    <3> QED BY <1>14, <3>1, <3>2
  <2>9. \A i \in 1..Len(ws) : ws[i].end <= c
    BY <1>7, <1>14
  <2>10. LogOk(x, ws, U)
    BY <1>11, <1>14, <2>6, <2>8, <2>9 DEF LogOk, f
  <2> QED BY <1>8, <1>13, <1>15, <2>10
<1>19. sequence' \in Byte
  <2>1. es \in Seq(Records)
    BY <1>6, <1>9, PrefixOf
  <2> HIDE DEF es
  <2> DEFINE S == {0} \cup {e.sequence : e \in ToSet(es)}
  <2>2. \A e \in ToSet(es) : e \in Records
    <3>1. DOMAIN es = 1..Len(es) /\ \A i \in 1..Len(es) : es[i] \in Records
      BY <2>1
    <3> QED BY <3>1 DEF ToSet
  <2>3. \A e \in ToSet(es) : e.sequence \in Byte
    BY <2>2, SequenceOfRecord
  <2>4. 0 \in Byte /\ \A s \in Byte : s \in Nat /\ s <= 47
    BY BytesAre
  <2>5. \A s \in S : s \in Byte
    BY <2>3, <2>4
  <2>6. 0 \in S
    OBVIOUS
  <2> HIDE DEF S
  <2>7. S \in SUBSET Nat /\ S # {} /\ 47 \in Nat /\ \A s \in S : s <= 47
    BY <2>4, <2>5, <2>6
  <2>8. Max(S) \in S
    <3> DEFINE z == 47
    <3>1. z \in Nat /\ \A s \in S : s <= z
      BY <2>7
    <3> HIDE DEF z
    <3> QED BY <2>7, <3>1, MaxOfBounded
  <2> QED BY <1>8, <2>5, <2>8 DEF S
<1>20. synced' \in 0..Len(file')
  BY <1>10, <1>12, <1>15
<1> QED BY <1>15, <1>17, <1>18, <1>19, <1>20 DEF FramesInv

\* Every step keeps it.
LEMMA FramesStep == FramesInv /\ [Next]_vars => FramesInv'
<1> SUFFICES ASSUME FramesInv, [Next]_vars PROVE FramesInv'
  OBVIOUS
<1>1. /\ IsLog(file, whole, tears) /\ LogOk(file, whole, tears) /\ synced \in 0..Len(file)
      /\ sequence \in Byte /\ (pc = "commit" => sequence # 0) /\ Len(file) \in Nat
  BY DEF FramesInv, IsLog
<1>2. CASE append
  <2>1. /\ sequence < MaxSequence /\ sequence' = sequence + 1 /\ pc' = "commit"
        /\ synced' = synced /\ tears' = tears
    BY <1>2 DEF append
  <2>2. PICK e \in Entries : Written(e)
    BY <1>2 DEF append
  <2>3. e \in AllEntries /\ sequence' \in Byte /\ sequence' # 0
    BY <1>1, <2>1, EntriesAreAll
  <2>4. /\ IsLog(file', whole', tears') /\ LogOk(file', whole', tears')
        /\ Len(file') \in Nat /\ Len(file') >= Len(file)
    BY <2>1, <2>2, <2>3, WrittenStep
  <2>5. synced' \in 0..Len(file')
    BY <1>1, <2>1, <2>4
  <2> QED BY <2>1, <2>3, <2>4, <2>5 DEF FramesInv
<1>3. CASE append_fails
  <2>1. sequence < MaxSequence /\ sequence' = sequence + 1
    BY <1>3 DEF append_fails
  <2>2. PICK e \in Entries : Fails(e)
    BY <1>3 DEF append_fails
  <2>3. e \in AllEntries /\ sequence' \in Byte
    BY <1>1, <2>1, EntriesAreAll
  <2>4. /\ IsLog(file', whole', tears') /\ LogOk(file', whole', tears')
        /\ synced' \in 0..Len(file') /\ pc' = "idle"
    BY <2>2, <2>3, FailsStep
  <2> QED BY <2>3, <2>4 DEF FramesInv
<1>4. CASE write_commit
  <2>1. /\ pc = "commit" /\ Written(commit_entry(sequence)) /\ sequence' = sequence
        /\ pc' = "idle" /\ synced' = Len(file') /\ tears' = tears
    BY <1>4 DEF write_commit
  <2>2. commit_entry(sequence) \in AllEntries
    BY <1>1, <2>1, CommitsAreAll
  <2>3. /\ IsLog(file', whole', tears') /\ LogOk(file', whole', tears') /\ Len(file') \in Nat
    BY <2>1, <2>2, WrittenStep
  <2>4. synced' \in 0..Len(file')
    BY <2>1, <2>3
  <2> QED BY <1>1, <2>1, <2>3, <2>4 DEF FramesInv
<1>5. CASE write_commit_fails
  <2>1. pc = "commit" /\ Fails(commit_entry(sequence)) /\ sequence' = sequence
    BY <1>5 DEF write_commit_fails
  <2>2. commit_entry(sequence) \in AllEntries
    BY <1>1, <2>1, CommitsAreAll
  <2>3. /\ IsLog(file', whole', tears') /\ LogOk(file', whole', tears')
        /\ synced' \in 0..Len(file') /\ pc' = "idle"
    BY <2>1, <2>2, FailsStep
  <2> QED BY <1>1, <2>1, <2>3 DEF FramesInv
<1>6. CASE reopen
  BY <1>6, ReopenStep
<1>7. CASE UNCHANGED vars
  BY <1>7 DEF FramesInv, vars
<1> QED BY <1>2, <1>3, <1>4, <1>5, <1>6, <1>7 DEF Next

-----------------------------------------------------------------------------
\* The properties.

\* What the invariant says of the log, with f the first tear.
LEMMA InvFacts ==
    ASSUME FramesInv
    PROVE  /\ file \in Seq(Byte) /\ whole \in Wholes /\ tears \in SUBSET Nat
           /\ Len(file) \in Nat /\ Len(whole) \in Nat
           /\ Ordered(whole) /\ \A i \in 1..Len(whole) : whole[i].end <= Len(file)
           /\ FirstTear \in Nat /\ FirstTear <= Len(file)
           /\ \E m \in 0..Len(whole) : Past(file, whole, FirstTear, m)
<1>1. IsLog(file, whole, tears) /\ LogOk(file, whole, tears)
  BY DEF FramesInv
<1>2. file \in Seq(Byte) /\ whole \in Wholes /\ tears \in SUBSET Nat
      /\ Len(file) \in Nat /\ Len(whole) \in Nat
  BY <1>1 DEF IsLog, Wholes
<1>3. FirstTear \in Nat /\ FirstTear <= Len(file)
  BY <1>2, FirstOf DEF FirstTear
<1> QED BY <1>1, <1>2, <1>3 DEF LogOk, FirstTear

\* All bytes of the file.
LEMMA WholeFile ==
    ASSUME file \in Seq(Byte)
    PROVE  SubSeq(file, 1, Len(file)) = file
<1> DEFINE x == SubSeq(file, 1, Len(file))
<1>1. Len(file) \in 0..Len(file)
  OBVIOUS
<1>2. x \in Seq(Byte) /\ Len(x) = Len(file) /\ \A i \in 1..Len(file) : x[i] = file[i]
  BY <1>1, PrefixOf
<1> HIDE DEF x
<1>3. x = file
  BY <1>2, SeqEqual
<1> QED BY <1>3 DEF x

\* The fields of Parsed(n).
LEMMA ParsedFields ==
    ASSUME NEW n
    PROVE  /\ Parsed(n).entries = parse_buffer(SubSeq(file, 1, n)).entries
           /\ Parsed(n).committed_count = parse_buffer(SubSeq(file, 1, n)).committed_count
           /\ Parsed(n).committed_end = parse_buffer(SubSeq(file, 1, n)).committed_end
BY DEF Parsed

\* Parsing again, for any bytes whatever.
LEMMA InvTruncationIsStable ==
    ASSUME file \in Seq(Byte)
    PROVE  TruncationIsStable
<1> DEFINE r == parse_buffer(file)
           again == parse_buffer(SubSeq(file, 1, r.committed_end))
<1>1. /\ again.entries = SubSeq(r.entries, 1, r.committed_count)
      /\ again.committed_count = r.committed_count
      /\ again.committed_end = r.committed_end
  BY ParseTwice
<1>2. parse_buffer(SubSeq(file, 1, Len(file))) = r
  BY WholeFile
<1> HIDE DEF r
<1>3. Parsed(Len(file)).entries = r.entries
      /\ Parsed(Len(file)).committed_count = r.committed_count
      /\ Parsed(Len(file)).committed_end = r.committed_end
  BY <1>2, ParsedFields
<1>4. Parsed(r.committed_end).entries = again.entries
      /\ Parsed(r.committed_end).committed_count = again.committed_count
      /\ Parsed(r.committed_end).committed_end = again.committed_end
  BY ParsedFields
<1> HIDE DEF again
<1> QED BY <1>1, <1>3, <1>4 DEF TruncationIsStable

\* Without a tear all of the file is frames.
LEMMA InvCutsAreClean ==
    ASSUME FramesInv
    PROVE  CutsAreClean
<1> SUFFICES ASSUME tears = {}, NEW n \in 0..Len(file) PROVE Parsed(n) = Reference(n)
  BY DEF CutsAreClean
<1>1. /\ file \in Seq(Byte) /\ whole \in Wholes /\ tears \in SUBSET Nat
      /\ Len(file) \in Nat /\ Len(whole) \in Nat
      /\ Ordered(whole) /\ \A i \in 1..Len(whole) : whole[i].end <= Len(file)
  BY InvFacts
<1>2. PICK m \in 0..Len(whole) : Past(file, whole, FirstTear, m)
  BY InvFacts
<1>3. FirstTear = Len(file)
  <2>1. FirstTear \in {Len(file)} \cup tears
    BY <1>1, FirstOf DEF FirstTear
  <2> QED BY <2>1
<1>4. /\ Tiled(file, whole, m) /\ EndAt(whole, m) = Len(file)
      /\ \A i \in (m + 1)..Len(whole) : whole[i].end > Len(file)
  BY <1>2, <1>3 DEF Past
<1>5. m = Len(whole)
  <2> DEFINE l == Len(whole)
  <2>1. m # l => l \in (m + 1)..l /\ l \in 1..l
    BY <1>1
  <2>2. m # l => whole[l].end > Len(file) /\ whole[l].end <= Len(file) /\ whole[l].end \in Nat
    BY <1>1, <1>4, <2>1, WholeFields
  <2> QED BY <1>1, <2>2
<1> DEFINE r == parse_buffer(SubSeq(file, 1, n))
<1>6. PICK k \in 0..m :
          /\ \A i \in 1..k : whole[i].end <= n
          /\ \A i \in (k + 1)..m : whole[i].end > n
          /\ ParsedAs(r, whole, k)
  <2>1. n <= EndAt(whole, m)
    BY <1>1, <1>4
  <2> QED BY <1>1, <1>4, <2>1, ParseCut
<1> HIDE DEF r
<1>7. /\ r.entries \in Seq(Records) /\ Len(r.entries) = k
      /\ \A j \in 1..k : r.entries[j] = whole[j].entry
      /\ IsLastCommit(whole, k, r.committed_count)
      /\ r.committed_end = EndAt(whole, r.committed_count)
  BY <1>6 DEF ParsedAs
<1>8. k \in 0..Len(whole) /\ n \in Nat /\ k \in Nat
  BY <1>1, <1>5
<1> DEFINE es == [i \in 1..k |-> whole[i].entry]
<1>9. PICK c \in 0..k : /\ IsLastCommit(whole, k, c)
                        /\ Reference(n) = [entries |-> es, committed_count |-> c,
                                           committed_end |-> EndAt(whole, c)]
  BY <1>1, <1>5, <1>6, <1>8, ReferenceIs
<1>10. c = r.committed_count
  BY <1>7, <1>8, <1>9, LastCommitUnique
<1>11. r.entries = es
  <2>1. r.entries = [i \in 1..Len(r.entries) |-> r.entries[i]]
    BY <1>7
  <2> QED BY <1>7, <2>1
<1>12. Parsed(n) = [entries |-> r.entries, committed_count |-> r.committed_count,
                    committed_end |-> r.committed_end]
  BY DEF Parsed, r
<1> HIDE DEF es
<1> QED BY <1>7, <1>9, <1>10, <1>11, <1>12

\* The frames before the first tear are read first.
LEMMA InvTearsSpareThePast ==
    ASSUME FramesInv
    PROVE  TearsSpareThePast
<1> DEFINE f == FirstTear
           r == parse_buffer(file)
           past == Reference(f)
           now == Parsed(Len(file))
<1>1. /\ file \in Seq(Byte) /\ whole \in Wholes /\ Len(file) \in Nat /\ Len(whole) \in Nat
      /\ Ordered(whole) /\ f \in Nat
  BY InvFacts
<1>2. PICK m \in 0..Len(whole) : Past(file, whole, f, m)
  BY InvFacts
<1> HIDE DEF f
<1>3. /\ Tiled(file, whole, m) /\ EndAt(whole, m) = f
      /\ \A i \in (m + 1)..Len(whole) : whole[i].end > f
  BY <1>2 DEF Past
<1>4. \A i \in 1..m : whole[i].end <= f
  <2> TAKE i \in 1..m
  <2>1. i \in 1..Len(whole) /\ m \in 1..Len(whole) /\ i <= m /\ m # 0
    BY <1>1
  <2>2. whole[i].end <= whole[m].end
    BY <1>1, <2>1 DEF Ordered
  <2> QED BY <1>3, <2>1, <2>2 DEF EndAt
<1> DEFINE es == [i \in 1..m |-> whole[i].entry]
<1>5. PICK c \in 0..m : /\ IsLastCommit(whole, m, c)
                        /\ past = [entries |-> es, committed_count |-> c,
                                   committed_end |-> EndAt(whole, c)]
  BY <1>1, <1>3, <1>4, ReferenceIs
<1> HIDE DEF past
<1>6. past.entries = es /\ past.committed_count = c /\ past.committed_end = EndAt(whole, c)
  <2> HIDE DEF es
  <2> QED BY <1>5
<1>7. /\ r.entries \in Seq(Records) /\ m <= Len(r.entries)
      /\ \A j \in 1..m : r.entries[j] = whole[j].entry
  BY <1>1, <1>3, ParsePast
<1>8. PICK d \in 0..m : IsLastCommit(whole, m, d) /\ d <= r.committed_count
                        /\ EndAt(whole, d) <= r.committed_end
  BY <1>1, <1>3, ParsePast
<1> HIDE DEF r
<1>9. m \in Nat /\ d \in 0..m
  BY <1>1
<1>10. c = d
  BY <1>5, <1>8, <1>9, LastCommitUnique
<1>11. now.entries = r.entries /\ now.committed_count = r.committed_count
       /\ now.committed_end = r.committed_end
  BY <1>1, WholeFile, ParsedFields DEF r
<1> HIDE DEF now
<1>12. IsPrefix(es, r.entries)
  <2> DEFINE E == {r.entries[i] : i \in 1..m}
             x == SubSeq(es, 1, m)
             y == SubSeq(r.entries, 1, m)
  <2>1. es \in Seq(E) /\ Len(es) = m /\ \A i \in 1..m : es[i] = r.entries[i]
    <3>1. \A i \in 1..m : whole[i].entry \in E
      BY <1>7
    <3> HIDE DEF E
    <3> QED BY <1>7, <1>9, <3>1
  <2> HIDE DEF es, E
  <2>2. m \in 0..Len(es) /\ m \in 0..Len(r.entries)
    BY <1>7, <1>9, <2>1
  <2>3. x \in Seq(E) /\ Len(x) = m /\ \A i \in 1..m : x[i] = es[i]
    BY <2>1, <2>2, PrefixOf
  <2>4. y \in Seq(Records) /\ Len(y) = m /\ \A i \in 1..m : y[i] = r.entries[i]
    BY <1>7, <2>2, PrefixOf
  <2> HIDE DEF x, y
  <2>5. x = y
    BY <2>1, <2>3, <2>4, SeqEqual
  <2> QED BY <1>7, <2>1, <2>5 DEF IsPrefix, x, y
<1>13. r.committed_count >= c /\ r.committed_end >= EndAt(whole, c)
  <2>1. r \in ParseStates
    BY <1>1, ParseTwice DEF r
  <2>2. r.committed_count \in Nat /\ r.committed_end \in Nat /\ EndAt(whole, c) \in Nat
    <3>1. c \in 0..Len(whole)
      BY <1>1
    <3> QED BY <1>1, <2>1, <3>1, StateFields, EndAtType
  <2> QED BY <1>8, <1>10, <2>2
<1>14. IsPrefix(past.entries, now.entries) /\ now.committed_count >= past.committed_count
       /\ now.committed_end >= past.committed_end
  BY <1>6, <1>11, <1>12, <1>13
<1> QED BY <1>14 DEF TearsSpareThePast, past, now, f

\* Up to the first partial record wal.log is made of the frames of the entries
\* that were written whole, in their order and without a gap, and every other
\* whole entry ends behind that record: for any number of writes, failed
\* appends, crashes and recoveries in any order.
THEOREM FramesInvariant == Spec => []FramesInv
BY FramesInit, FramesStep, PTL DEF Spec

\* A log without a partial record in the middle, cut at any byte, is parsed by
\* parse_buffer as the entries that are whole, and is truncated behind the last
\* whole COMMIT: for all keys and values that the encoding can hold, and logs
\* of any length.
THEOREM CutsClean == Spec => []CutsAreClean
<1>1. FramesInv => CutsAreClean
  BY InvCutsAreClean
<1> QED BY <1>1, FramesInvariant, PTL

\* However many partial records are in the log and whatever is appended behind
\* them, parse_buffer recovers all that was written before the first of them,
\* first and in order, and loses no COMMIT of that part.
THEOREM PastSpared == Spec => []TearsSpareThePast
<1>1. FramesInv => TearsSpareThePast
  BY InvTearsSpareThePast
<1> QED BY <1>1, FramesInvariant, PTL

\* The log that read_for_recovery has truncated is parsed as the same committed
\* entries and is not truncated again.
THEOREM TruncationStable == Spec => []TruncationIsStable
<1>1. FramesInv => TruncationIsStable
  BY InvFacts, InvTruncationIsStable
<1> QED BY <1>1, FramesInvariant, PTL

=============================================================================
