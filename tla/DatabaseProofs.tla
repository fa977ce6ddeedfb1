--------------------------- MODULE DatabaseProofs ---------------------------
(***************************************************************************)
(* Proofs about Database for every finite set of processes.                *)
(***************************************************************************)
EXTENDS Database, SetLemmas

(***************************************************************************)
(* The inductive invariant.  While no delete has raced with a user of the  *)
(* table, whoever has the table or is about to lock it has the LOCK file   *)
(* that the name leads to, in a directory that exists (Anchored), so that  *)
(* an flock on it excludes all others (Exclusive).  A process that removes *)
(* files has dropped its own Store before (RemovesClosed): its unlinks     *)
(* concern others only, and UsedByOthers looks at all of those.            *)
(***************************************************************************)
Anchored ==
    \A p \in Procs :
        /\ IsOpen(p) => dir /\ entry["LOCK"] = handle[p].lock
        /\ pc[p] \in {"flock", "load"} => dir /\ entry["LOCK"] = opening[p]
        /\ handle[p].log # NoFile => entry["wal.log"] = handle[p].log

\* Process p has the lock on its LOCK file.
Holds(p) == IsOpen(p) \/ pc[p] = "load"

Exclusive == \A p, q \in Procs : Holds(p) /\ Holds(q) => p = q

RemovesClosed == \A p \in Procs : pc[p] = "remove" => ~IsOpen(p)

IndInv ==
    /\ TypeOK
    /\ RemovesClosed
    /\ raced \/ (Anchored /\ Exclusive)

-----------------------------------------------------------------------------
(***************************************************************************)
(* There is always an inode for a new file: every process has at most      *)
(* three files open and the directory has two names.                       *)
(***************************************************************************)

\* The image of a finite set is no larger than the set.
LEMMA ImageBound ==
    ASSUME NEW S, IsFiniteSet(S), NEW f, DOMAIN f = S, f = [x \in S |-> f[x]]
    PROVE  /\ IsFiniteSet({f[x] : x \in S})
           /\ Cardinality({f[x] : x \in S}) <= Cardinality(S)
<1> DEFINE T == {f[x] : x \in S}
<1>1. f \in Surjection(S, T)
  BY DEF Surjection
<1> HIDE DEF T
<1>2. IsFiniteSet(T) /\ Cardinality(T) <= Cardinality(S)
  BY <1>1, FS_Surjection
<1> QED BY <1>2 DEF T

\* A union is no larger than its parts together.
LEMMA UnionBound ==
    ASSUME NEW S, IsFiniteSet(S), NEW T, IsFiniteSet(T), NEW m \in Nat, NEW n \in Nat,
           Cardinality(S) <= m, Cardinality(T) <= n
    PROVE  IsFiniteSet(S \cup T) /\ Cardinality(S \cup T) <= m + n
<1>1. IsFiniteSet(S \cap T)
  BY FS_Intersection
<1>2. /\ Cardinality(S) \in Nat /\ Cardinality(T) \in Nat
      /\ Cardinality(S \cap T) \in Nat
  BY <1>1, FS_CardinalityType
<1>3. /\ IsFiniteSet(S \cup T)
      /\ Cardinality(S \cup T) = Cardinality(S) + Cardinality(T) - Cardinality(S \cap T)
  BY FS_Union
<1> QED BY <1>2, <1>3

\* The inode of a file that is created is free and is not NoFile.
LEMMA NewFileIsFree ==
    ASSUME TypeOK
    PROVE  NewFile \in Inodes /\ NewFile \notin InUse
<1> DEFINE c == Cardinality(Procs)
           fl == [p \in Procs |-> handle[p].lock]
           fg == [p \in Procs |-> handle[p].log]
           A == {entry[n] : n \in Names}
           B == {opening[p] : p \in Procs}
           C == {fl[p] : p \in Procs}
           D == {fg[p] : p \in Procs}
<1>1. IsFiniteSet(Procs) /\ c \in Nat
  BY ConstantsAssumption, FS_CardinalityType
<1>2. IsFiniteSet(Names) /\ Cardinality(Names) <= 2
  <2>1. IsFiniteSet({"LOCK"}) /\ Cardinality({"LOCK"}) = 1
    BY FS_Singleton
  <2>2. IsFiniteSet({"LOCK"} \cup {"wal.log"})
        /\ Cardinality({"LOCK"} \cup {"wal.log"}) <= 1 + 1
    BY <2>1, FS_AddElement
  <2>3. Names = {"LOCK"} \cup {"wal.log"}
    BY DEF Names
  <2> QED BY <2>2, <2>3
<1>3. IsFiniteSet(A) /\ Cardinality(A) <= 2
  <2>1. DOMAIN entry = Names /\ entry = [n \in Names |-> entry[n]]
    BY DEF TypeOK
  <2>2. IsFiniteSet(A) /\ Cardinality(A) <= Cardinality(Names)
    BY <1>2, <2>1, ImageBound
  <2>3. Cardinality(A) \in Nat /\ Cardinality(Names) \in Nat
    <3> HIDE DEF A
    <3> QED BY <1>2, <2>2, FS_CardinalityType
  <2> QED BY <1>2, <2>2, <2>3
<1>4. IsFiniteSet(B) /\ Cardinality(B) <= c
  <2>1. DOMAIN opening = Procs /\ opening = [p \in Procs |-> opening[p]]
    BY DEF TypeOK
  <2> QED BY <1>1, <2>1, ImageBound
<1>5. IsFiniteSet(C) /\ Cardinality(C) <= c
  <2>1. DOMAIN fl = Procs /\ fl = [p \in Procs |-> fl[p]]
    OBVIOUS
  <2> HIDE DEF fl
  <2> QED BY <1>1, <2>1, ImageBound
<1>6. IsFiniteSet(D) /\ Cardinality(D) <= c
  <2>1. DOMAIN fg = Procs /\ fg = [p \in Procs |-> fg[p]]
    OBVIOUS
  <2> HIDE DEF fg
  <2> QED BY <1>1, <2>1, ImageBound
<1>7. InUse = (A \cup B) \cup (C \cup D)
  BY DEF InUse
<1> HIDE DEF A, B, C, D, c
<1>8. IsFiniteSet(InUse) /\ Cardinality(InUse) <= (2 + c) + (c + c)
  <2>1. IsFiniteSet(A \cup B) /\ Cardinality(A \cup B) <= 2 + c /\ 2 + c \in Nat
    BY <1>1, <1>3, <1>4, UnionBound
  <2>2. IsFiniteSet(C \cup D) /\ Cardinality(C \cup D) <= c + c /\ c + c \in Nat
    BY <1>1, <1>5, <1>6, UnionBound
  <2> QED BY <1>7, <2>1, <2>2, UnionBound
<1>9. IsFiniteSet(Inodes) /\ Cardinality(Inodes) = 3 * c + 3
  <2>1. 3 * c + 3 \in Nat /\ Inodes = 1..(3 * c + 3)
    BY <1>1 DEF Inodes, c
  <2> QED BY <2>1, FS_Interval
<1>10. Inodes \ InUse # {}
  <2>1. SUFFICES ASSUME Inodes \subseteq InUse PROVE FALSE
    OBVIOUS
  <2>2. Cardinality(Inodes) <= Cardinality(InUse)
    BY <1>8, <2>1, FS_Subset
  <2>3. Cardinality(InUse) \in Nat
    BY <1>8, FS_CardinalityType
  <2> QED BY <1>1, <1>8, <1>9, <2>2, <2>3
<1>11. Inodes \ InUse \in SUBSET Nat
  BY <1>1 DEF Inodes
<1>12. NewFile \in Inodes \ InUse
  <2> DEFINE S == Inodes \ InUse
  <2> HIDE DEF S
  <2>1. Min(S) \in S
    BY <1>10, <1>11, MinOfNats DEF S
  <2> QED BY <2>1 DEF NewFile, S
<1> QED BY <1>12

\* Opening a file by its name gives an inode, and the one the name has if it
\* has one.
LEMMA OpenOrCreate ==
    ASSUME TypeOK, NEW n \in Names
    PROVE  /\ open_or_create(n) \in Inodes
           /\ open_or_create(n) # NoFile
           /\ entry[n] # NoFile => open_or_create(n) = entry[n]
<1>1. NewFile \in Inodes /\ NoFile \notin Inodes
  BY NewFileIsFree DEF Inodes, NoFile
<1>2. entry[n] \in Inodes \cup {NoFile}
  BY DEF TypeOK
<1> QED BY <1>1, <1>2 DEF open_or_create

-----------------------------------------------------------------------------
(***************************************************************************)
(* Every step of process p keeps the invariant.                            *)
(***************************************************************************)

LEMMA InitInv == Init => IndInv
<1> SUFFICES ASSUME Init PROVE IndInv
  OBVIOUS
<1>1. TypeOK
  BY DEF Init, TypeOK, Closed, IsOpen, NoFile
<1>2. RemovesClosed /\ Anchored /\ Exclusive
  BY DEF Init, RemovesClosed, Anchored, Exclusive, Holds, IsOpen, Closed
<1> QED BY <1>1, <1>2 DEF IndInv

\* A call that begins, or a step that leads to the next one without touching
\* a file or a lock.
LEMMA GotoKeeps ==
    ASSUME IndInv, NEW p \in Procs, NEW label \in {"idle", "mkdir", "lock_file"},
           pc[p] \in {"idle", "mkdir", "lock_file"}, Goto(p, label),
           dir' = dir \/ dir' = TRUE,
           UNCHANGED <<entry, opening, handle, left, deletes, raced>>
    PROVE  IndInv'
<1>1. TypeOK'
  BY DEF IndInv, TypeOK, Goto, IsOpen
<1>2. RemovesClosed'
  BY DEF IndInv, TypeOK, RemovesClosed, Goto, IsOpen
<1>3. Anchored /\ Exclusive => Anchored' /\ Exclusive'
  BY DEF IndInv, TypeOK, Anchored, Exclusive, Holds, Goto, IsOpen
<1> QED BY <1>1, <1>2, <1>3 DEF IndInv

LEMMA OpenLockFileKeeps ==
    ASSUME IndInv, NEW p \in Procs, open_lock_file(p)
    PROVE  IndInv'
<1> DEFINE i == lock_file("LOCK")
<1>1. i \in Inodes /\ i # NoFile /\ (entry["LOCK"] # NoFile => i = entry["LOCK"])
  BY OpenOrCreate DEF lock_file, IndInv, Names
<1> HIDE DEF i
<1>2. CASE dir
  <2>1. /\ opening' = [opening EXCEPT ![p] = i]
        /\ entry' = [entry EXCEPT !["LOCK"] = i]
        /\ pc' = [pc EXCEPT ![p] = "flock"] /\ pc[p] = "lock_file"
        /\ UNCHANGED <<dir, handle, left, deletes, raced>>
    BY <1>2 DEF open_lock_file, Goto, i
  <2>2. TypeOK'
    BY <1>1, <2>1 DEF IndInv, TypeOK, IsOpen, Names
  <2>3. RemovesClosed'
    BY <2>1 DEF IndInv, TypeOK, RemovesClosed, IsOpen
  <2>4. ASSUME Anchored, Exclusive
        PROVE  Anchored' /\ Exclusive'
    <3>1. Exclusive'
      BY <2>1, <2>4 DEF IndInv, TypeOK, Exclusive, Holds, IsOpen
    <3>2. entry'["LOCK"] = i /\ entry'["wal.log"] = entry["wal.log"]
      BY <2>1 DEF IndInv, TypeOK, Names
    <3>3. ASSUME NEW q \in Procs
          PROVE  /\ IsOpen(q)' => dir' /\ entry'["LOCK"] = handle'[q].lock
                 /\ pc'[q] \in {"flock", "load"} => dir' /\ entry'["LOCK"] = opening'[q]
                 /\ handle'[q].log # NoFile => entry'["wal.log"] = handle'[q].log
      <4>1. IsOpen(q)' => dir' /\ entry'["LOCK"] = handle'[q].lock
        BY <1>1, <1>2, <2>1, <2>4, <3>2 DEF Anchored, IsOpen
      <4>2. pc'[q] \in {"flock", "load"} => dir' /\ entry'["LOCK"] = opening'[q]
        <5>1. CASE q = p
          BY <1>2, <2>1, <3>2, <5>1 DEF IndInv, TypeOK
        <5>2. CASE q # p
          <6>1. pc'[q] = pc[q] /\ opening'[q] = opening[q]
            BY <2>1, <5>2 DEF IndInv, TypeOK
          <6>2. pc[q] \in {"flock", "load"} => opening[q] # NoFile
            BY DEF IndInv, TypeOK
          <6> QED BY <1>1, <1>2, <2>1, <2>4, <3>2, <6>1, <6>2 DEF Anchored
        <5> QED BY <5>1, <5>2
      <4>3. handle'[q].log # NoFile => entry'["wal.log"] = handle'[q].log
        BY <2>1, <2>4, <3>2 DEF Anchored
      <4> QED BY <4>1, <4>2, <4>3
    <3> QED BY <3>1, <3>3 DEF Anchored
  <2> QED BY <2>1, <2>2, <2>3, <2>4 DEF IndInv
<1>3. CASE ~dir
  BY <1>3, GotoKeeps DEF open_lock_file
<1> QED BY <1>2, <1>3 DEF IndInv, TypeOK

\* The step that makes the lock exclusive: no process that has the table, and
\* none that has just locked it, has another LOCK file.
LEMMA FlockKeeps ==
    ASSUME IndInv, NEW p \in Procs, flock(p)
    PROVE  IndInv'
<1>0. pc[p] = "flock" /\ UNCHANGED <<dir, entry, handle, left, deletes, raced>>
  BY DEF flock
<1>1. CASE Locked(opening[p])
  <2>1. opening' = [opening EXCEPT ![p] = NoFile] /\ pc' = [pc EXCEPT ![p] = "idle"]
    BY <1>1 DEF flock, Goto
  <2>2. TypeOK'
    BY <1>0, <2>1 DEF IndInv, TypeOK, IsOpen
  <2>3. RemovesClosed'
    BY <1>0, <2>1 DEF IndInv, TypeOK, RemovesClosed, IsOpen
  <2>4. Anchored /\ Exclusive => Anchored' /\ Exclusive'
    BY <1>0, <2>1 DEF IndInv, TypeOK, Anchored, Exclusive, Holds, IsOpen
  <2> QED BY <1>0, <2>2, <2>3, <2>4 DEF IndInv
<1>2. CASE ~Locked(opening[p])
  <2>1. opening' = opening /\ pc' = [pc EXCEPT ![p] = "load"]
    BY <1>2 DEF flock, Goto
  <2>2. TypeOK'
    BY <1>0, <2>1 DEF IndInv, TypeOK, IsOpen
  <2>3. RemovesClosed'
    BY <1>0, <2>1 DEF IndInv, TypeOK, RemovesClosed, IsOpen
  <2>4. ASSUME Anchored, Exclusive
        PROVE  Anchored' /\ Exclusive'
    <3>1. Anchored'
      BY <1>0, <2>1, <2>4 DEF IndInv, TypeOK, Anchored, IsOpen
    <3>2. \A q \in Procs : ~Holds(q)
      BY <1>0, <1>2, <2>4 DEF Anchored, Locked, Holds
    <3>3. \A q \in Procs : Holds(q)' => q = p
      BY <1>0, <2>1, <3>2 DEF IndInv, TypeOK, Holds, IsOpen
    <3> QED BY <3>1, <3>3 DEF Exclusive
  <2> QED BY <1>0, <2>2, <2>3, <2>4 DEF IndInv
<1> QED BY <1>1, <1>2

LEMMA LoadKeeps ==
    ASSUME IndInv, NEW p \in Procs, load(p)
    PROVE  IndInv'
<1>1. PICK replayed \in BOOLEAN :
          handle' = [handle EXCEPT ![p] = [lock |-> opening[p], log |-> NoFile,
                                           data |-> replayed]]
  BY DEF load
<1>2. /\ pc[p] = "load" /\ dir' = TRUE /\ opening' = [opening EXCEPT ![p] = NoFile]
      /\ pc' = [pc EXCEPT ![p] = "idle"]
      /\ UNCHANGED <<entry, left, deletes, raced>>
  BY DEF load, Goto
<1>3. opening[p] \in Inodes /\ opening[p] # NoFile
  BY <1>2 DEF IndInv, TypeOK
<1>4. /\ handle'[p].lock = opening[p] /\ handle'[p].log = NoFile
      /\ handle'[p].data = replayed
      /\ \A q \in Procs : q # p => handle'[q] = handle[q]
  BY <1>1 DEF IndInv, TypeOK
<1>5. TypeOK'
  <2>1. handle' \in [Procs -> [lock : Inodes \cup {NoFile},
                               log : Inodes \cup {NoFile}, data : BOOLEAN]]
    BY <1>1, <1>3 DEF IndInv, TypeOK
  <2>2. \A q \in Procs : /\ opening'[q] # NoFile <=> pc'[q] \in {"flock", "load"}
                         /\ handle'[q].log # NoFile => handle'[q].data
                         /\ handle'[q].data => handle'[q].lock # NoFile
    <3> TAKE q \in Procs
    <3>1. CASE q = p
      BY <1>2, <1>3, <1>4, <3>1 DEF IndInv, TypeOK
    <3>2. CASE q # p
      BY <1>2, <1>4, <3>2 DEF IndInv, TypeOK, IsOpen
    <3> QED BY <3>1, <3>2
  <2> QED BY <1>2, <2>1, <2>2 DEF IndInv, TypeOK, IsOpen
<1>6. RemovesClosed'
  BY <1>2, <1>4 DEF IndInv, TypeOK, RemovesClosed, IsOpen
<1>7. ASSUME Anchored, Exclusive
      PROVE  Anchored' /\ Exclusive'
  <2>1. Holds(p) /\ \A q \in Procs : Holds(q)' => Holds(q)
    BY <1>2, <1>4 DEF IndInv, TypeOK, Holds, IsOpen
  <2>2. Exclusive'
    BY <1>7, <2>1 DEF Exclusive
  <2>3. Anchored'
    <3>1. ASSUME NEW q \in Procs
          PROVE  /\ IsOpen(q)' => dir' /\ entry'["LOCK"] = handle'[q].lock
                 /\ pc'[q] \in {"flock", "load"} => dir' /\ entry'["LOCK"] = opening'[q]
                 /\ handle'[q].log # NoFile => entry'["wal.log"] = handle'[q].log
      <4>1. CASE q = p
        BY <1>2, <1>4, <1>7, <4>1 DEF IndInv, TypeOK, Anchored, IsOpen
      <4>2. CASE q # p
        BY <1>2, <1>4, <1>7, <4>2 DEF IndInv, TypeOK, Anchored, IsOpen
      <4> QED BY <4>1, <4>2
    <3> QED BY <3>1 DEF Anchored
  <2> QED BY <2>2, <2>3
<1> QED BY <1>2, <1>5, <1>6, <1>7 DEF IndInv

LEMMA LoadFailsKeeps ==
    ASSUME IndInv, NEW p \in Procs, load_fails(p)
    PROVE  IndInv'
<1>1. /\ pc[p] = "load" /\ dir' = TRUE /\ opening' = [opening EXCEPT ![p] = NoFile]
      /\ pc' = [pc EXCEPT ![p] = "idle"]
      /\ UNCHANGED <<entry, handle, left, deletes, raced>>
  BY DEF load_fails, Goto
<1>2. TypeOK'
  BY <1>1 DEF IndInv, TypeOK, IsOpen
<1>3. RemovesClosed'
  BY <1>1 DEF IndInv, TypeOK, RemovesClosed, IsOpen
<1>4. Anchored /\ Exclusive => Anchored' /\ Exclusive'
  BY <1>1 DEF IndInv, TypeOK, Anchored, Exclusive, Holds, IsOpen
<1> QED BY <1>1, <1>2, <1>3, <1>4 DEF IndInv

\* While no delete has raced, only one process has an append handle.
LEMMA LogOwner ==
    ASSUME IndInv, Exclusive, NEW p \in Procs, IsOpen(p), NEW q \in Procs, q # p
    PROVE  handle[q].log = NoFile
BY DEF IndInv, TypeOK, Exclusive, Holds, IsOpen

LEMMA WriteKeeps ==
    ASSUME IndInv, NEW p \in Procs, write(p)
    PROVE  IndInv'
<1> DEFINE log == IF handle[p].log # NoFile THEN handle[p].log
                  ELSE open_or_create("wal.log")
<1>0. /\ pc[p] = "idle" /\ IsOpen(p)
      /\ UNCHANGED <<dir, pc, opening, left, deletes, raced>>
  BY DEF write
<1>1. log \in Inodes /\ log # NoFile
  BY OpenOrCreate DEF IndInv, TypeOK, Names
<1>2. /\ handle' = [handle EXCEPT ![p].log = log, ![p].data = TRUE]
      /\ entry' = IF handle[p].log # NoFile THEN entry
                  ELSE [entry EXCEPT !["wal.log"] = log]
  BY DEF write
<1> HIDE DEF log
<1>3. /\ handle'[p].lock = handle[p].lock /\ handle'[p].log = log
      /\ handle'[p].data = TRUE
      /\ \A q \in Procs : q # p => handle'[q] = handle[q]
  BY <1>2 DEF IndInv, TypeOK
<1>4. /\ entry' \in [Names -> Inodes \cup {NoFile}]
      /\ entry'["LOCK"] = entry["LOCK"]
      /\ handle[p].log = NoFile => entry'["wal.log"] = log
      /\ handle[p].log # NoFile => entry' = entry
  BY <1>1, <1>2 DEF IndInv, TypeOK, Names
<1>5. \A q \in Procs : /\ handle'[q].lock = handle[q].lock
                       /\ IsOpen(q)' <=> IsOpen(q)
  BY <1>3 DEF IsOpen
<1>6. TypeOK'
  <2>1. handle' \in [Procs -> [lock : Inodes \cup {NoFile},
                               log : Inodes \cup {NoFile}, data : BOOLEAN]]
    BY <1>1, <1>2 DEF IndInv, TypeOK
  <2>2. \A q \in Procs : /\ handle'[q].log # NoFile => handle'[q].data
                         /\ handle'[q].data => IsOpen(q)'
    <3> TAKE q \in Procs
    <3>1. CASE q = p
      BY <1>0, <1>3, <1>5, <3>1
    <3>2. CASE q # p
      BY <1>3, <1>5, <3>2 DEF IndInv, TypeOK
    <3> QED BY <3>1, <3>2
  <2> QED BY <1>0, <1>4, <2>1, <2>2 DEF IndInv, TypeOK
<1>7. RemovesClosed'
  BY <1>0, <1>5 DEF IndInv, RemovesClosed
<1>8. ASSUME Anchored, Exclusive
      PROVE  Anchored' /\ Exclusive'
  <2>1. Exclusive'
    BY <1>0, <1>5, <1>8 DEF Exclusive, Holds
  <2>2. ASSUME NEW q \in Procs
        PROVE  handle'[q].log # NoFile => entry'["wal.log"] = handle'[q].log
    <3>1. CASE q = p
      BY <1>3, <1>4, <1>8, <3>1 DEF Anchored, log
    <3>2. CASE q # p
      BY <1>0, <1>3, <1>8, <3>2, LogOwner
    <3> QED BY <3>1, <3>2
  <2>3. Anchored'
    BY <1>0, <1>4, <1>5, <1>8, <2>2 DEF Anchored
  <2> QED BY <2>1, <2>3
<1> QED BY <1>0, <1>6, <1>7, <1>8 DEF IndInv

LEMMA FlushKeeps ==
    ASSUME IndInv, NEW p \in Procs, flush(p)
    PROVE  IndInv'
<1> DEFINE i == open_or_create("wal.log")
<1>1. i \in Inodes
  BY OpenOrCreate DEF IndInv, Names
<1> HIDE DEF i
<1>2. /\ pc[p] = "idle" /\ handle[p].data /\ dir' = TRUE
      /\ handle' = [handle EXCEPT ![p].log = NoFile, ![p].data = FALSE]
      /\ entry' = [entry EXCEPT !["wal.log"] = i]
      /\ UNCHANGED <<pc, opening, left, deletes, raced>>
  BY DEF flush, i
<1>3. /\ handle'[p].lock = handle[p].lock /\ handle'[p].log = NoFile
      /\ handle'[p].data = FALSE
      /\ \A q \in Procs : q # p => handle'[q] = handle[q]
  BY <1>2 DEF IndInv, TypeOK
<1>4. \A q \in Procs : /\ handle'[q].lock = handle[q].lock
                       /\ IsOpen(q)' <=> IsOpen(q)
  BY <1>3 DEF IsOpen
<1>5. entry' \in [Names -> Inodes \cup {NoFile}] /\ entry'["LOCK"] = entry["LOCK"]
  BY <1>1, <1>2 DEF IndInv, TypeOK, Names
<1>6. TypeOK'
  <2>1. handle' \in [Procs -> [lock : Inodes \cup {NoFile},
                               log : Inodes \cup {NoFile}, data : BOOLEAN]]
    BY <1>2 DEF IndInv, TypeOK
  <2>2. \A q \in Procs : /\ handle'[q].log # NoFile => handle'[q].data
                         /\ handle'[q].data => IsOpen(q)'
    <3> TAKE q \in Procs
    <3>1. CASE q = p
      BY <1>3, <3>1
    <3>2. CASE q # p
      BY <1>3, <1>4, <3>2 DEF IndInv, TypeOK
    <3> QED BY <3>1, <3>2
  <2> QED BY <1>2, <1>5, <2>1, <2>2 DEF IndInv, TypeOK
<1>7. RemovesClosed'
  BY <1>2, <1>4 DEF IndInv, RemovesClosed
<1>8. ASSUME Anchored, Exclusive
      PROVE  Anchored' /\ Exclusive'
  <2>0. IsOpen(p)
    BY <1>2 DEF IndInv, TypeOK
  <2>1. Exclusive'
    BY <1>2, <1>4, <1>8 DEF Exclusive, Holds
  <2>2. \A q \in Procs : handle'[q].log = NoFile
    BY <1>3, <1>8, <2>0, LogOwner
  <2>3. Anchored'
    BY <1>2, <1>4, <1>5, <1>8, <2>2 DEF Anchored
  <2> QED BY <2>1, <2>3
<1> QED BY <1>2, <1>6, <1>7, <1>8 DEF IndInv

\* A process gives up its files.
LEMMA DropKeeps ==
    ASSUME IndInv, NEW p \in Procs, NEW label \in {"idle", "remove"},
           handle' = [handle EXCEPT ![p] = Closed],
           opening' = [opening EXCEPT ![p] = NoFile],
           pc' = [pc EXCEPT ![p] = label],
           left' \in [Procs -> SUBSET Names], deletes' \in Nat,
           UNCHANGED <<dir, entry, raced>>
    PROVE  IndInv'
<1>1. /\ handle'[p] = Closed /\ opening'[p] = NoFile /\ pc'[p] = label
      /\ \A q \in Procs : q # p => /\ handle'[q] = handle[q]
                                   /\ opening'[q] = opening[q] /\ pc'[q] = pc[q]
  BY DEF IndInv, TypeOK
<1>2. ~IsOpen(p)' /\ \A q \in Procs : q # p => (IsOpen(q)' <=> IsOpen(q))
  BY <1>1 DEF IsOpen, Closed
<1>3. TypeOK'
  <2>1. handle' \in [Procs -> [lock : Inodes \cup {NoFile},
                               log : Inodes \cup {NoFile}, data : BOOLEAN]]
    BY DEF IndInv, TypeOK, Closed
  <2>2. \A q \in Procs : /\ opening'[q] # NoFile <=> pc'[q] \in {"flock", "load"}
                         /\ handle'[q].log # NoFile => handle'[q].data
                         /\ handle'[q].data => IsOpen(q)'
    <3> TAKE q \in Procs
    <3>1. CASE q = p
      BY <1>1, <3>1 DEF Closed
    <3>2. CASE q # p
      BY <1>1, <1>2, <3>2 DEF IndInv, TypeOK
    <3> QED BY <3>1, <3>2
  <2> QED BY <2>1, <2>2 DEF IndInv, TypeOK
<1>4. RemovesClosed'
  BY <1>1, <1>2 DEF IndInv, RemovesClosed
<1>5. ASSUME Anchored, Exclusive
      PROVE  Anchored' /\ Exclusive'
  <2>1. \A q \in Procs : Holds(q)' => Holds(q)
    BY <1>1, <1>2 DEF Holds
  <2>2. Exclusive'
    BY <1>5, <2>1 DEF Exclusive
  <2>3. handle'[p].log = NoFile /\ pc'[p] \notin {"flock", "load"}
    BY <1>1 DEF Closed
  <2>4. Anchored'
    BY <1>1, <1>2, <1>5, <2>3 DEF Anchored
  <2> QED BY <2>2, <2>4
<1> QED BY <1>3, <1>4, <1>5 DEF IndInv

LEMMA CloseKeeps ==
    ASSUME IndInv, NEW p \in Procs, close(p) \/ process_crash(p)
    PROVE  IndInv'
<1>1. CASE close(p)
  <2>1. opening[p] = NoFile /\ pc[p] = "idle"
    BY <1>1 DEF close, IndInv, TypeOK
  <2>2. opening' = [opening EXCEPT ![p] = NoFile] /\ pc' = [pc EXCEPT ![p] = "idle"]
    BY <1>1, <2>1 DEF close, IndInv, TypeOK
  <2> QED BY <1>1, <2>2, DropKeeps DEF close, IndInv, TypeOK
<1>2. CASE process_crash(p)
  BY <1>2, DropKeeps DEF process_crash, IndInv, TypeOK
<1> QED BY <1>1, <1>2

LEMMA DeleteTableKeeps ==
    ASSUME IndInv, NEW p \in Procs, delete_table(p)
    PROVE  IndInv'
<1>1. CASE ~dir
  <2>1. UNCHANGED vars
    BY <1>1 DEF delete_table, vars
  <2> QED BY <2>1 DEF vars, IndInv, TypeOK, RemovesClosed, Anchored, Exclusive, Holds, IsOpen
<1>2. CASE dir
  <2>1. opening[p] = NoFile
    BY DEF delete_table, IndInv, TypeOK
  <2>2. opening' = [opening EXCEPT ![p] = NoFile] /\ pc' = [pc EXCEPT ![p] = "remove"]
    BY <1>2, <2>1 DEF delete_table, Goto, IndInv, TypeOK
  <2>3. left' \in [Procs -> SUBSET Names] /\ deletes' \in Nat
    BY <1>2 DEF delete_table, IndInv, TypeOK
  <2> QED BY <1>2, <2>2, <2>3, DropKeeps DEF delete_table
<1> QED BY <1>1, <1>2 DEF IndInv, TypeOK

\* A process that removes files, and that no one else races with, is the only
\* one with any business in the directory: nobody has the table.
LEMMA NobodyHasTable ==
    ASSUME IndInv, NEW p \in Procs, pc[p] = "remove", ~UsedByOthers(p),
           NEW q \in Procs
    PROVE  ~IsOpen(q) /\ pc[q] \notin {"flock", "load"} /\ handle[q].log = NoFile
<1>1. ~IsOpen(q) /\ pc[q] \notin {"flock", "load"}
  BY DEF IndInv, RemovesClosed, UsedByOthers
<1> QED BY <1>1 DEF IndInv, TypeOK

LEMMA UnlinkKeeps ==
    ASSUME IndInv, NEW p \in Procs, unlink(p)
    PROVE  IndInv'
<1>1. PICK n \in left[p] : /\ entry' = [entry EXCEPT ![n] = NoFile]
                           /\ left' = [left EXCEPT ![p] = @ \ {n}]
  BY DEF unlink
<1>2. /\ pc[p] = "remove" /\ raced' = (raced \/ UsedByOthers(p))
      /\ UNCHANGED <<dir, pc, opening, handle, deletes>>
  BY DEF unlink
<1>3. TypeOK'
  <2>1. raced' \in BOOLEAN
    BY <1>2 DEF UsedByOthers
  <2> QED BY <1>1, <1>2, <2>1 DEF IndInv, TypeOK, IsOpen
<1>4. RemovesClosed'
  BY <1>2 DEF IndInv, RemovesClosed, IsOpen
<1>5. ASSUME ~raced'
      PROVE  Anchored' /\ Exclusive'
  <2>1. ~raced /\ ~UsedByOthers(p)
    BY <1>2, <1>5
  <2>2. \A q \in Procs : ~IsOpen(q) /\ pc[q] \notin {"flock", "load"} /\ handle[q].log = NoFile
    BY <1>2, <2>1, NobodyHasTable
  <2> QED BY <1>2, <2>2 DEF Anchored, Exclusive, Holds, IsOpen
<1> QED BY <1>3, <1>4, <1>5 DEF IndInv

LEMMA RmdirKeeps ==
    ASSUME IndInv, NEW p \in Procs, rmdir(p)
    PROVE  IndInv'
<1>1. /\ pc[p] = "remove" /\ pc' = [pc EXCEPT ![p] = "idle"]
      /\ dir' = (dir /\ \E n \in Names : entry[n] # NoFile)
      /\ raced' = (raced \/ (UsedByOthers(p) /\ dir' # dir))
      /\ UNCHANGED <<entry, opening, handle, left, deletes>>
  BY DEF rmdir, Goto
<1>2. TypeOK'
  <2>1. raced' \in BOOLEAN /\ dir' \in BOOLEAN
    BY <1>1 DEF UsedByOthers, IndInv, TypeOK
  <2> QED BY <1>1, <2>1 DEF IndInv, TypeOK, IsOpen
<1>3. RemovesClosed'
  BY <1>1 DEF IndInv, TypeOK, RemovesClosed, IsOpen
<1>4. ASSUME ~raced'
      PROVE  Anchored' /\ Exclusive'
  <2>1. Anchored /\ Exclusive
    BY <1>1, <1>4 DEF IndInv
  <2>2. CASE dir' = dir
    BY <1>1, <2>1, <2>2 DEF IndInv, TypeOK, Anchored, Exclusive, Holds, IsOpen
  <2>3. CASE dir' # dir
    <3>1. \A q \in Procs : ~IsOpen(q) /\ pc[q] \notin {"flock", "load"} /\ handle[q].log = NoFile
      BY <1>1, <1>4, <2>3, NobodyHasTable
    <3> QED BY <1>1, <3>1 DEF IndInv, TypeOK, Anchored, Exclusive, Holds, IsOpen
  <2> QED BY <2>2, <2>3
<1> QED BY <1>2, <1>3, <1>4 DEF IndInv

-----------------------------------------------------------------------------
\* IndInv is inductive.
LEMMA NextInv == IndInv /\ [Next]_vars => IndInv'
<1> SUFFICES ASSUME IndInv, [Next]_vars PROVE IndInv'
  OBVIOUS
<1>1. CASE UNCHANGED vars
  BY <1>1 DEF vars, IndInv, TypeOK, RemovesClosed, Anchored, Exclusive, Holds, IsOpen
<1>2. ASSUME NEW p \in Procs, create_table(p) \/ table(p)
      PROVE  IndInv'
  <2>1. CASE UNCHANGED pc
    BY <1>1, <1>2, <2>1 DEF create_table, table, vars
  <2>2. CASE Goto(p, "mkdir")
    BY <1>2, <2>2, GotoKeeps DEF create_table, table
  <2> QED BY <1>2, <2>1, <2>2 DEF create_table, table
<1>3. ASSUME NEW p \in Procs, create_dir_all(p)
      PROVE  IndInv'
  BY <1>3, GotoKeeps DEF create_dir_all
<1>4. ASSUME NEW p \in Procs, Step(p)
      PROVE  IndInv'
  BY <1>3, <1>4, OpenLockFileKeeps, FlockKeeps, LoadKeeps, LoadFailsKeeps, UnlinkKeeps,
     RmdirKeeps DEF Step
<1>5. ASSUME NEW p \in Procs, Call(p)
      PROVE  IndInv'
  BY <1>2, <1>5, DeleteTableKeeps, WriteKeeps, FlushKeeps, CloseKeeps DEF Call
<1>6. ASSUME NEW p \in Procs, process_crash(p)
      PROVE  IndInv'
  BY <1>6, CloseKeeps
<1> QED BY <1>1, <1>4, <1>5, <1>6 DEF Next

LEMMA Invariance == Spec => []IndInv
BY InitInv, NextInv, PTL DEF Spec

\* Whatever the processes do and wherever they die, a process works on a LOCK
\* file exactly while its open is past that step, so that no descriptor and no
\* lock outlives a failed open (Store::open_with_dir), and a new file always
\* gets an inode that nobody uses.
THEOREM TypeCorrect == Spec => []TypeOK
<1>1. IndInv => TypeOK
  BY DEF IndInv
<1> QED BY Invariance, <1>1, PTL

\* For any number of processes, the lock on LOCK gives one writer at a time as
\* long as no delete_table overlaps with another process's use of the table.
THEOREM OneWriterAtATime == Spec => []OneWriterUnlessRaced
<1>1. IndInv => OneWriterUnlessRaced
  BY DEF IndInv, OneWriterUnlessRaced, OneWriter, Exclusive, Holds
<1> QED BY Invariance, <1>1, PTL

\* Under the same condition the LOCK file and the log that an open table has
\* are the ones that the next open will find under their names.
THEOREM HandlesStayReachable == Spec => []HandlesReachable
<1>1. IndInv => HandlesReachable
  BY DEF IndInv, HandlesReachable, Anchored
<1> QED BY Invariance, <1>1, PTL

=============================================================================
