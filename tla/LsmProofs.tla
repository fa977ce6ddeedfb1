----------------------------- MODULE LsmProofs -----------------------------
(***************************************************************************)
(* Lemmas about the operators of Lsm.                                      *)
(***************************************************************************)
EXTENDS Lsm, SetLemmas

\* The ids of S that are above x.
Above(S, x) == {y \in S : y > x}

\* Every rank from 1 to the size of a finite set of ids is that of one of them:
\* the choice that NewestFirst makes at each position has a witness.
LEMMA RankExists ==
    ASSUME NEW S \in SUBSET Nat, IsFiniteSet(S),
           NEW i \in 1..Cardinality(S)
    PROVE  \E x \in S : Cardinality(Above(S, x)) = i - 1
<1> DEFINE Ranked(j) == \E x \in S : Cardinality(Above(S, x)) = j - 1
           Bad == {j \in 1..Cardinality(S) : ~Ranked(j)}
<1>0. Cardinality(S) \in Nat
  BY FS_CardinalityType
<1>1. SUFFICES ASSUME ~Ranked(i) PROVE FALSE
  OBVIOUS
<1>2. PICK j \in Bad : \A m \in Bad : j <= m
  <2>1. Bad # {} /\ Bad \in SUBSET Nat
    BY <1>0, <1>1
  <2> HIDE DEF Bad
  <2> QED BY <2>1, NatMin
<1>3. j \in 1..Cardinality(S) /\ ~Ranked(j)
  BY <1>2
<1>4. CASE j = 1
  <2>1. S # {}
    BY <1>0, <1>3, FS_EmptySet
  <2>2. PICK x \in S : \A y \in S : x >= y
    BY <2>1, FiniteMax
  <2>3. Above(S, x) = {}
    <3>1. \A y \in S : ~(y > x)
      BY <2>2
    <3> QED BY <3>1 DEF Above
  <2>4. Cardinality(Above(S, x)) = j - 1
    BY <2>3, <1>4, FS_EmptySet
  <2> QED BY <2>4, <1>3
<1>5. CASE j # 1
  <2>1. j - 1 \in 1..Cardinality(S) /\ j - 1 \notin Bad
    BY <1>0, <1>2, <1>3, <1>5
  <2>2. PICK x \in S : Cardinality(Above(S, x)) = (j - 1) - 1
    BY <2>1
  <2>3. IsFiniteSet(Above(S, x))
    BY FS_Subset DEF Above
  <2>4. x \notin Above(S, x)
    BY DEF Above
  <2>5. IsFiniteSet(Above(S, x) \cup {x}) /\ Cardinality(Above(S, x) \cup {x}) = j - 1
    BY <1>0, <1>3, <2>2, <2>3, <2>4, FS_AddElement
  <2> DEFINE Below == {y \in S : y < x}
  <2>6. Below # {}
    <3>1. SUFFICES ASSUME Below = {} PROVE FALSE
      OBVIOUS
    <3>2. S = Above(S, x) \cup {x}
      <4>1. \A y \in S : y > x \/ y = x
        BY <3>1
      <4> QED BY <4>1 DEF Above
    <3>3. Cardinality(S) = j - 1
      BY <3>2, <2>5
    <3> QED BY <3>3, <1>0, <1>3
  <2>7. PICK z \in Below : \A y \in Below : z >= y
    <3>1. IsFiniteSet(Below) /\ Below \in SUBSET Nat
      BY FS_Subset
    <3> HIDE DEF Below
    <3> QED BY <3>1, <2>6, FiniteMax
  <2>8. Above(S, z) = Above(S, x) \cup {x}
    <3>1. \A y \in S : y > z <=> (y > x \/ y = x)
      BY <2>7
    <3> QED BY <3>1 DEF Above
  <2>9. z \in S /\ Cardinality(Above(S, z)) = j - 1
    BY <2>5, <2>7, <2>8
  <2> QED BY <2>9, <1>3
<1> QED BY <1>4, <1>5

\* NewestFirst lists ids of the set, in strictly descending order
\* (load_sstables sorts by Reverse(id)).
LEMMA NewestFirstSorts ==
    ASSUME NEW S \in SUBSET Nat, IsFiniteSet(S)
    PROVE  /\ NewestFirst(S) \in Seq(Nat)
           /\ Len(NewestFirst(S)) = Cardinality(S)
           /\ \A i \in 1..Len(NewestFirst(S)) : NewestFirst(S)[i] \in S
           /\ \A i, j \in 1..Len(NewestFirst(S)) :
                  i < j => NewestFirst(S)[i] > NewestFirst(S)[j]
<1> DEFINE s == NewestFirst(S)
           c == Cardinality(S)
<1>0. c \in Nat
  BY FS_CardinalityType
<1>1. \A i \in 1..c : s[i] \in S /\ Cardinality(Above(S, s[i])) = i - 1
  <2> TAKE i \in 1..c
  <2>1. \E x \in S : Cardinality(Above(S, x)) = i - 1
    BY RankExists
  <2>2. s[i] = CHOOSE x \in S : Cardinality(Above(S, x)) = i - 1
    BY DEF NewestFirst, Above
  <2> QED BY <2>1, <2>2
<1>2. s \in Seq(Nat) /\ Len(s) = c
  <2>1. \A i \in 1..c : s[i] \in Nat
    BY <1>1
  <2>2. s \in [1..c -> Nat]
    <3> DEFINE e(i) == CHOOSE x \in S : Cardinality({y \in S : y > x}) = i - 1
    <3>1. s = [i \in 1..c |-> e(i)]
      BY DEF NewestFirst
    <3> HIDE DEF s, c, e
    <3>2. \A i \in 1..c : e(i) \in Nat
      BY <3>1, <2>1
    <3> QED BY <3>1, <3>2
  <2> HIDE DEF s, c
  <2> QED BY <1>0, <2>2
<1>3. ASSUME NEW i \in 1..c, NEW j \in 1..c, i < j
      PROVE  s[i] > s[j]
  <2>0. s[i] \in Nat /\ s[j] \in Nat
    BY <1>1
  <2> HIDE DEF s, c
  <2>1. SUFFICES ASSUME s[i] <= s[j] PROVE FALSE
    BY <2>0
  <2>2. Above(S, s[j]) \in SUBSET Above(S, s[i])
    <3>1. \A y \in S : y > s[j] => y > s[i]
      BY <2>0, <2>1
    <3> QED BY <3>1 DEF Above
  <2>3. IsFiniteSet(Above(S, s[i]))
    BY FS_Subset DEF Above
  <2>4. Cardinality(Above(S, s[j])) <= Cardinality(Above(S, s[i]))
    BY <2>2, <2>3, FS_Subset
  <2> QED BY <1>0, <1>1, <1>3, <2>4
<1> HIDE DEF s, c
<1>4. /\ \A i \in 1..Len(s) : s[i] \in S
      /\ \A i, j \in 1..Len(s) : i < j => s[i] > s[j]
  BY <1>1, <1>2, <1>3
<1> QED BY <1>2, <1>4 DEF s, c

Beneath(S, x) == {y \in S : y < x}

\* Rank from below: every rank up to the size of the set is taken.
LEMMA RankFromBelow ==
    ASSUME NEW S \in SUBSET Nat, IsFiniteSet(S),
           NEW i \in 1..Cardinality(S)
    PROVE  \E x \in S : Cardinality(Beneath(S, x)) = i - 1
<1> DEFINE n == Cardinality(S)
<1>0. n \in Nat
  BY FS_CardinalityType
<1>1. PICK x \in S : Cardinality(Above(S, x)) = (n - i + 1) - 1
  <2>1. n - i + 1 \in 1..n
    BY <1>0
  <2> QED BY <2>1, RankExists
<1> DEFINE A == Above(S, x)
           B == Beneath(S, x)
<1>2. IsFiniteSet(A) /\ IsFiniteSet(B)
  BY FS_Subset DEF Above, Beneath
<1>3. x \notin A /\ A \cap B = {} /\ x \notin B
  <2>1. \A y \in S : ~(y > x /\ y < x)
    OBVIOUS
  <2> QED BY <2>1 DEF Above, Beneath
<1>4. S = (A \cup B) \cup {x}
  <2>1. \A y \in S : y > x \/ y < x \/ y = x
    OBVIOUS
  <2> QED BY <2>1 DEF Above, Beneath
<1> HIDE DEF A, B
<1>5. Cardinality(A \cup B) = Cardinality(A) + Cardinality(B) /\ IsFiniteSet(A \cup B)
  <2>1. /\ IsFiniteSet(A \cup B)
        /\ Cardinality(A \cup B) = Cardinality(A) + Cardinality(B) - Cardinality(A \cap B)
    BY <1>2, FS_Union
  <2>2. Cardinality(A \cap B) = 0
    BY <1>3, FS_EmptySet
  <2>3. Cardinality(A) \in Nat /\ Cardinality(B) \in Nat
    BY <1>2, FS_CardinalityType
  <2> QED BY <2>1, <2>2, <2>3
<1>6. Cardinality(S) = Cardinality(A \cup B) + 1
  BY <1>3, <1>4, <1>5, FS_AddElement
<1>7. Cardinality(A) \in Nat /\ Cardinality(B) \in Nat
  BY <1>2, FS_CardinalityType
<1>8. Cardinality(B) = i - 1
  BY <1>0, <1>1, <1>5, <1>6, <1>7 DEF A
<1> QED BY <1>8 DEF B

\* A key has its rank to itself.
LEMMA RankGrows ==
    ASSUME NEW S \in SUBSET Nat, IsFiniteSet(S), NEW x \in S, NEW y \in S, x < y
    PROVE  Cardinality(Beneath(S, x)) < Cardinality(Beneath(S, y))
<1> DEFINE A == Beneath(S, x) \cup {x}
<1>1. IsFiniteSet(Beneath(S, x)) /\ IsFiniteSet(Beneath(S, y)) /\ x \notin Beneath(S, x)
  BY FS_Subset DEF Beneath
<1>2. IsFiniteSet(A) /\ Cardinality(A) = Cardinality(Beneath(S, x)) + 1
  BY <1>1, FS_AddElement
<1>3. A \subseteq Beneath(S, y)
  <2>1. \A z \in S : z < x => z < y
    OBVIOUS
  <2> QED BY <2>1 DEF Beneath
<1>4. Cardinality(A) <= Cardinality(Beneath(S, y))
  <2> HIDE DEF A
  <2> QED BY <1>1, <1>3, FS_Subset
<1>5. Cardinality(Beneath(S, x)) \in Nat /\ Cardinality(Beneath(S, y)) \in Nat
  BY <1>1, FS_CardinalityType
<1> QED BY <1>2, <1>4, <1>5

\* Ascending lists exactly the keys of the set, in strictly ascending order.
LEMMA AscendingSorts ==
    ASSUME NEW S \in SUBSET Nat, IsFiniteSet(S)
    PROVE  /\ Ascending(S) \in Seq(S)
           /\ Len(Ascending(S)) = Cardinality(S)
           /\ \A i, j \in 1..Len(Ascending(S)) :
                  i < j => Ascending(S)[i] < Ascending(S)[j]
           /\ \A x \in S : \E i \in 1..Len(Ascending(S)) : Ascending(S)[i] = x
<1> DEFINE s == Ascending(S)
           c == Cardinality(S)
<1>0. c \in Nat
  BY FS_CardinalityType
<1>1. \A i \in 1..c : s[i] \in S /\ Cardinality(Beneath(S, s[i])) = i - 1
  <2> TAKE i \in 1..c
  <2>1. \E x \in S : Cardinality(Beneath(S, x)) = i - 1
    BY RankFromBelow
  <2>2. s[i] = CHOOSE x \in S : Cardinality(Beneath(S, x)) = i - 1
    BY DEF Ascending, Beneath
  <2> QED BY <2>1, <2>2
<1>2. s \in Seq(S) /\ Len(s) = c
  <2>1. s \in [1..c -> S]
    <3> DEFINE e(i) == CHOOSE x \in S : Cardinality({y \in S : y < x}) = i - 1
    <3>1. s = [i \in 1..c |-> e(i)]
      BY DEF Ascending
    <3> HIDE DEF s, c, e
    <3>2. \A i \in 1..c : e(i) \in S
      BY <3>1, <1>1
    <3> QED BY <3>1, <3>2
  <2> HIDE DEF s, c
  <2> QED BY <1>0, <2>1
<1>3. ASSUME NEW i \in 1..c, NEW j \in 1..c, i < j
      PROVE  s[i] < s[j]
  <2>0. s[i] \in S /\ s[j] \in S /\ s[i] \in Nat /\ s[j] \in Nat
    BY <1>1
  <2> HIDE DEF s, c
  <2>1. SUFFICES ASSUME s[j] <= s[i] PROVE FALSE
    BY <2>0
  <2>2. CASE s[j] = s[i]
    BY <1>0, <1>1, <1>3, <2>2
  <2>3. CASE s[j] < s[i]
    <3>1. Cardinality(Beneath(S, s[j])) < Cardinality(Beneath(S, s[i]))
      BY <2>0, <2>3, RankGrows
    <3> QED BY <1>0, <1>1, <1>3, <3>1
  <2> QED BY <2>0, <2>1, <2>2, <2>3
<1>4. ASSUME NEW x \in S
      PROVE  \E i \in 1..c : s[i] = x
  <2> DEFINE r == Cardinality(Beneath(S, x))
  <2>1. IsFiniteSet(Beneath(S, x)) /\ Beneath(S, x) \subseteq S /\ x \notin Beneath(S, x)
    BY FS_Subset DEF Beneath
  <2>2. r \in Nat /\ r <= c /\ (r = c => Beneath(S, x) = S)
    BY <2>1, FS_CardinalityType, FS_Subset
  <2>3. r + 1 \in 1..c
    BY <1>0, <2>1, <2>2
  <2>4. s[r + 1] \in S /\ Cardinality(Beneath(S, s[r + 1])) = r
    <3> HIDE DEF s, c, r
    <3> QED BY <1>1, <2>2, <2>3
  <2> HIDE DEF s, c
  <2>5. ~(s[r + 1] < x) /\ ~(x < s[r + 1])
    <3>1. s[r + 1] < x => r < r
      BY <2>4, RankGrows
    <3>2. x < s[r + 1] => r < r
      BY <2>4, RankGrows
    <3> QED BY <2>2, <3>1, <3>2
  <2>6. s[r + 1] = x
    <3>1. s[r + 1] \in Nat /\ x \in Nat
      BY <2>4
    <3> HIDE DEF r
    <3> QED BY <2>5, <3>1
  <2> QED BY <2>3, <2>6
<1> HIDE DEF s, c
<1>5. /\ \A i, j \in 1..Len(s) : i < j => s[i] < s[j]
      /\ \A x \in S : \E i \in 1..Len(s) : s[i] = x
  BY <1>2, <1>3, <1>4
<1> QED BY <1>2, <1>5 DEF s, c

-----------------------------------------------------------------------------
\* Overlaying and reading tables gives tables.
LEMMA OverlayType ==
    ASSUME NEW s \in Table, NEW t \in Table
    PROVE  Overlay(s, t) \in Table
BY DEF Overlay, Table

LEMMA LiveType ==
    ASSUME NEW t \in Table
    PROVE  Live(t) \in Table
BY DEF Live, Table

LEMMA EmptyTableType == EmptyTable \in Table
BY DEF EmptyTable, Table

\* Merging tables that exist gives a table.
LEMMA MergeType ==
    ASSUME NEW fs, fs \in [DOMAIN fs -> Table],
           NEW ids \in Seq(Nat),
           \A i \in 1..Len(ids) : ids[i] \in DOMAIN fs
    PROVE  Merge(fs, ids) \in Table
<1>1. ASSUME NEW k \in Keys
      PROVE  Merge(fs, ids)[k] \in Entry \cup {Absent}
  <2> DEFINE h == Holding(fs, ids, k)
  <2>1. Merge(fs, ids)[k] = IF h = {} THEN Absent ELSE fs[ids[Min(h)]][k]
    BY DEF Merge
  <2>2. h \in SUBSET (1..Len(ids)) /\ h \in SUBSET Nat
    BY DEF Holding
  <2>3. CASE h = {}
    BY <2>1, <2>3
  <2>4. CASE h # {}
    <3>1. Min(h) \in 1..Len(ids)
      <4> HIDE DEF h
      <4> QED BY <2>2, <2>4, MinOfNats
    <3>2. fs[ids[Min(h)]] \in Table
      BY <3>1
    <3>3. fs[ids[Min(h)]][k] \in Entry \cup {Absent}
      BY <3>2 DEF Table
    <3> QED BY <2>1, <2>4, <3>3
  <2> QED BY <2>3, <2>4
<1> QED BY <1>1 DEF Merge, Table

-----------------------------------------------------------------------------
(***************************************************************************)
(* Footprints: what memtable_insert adds for an entry and takes off for    *)
(* the one it replaces adds up.                                            *)
(***************************************************************************)
Weights(t) == [k \in Keys |-> IF t[k] = Absent THEN 0 ELSE entry_footprint(k, t[k])]

LEMMA WeightsType ==
    ASSUME NEW t \in Table
    PROVE  Weights(t) \in [Keys -> Nat]
<1>1. ASSUME NEW k \in Keys, t[k] # Absent
      PROVE  entry_footprint(k, t[k]) \in Nat
  BY <1>1, BytesAssumption DEF entry_footprint, Table, Entry
<1> QED BY <1>1 DEF Weights

LEMMA FootprintIsSum ==
    ASSUME NEW t \in Table, NEW it, IsSum(it, Keys, Weights(t))
    PROVE  Footprint(t) = it[Keys]
<1> DEFINE K == KeysOf(t)
           Sums(f) == f = [s \in SUBSET K |->
                IF s = {} THEN 0
                ELSE entry_footprint(CHOOSE x \in s : TRUE, t[CHOOSE x \in s : TRUE])
                         + f[s \ {CHOOSE x \in s : TRUE}]]
           f == CHOOSE g : Sums(g)
           h == [s \in SUBSET K |-> it[s]]
<1>1. Footprint(t) = f[K]
  BY DEF Footprint, MapThenSumSet, MapThenFoldSet
<1>2. /\ K \in SUBSET Keys /\ IsFiniteSet(K)
      /\ \A k \in K : Weights(t)[k] = entry_footprint(k, t[k])
      /\ \A k \in Keys \ K : Weights(t)[k] = 0
  BY KeysAssumption, FS_Subset DEF KeysOf, Weights
<1>3. ASSUME NEW s \in SUBSET K, s # {}
      PROVE  it[s] = entry_footprint(CHOOSE x \in s : TRUE, t[CHOOSE x \in s : TRUE])
                         + it[s \ {CHOOSE x \in s : TRUE}]
  <2> DEFINE c == CHOOSE x \in s : TRUE
  <2>1. c \in s /\ s \in SUBSET Keys
    BY <1>2, <1>3
  <2>2. it[s] = Weights(t)[c] + it[s \ {c}]
    BY <1>3, <2>1 DEF IsSum
  <2> HIDE DEF c
  <2>3. Weights(t)[c] = entry_footprint(c, t[c])
    BY <1>2, <2>1
  <2>4. it[s] = entry_footprint(c, t[c]) + it[s \ {c}]
    BY <2>2, <2>3
  <2> QED BY <2>4 DEF c
<1>4. it[{}] = 0
  BY DEF IsSum
<1> HIDE DEF K
<1>5. Sums(h)
  <2>1. \A s \in SUBSET K : s # {} => s \ {CHOOSE x \in s : TRUE} \in SUBSET K
    OBVIOUS
  <2> QED BY <1>3, <1>4, <2>1
<1>6. Sums(f)
  <2> HIDE DEF Sums
  <2> QED BY <1>5
<1>7. f[K] = it[K]
  <2> HIDE DEF f, h
  <2> DEFINE B == {s \in SUBSET K : f[s] # it[s]}
  <2>1. B = {}
    <3>1. SUFFICES ASSUME B # {} PROVE FALSE
      OBVIOUS
    <3>2. PICK s \in B : \A x \in s : s \ {x} \notin B
      <4>1. B \in SUBSET (SUBSET K)
        OBVIOUS
      <4> HIDE DEF B
      <4> QED BY <1>2, <3>1, <4>1, SmallestSubset
    <3>3. s # {} /\ s \in SUBSET K /\ f[s] # it[s]
      BY <1>4, <1>6, <3>2
    <3> DEFINE c == CHOOSE x \in s : TRUE
    <3>4. f[s] = entry_footprint(c, t[c]) + f[s \ {c}]
      BY <1>6, <3>3
    <3>5. it[s] = entry_footprint(c, t[c]) + it[s \ {c}]
      BY <1>3, <3>3
    <3>6. c \in s
      BY <3>3
    <3> HIDE DEF c
    <3>7. f[s \ {c}] = it[s \ {c}]
      BY <3>2, <3>3, <3>6
    <3> QED BY <3>3, <3>4, <3>5, <3>7
  <2> QED BY <2>1
<1>8. it[Keys] = it[K]
  BY <1>2, KeysAssumption, WeightsType, SumOfPart
<1> QED BY <1>1, <1>7, <1>8

LEMMA FootprintType ==
    ASSUME NEW t \in Table
    PROVE  Footprint(t) \in Nat
<1>1. PICK it : IsSum(it, Keys, Weights(t))
  BY KeysAssumption, WeightsType, SumExists
<1> QED BY <1>1, FootprintIsSum DEF IsSum

LEMMA FootprintEmpty == Footprint(EmptyTable) = 0
<1>1. EmptyTable \in Table
  BY DEF EmptyTable, Table
<1>2. PICK it : IsSum(it, Keys, Weights(EmptyTable))
  BY <1>1, KeysAssumption, WeightsType, SumExists
<1>3. \A k \in Keys \ {} : Weights(EmptyTable)[k] = 0
  BY DEF Weights, EmptyTable
<1>4. it[Keys] = it[{}]
  <2>1. {} \in SUBSET Keys /\ IsFiniteSet(Keys)
    BY KeysAssumption
  <2>2. Weights(EmptyTable) \in [Keys -> Nat]
    BY <1>1, WeightsType
  <2> QED BY <1>2, <1>3, <2>1, <2>2, SumOfPart
<1> QED BY <1>1, <1>2, <1>4, FootprintIsSum DEF IsSum

\* A batch replaces the entries of its keys.
LEMMA FootprintOverlay ==
    ASSUME NEW t \in Table, NEW p \in Table, NEW r \in Table,
           r = [k \in Keys |-> IF p[k] = Absent THEN Absent ELSE t[k]]
    PROVE  /\ Overlay(t, p) \in Table
           /\ Footprint(Overlay(t, p)) + Footprint(r) = Footprint(t) + Footprint(p)
<1> DEFINE o == Overlay(t, p)
<1>1. o \in Table
  BY DEF Overlay, Table
<1>2. \A k \in Keys : Weights(o)[k] + Weights(r)[k] = Weights(t)[k] + Weights(p)[k]
  <2>1. \A k \in Keys : o[k] = IF p[k] # Absent THEN p[k] ELSE t[k]
    BY DEF Overlay
  <2> HIDE DEF o
  <2> TAKE k \in Keys
  <2>2. Weights(t)[k] \in Nat /\ Weights(p)[k] \in Nat
    BY WeightsType
  <2> QED BY <2>1, <2>2 DEF Weights
<1> HIDE DEF o
<1>3. PICK io, ir, it, ip :
          /\ IsSum(io, Keys, Weights(o)) /\ IsSum(ir, Keys, Weights(r))
          /\ IsSum(it, Keys, Weights(t)) /\ IsSum(ip, Keys, Weights(p))
  <2>1. \A x \in Table : \E ix : IsSum(ix, Keys, Weights(x))
    BY KeysAssumption, WeightsType, SumExists
  <2> QED BY <1>1, <2>1
<1>4. io[Keys] + ir[Keys] = it[Keys] + ip[Keys]
  <2> DEFINE wo == Weights(o)
             wr == Weights(r)
             wt == Weights(t)
             wp == Weights(p)
  <2>1. IsFiniteSet(Keys)
    BY KeysAssumption
  <2>2. /\ wo \in [Keys -> Nat] /\ wr \in [Keys -> Nat]
        /\ wt \in [Keys -> Nat] /\ wp \in [Keys -> Nat]
    BY <1>1, WeightsType
  <2>3. /\ Balanced(Keys, wo, wr, wt, wp)
        /\ IsSum(io, Keys, wo) /\ IsSum(ir, Keys, wr)
        /\ IsSum(it, Keys, wt) /\ IsSum(ip, Keys, wp)
    BY <1>2, <1>3, <2>2 DEF Balanced
  <2> HIDE DEF wo, wr, wt, wp
  <2> QED BY <2>1, <2>3, SumsBalance
<1>5. /\ Footprint(o) = io[Keys] /\ Footprint(r) = ir[Keys]
      /\ Footprint(t) = it[Keys] /\ Footprint(p) = ip[Keys]
  BY <1>1, <1>3, FootprintIsSum
<1> QED BY <1>1, <1>4, <1>5 DEF o

=============================================================================
