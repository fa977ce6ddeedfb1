----------------------------- MODULE SetLemmas -----------------------------
(***************************************************************************)
(* Lemmas about finite sets of naturals, for the Min and Max by which the  *)
(* models choose the next key, the newest file or a free inode.            *)
(* Induction is by a least counterexample: a set of naturals that is not   *)
(* empty has a least element.                                              *)
(***************************************************************************)
EXTENDS FiniteSetsExt, FiniteSetTheorems, TLAPS

\* A nonempty set of naturals has a least element.
LEMMA NatMin ==
    ASSUME NEW S \in SUBSET Nat, S # {}
    PROVE  \E x \in S : \A y \in S : x <= y
<1> DEFINE R == OpToRel(<, Nat)
<1>1. IsWellFoundedOn(R, Nat)
  BY NatLessThanWellFounded
<1>2. PICK x \in S : \A y \in S : ~(<<y, x>> \in R)
  <2> HIDE DEF R
  <2> QED BY <1>1, WFMin
<1>3. \A y \in S : ~(y < x)
  BY <1>2, Zenon DEF OpToRel
<1> QED BY <1>3

\* A nonempty finite set of naturals has a greatest element.
LEMMA FiniteMax ==
    ASSUME NEW S \in SUBSET Nat, IsFiniteSet(S), S # {}
    PROVE  \E x \in S : \A y \in S : x >= y
<1> DEFINE HasMax(T) == \E x \in T : \A y \in T : x >= y
           Bad == {n \in Nat : \E T \in SUBSET Nat :
                       IsFiniteSet(T) /\ T # {} /\ Cardinality(T) = n /\ ~HasMax(T)}
<1>1. SUFFICES ASSUME ~HasMax(S) PROVE FALSE
  OBVIOUS
<1>2. Bad # {}
  BY <1>1, FS_CardinalityType
<1>3. PICK n \in Bad : \A m \in Bad : n <= m
  <2> HIDE DEF Bad
  <2>1. Bad \in SUBSET Nat
    BY DEF Bad
  <2> QED BY <1>2, <2>1, NatMin
<1>4. PICK T \in SUBSET Nat :
          IsFiniteSet(T) /\ T # {} /\ Cardinality(T) = n /\ ~HasMax(T)
  BY <1>3
<1>5. PICK x \in T : TRUE
  BY <1>4
<1>6. IsFiniteSet(T \ {x}) /\ Cardinality(T \ {x}) = n - 1 /\ n \in Nat
  BY <1>4, <1>5, FS_RemoveElement, FS_CardinalityType
<1>7. T \ {x} # {}
  <2>1. SUFFICES ASSUME T = {x} PROVE FALSE
    BY <1>5
  <2>2. HasMax(T)
    BY <2>1
  <2> QED BY <2>2, <1>4
<1>8. HasMax(T \ {x})
  <2>1. SUFFICES ASSUME ~HasMax(T \ {x}) PROVE FALSE
    OBVIOUS
  <2>2. n - 1 \in Nat
    BY <1>6, FS_CardinalityType
  <2>3. n - 1 \in Bad
    <3> HIDE DEF HasMax
    <3> QED BY <1>4, <1>6, <1>7, <2>1, <2>2
  <2>4. n <= n - 1
    BY <1>3, <2>3
  <2> QED BY <2>4, <1>6
<1>9. PICK m \in T \ {x} : \A y \in T \ {x} : m >= y
  BY <1>8
<1>10. HasMax(T)
  <2>1. CASE m >= x
    BY <1>9, <2>1
  <2>2. CASE x > m
    BY <1>5, <1>9, <2>2
  <2> QED BY <2>1, <2>2, <1>4, <1>5, <1>9
<1> QED BY <1>10, <1>4

\* What Max chooses in a finite set of naturals.
LEMMA MaxOfFinite ==
    ASSUME NEW S \in SUBSET Nat, IsFiniteSet(S), S # {}
    PROVE  Max(S) \in S /\ \A y \in S : Max(S) >= y
BY FiniteMax DEF Max

\* What Max chooses in a bounded set of naturals.
LEMMA MaxOfBounded ==
    ASSUME NEW S \in SUBSET Nat, NEW n \in Nat, \A x \in S : x <= n, S # {}
    PROVE  Max(S) \in S /\ \A y \in S : Max(S) >= y
BY MaxOfFinite, FS_BoundedSetOfNaturals

\* What Min chooses in a set of naturals.
LEMMA MinOfNats ==
    ASSUME NEW S \in SUBSET Nat, S # {}
    PROVE  Min(S) \in S /\ \A y \in S : Min(S) <= y
BY NatMin DEF Min

-----------------------------------------------------------------------------
(***************************************************************************)
(* Recursion over the subsets of a finite set, as the folds of the         *)
(* community modules have it.  pick chooses the element that goes first and *)
(* step combines it with the result for the rest.                          *)
(***************************************************************************)
IsFold(it, X, base, pick, step) ==
    \A s \in X : it[s] = IF s = {} THEN base
                                   ELSE step[<<pick[s], it[s \ {pick[s]}]>>]

LEMMA FoldExists ==
    ASSUME NEW S, IsFiniteSet(S), NEW D, NEW base \in D,
           NEW pick, \A s \in SUBSET S : s # {} => pick[s] \in s,
           NEW step \in [S \X D -> D]
    PROVE  \E it \in [SUBSET S -> D] : IsFold(it, SUBSET S, base, pick, step)
<1> DEFINE Small(n) == {s \in SUBSET S : Cardinality(s) <= n}
           Good(n) == \E it \in [Small(n) -> D] : IsFold(it, Small(n), base, pick, step)
           Bad == {n \in Nat : ~Good(n)}
<1>1. \A s \in SUBSET S : IsFiniteSet(s) /\ Cardinality(s) \in 0..Cardinality(S)
  BY FS_Subset, FS_CardinalityType
<1>2. Cardinality(S) \in Nat
  BY FS_CardinalityType
<1>3. \A n \in Nat : \A s \in Small(n) : s # {} => 
          /\ pick[s] \in S /\ n # 0
          /\ s \ {pick[s]} \in Small(n - 1) /\ s \ {pick[s]} \in Small(n)
  <2> TAKE n \in Nat
  <2> TAKE s \in Small(n)
  <2> HAVE s # {}
  <2>1. pick[s] \in s /\ IsFiniteSet(s) /\ Cardinality(s) \in Nat /\ Cardinality(s) # 0
    BY <1>1, FS_EmptySet
  <2>2. Cardinality(s \ {pick[s]}) = Cardinality(s) - 1
    BY <2>1, FS_RemoveElement
  <2> QED BY <2>1, <2>2
<1>4. Bad = {}
  <2>1. SUFFICES ASSUME Bad # {} PROVE FALSE
    OBVIOUS
  <2>2. PICK n \in Bad : \A m \in Bad : n <= m
    <3>1. Bad \in SUBSET Nat
      OBVIOUS
    <3> HIDE DEF Bad
    <3> QED BY <2>1, <3>1, NatMin
  <2>3. PICK g : n # 0 => g \in [Small(n - 1) -> D]
                          /\ IsFold(g, Small(n - 1), base, pick, step)
    <3>1. n # 0 => n - 1 \in Nat /\ ~(n <= n - 1)
      OBVIOUS
    <3>2. n # 0 => Good(n - 1)
      <4> HIDE DEF Good
      <4> QED BY <2>2, <3>1
    <3> QED BY <3>2
  <2> DEFINE h == [s \in Small(n) |-> IF s = {} THEN base
                       ELSE step[<<pick[s], g[s \ {pick[s]}]>>]]
  <2>4. \A s \in Small(n) : s # {} =>
            /\ n # 0 /\ s \ {pick[s]} \in Small(n - 1) /\ s \ {pick[s]} \in Small(n)
            /\ pick[s] \in S /\ g[s \ {pick[s]}] \in D
    <3> HIDE DEF Small
    <3> QED BY <1>3, <2>3
  <2>5. h \in [Small(n) -> D]
    <3> HIDE DEF Small
    <3> QED BY <2>4
  <2>6. \A s \in Small(n) : s # {} => h[s \ {pick[s]}] = g[s \ {pick[s]}]
    <3> HIDE DEF Small
    <3> QED BY <2>3, <2>4 DEF IsFold
  <2>7. IsFold(h, Small(n), base, pick, step)
    <3> HIDE DEF Small
    <3> QED BY <2>6 DEF IsFold
  <2> QED
    <3> HIDE DEF Small, h
    <3> QED BY <2>2, <2>5, <2>7
<1>5. Good(Cardinality(S))
  <2> HIDE DEF Good
  <2> QED BY <1>2, <1>4
<1>6. Small(Cardinality(S)) = SUBSET S
  BY <1>1, <1>2
<1> HIDE DEF Small
<1> QED BY <1>5, <1>6

-----------------------------------------------------------------------------
(***************************************************************************)
(* Sums.  it[s] is the sum of the weights w of the elements of s, taken in *)
(* the order in which MapThenSumSet takes them.                            *)
(***************************************************************************)
IsSum(it, S, w) ==
    /\ it \in [SUBSET S -> Nat]
    /\ \A s \in SUBSET S :
           it[s] = IF s = {} THEN 0
                   ELSE w[CHOOSE x \in s : TRUE] + it[s \ {CHOOSE x \in s : TRUE}]

LEMMA SumExists ==
    ASSUME NEW S, IsFiniteSet(S), NEW w \in [S -> Nat]
    PROVE  \E it : IsSum(it, S, w)
<1> DEFINE pick == [s \in SUBSET S |-> CHOOSE x \in s : TRUE]
           step == [p \in S \X Nat |-> w[p[1]] + p[2]]
<1>1. \A s \in SUBSET S : s # {} => pick[s] \in s
  OBVIOUS
<1>2. step \in [S \X Nat -> Nat]
  OBVIOUS
<1>3. 0 \in Nat
  OBVIOUS
<1>4. PICK it \in [SUBSET S -> Nat] : IsFold(it, SUBSET S, 0, pick, step)
  <2> HIDE DEF pick, step
  <2> QED BY <1>1, <1>2, <1>3, FoldExists
<1>5. ASSUME NEW s \in SUBSET S, s # {}
      PROVE  it[s] = w[CHOOSE x \in s : TRUE] + it[s \ {CHOOSE x \in s : TRUE}]
  <2> DEFINE c == CHOOSE x \in s : TRUE
  <2>1. c \in s /\ pick[s] = c /\ s \ {c} \in SUBSET S
    BY <1>5
  <2> HIDE DEF c
  <2>2. it[s \ {c}] \in Nat /\ it[s] = step[<<c, it[s \ {c}]>>]
    BY <1>4, <1>5, <2>1 DEF IsFold
  <2>3. it[s] = w[c] + it[s \ {c}]
    BY <2>1, <2>2
  <2> QED BY <2>3 DEF c
<1>6. it[{}] = 0
  BY <1>4 DEF IsFold
<1> QED BY <1>4, <1>5, <1>6 DEF IsSum

\* The induction behind the lemmas on sums: in a set of subsets that is not
\* empty some s is smallest, so that the subsets without an element of s are not
\* in it.
LEMMA SmallestSubset ==
    ASSUME NEW S, IsFiniteSet(S), NEW B \in SUBSET (SUBSET S), B # {}
    PROVE  \E s \in B : \A x \in s : s \ {x} \notin B
<1> DEFINE N == {Cardinality(s) : s \in B}
<1>1. \A s \in B : IsFiniteSet(s) /\ Cardinality(s) \in Nat
  BY FS_Subset, FS_CardinalityType
<1>2. N \in SUBSET Nat /\ N # {}
  BY <1>1
<1>3. PICK n \in N : \A m \in N : n <= m
  <2> HIDE DEF N
  <2> QED BY <1>2, NatMin
<1>4. PICK s \in B : Cardinality(s) = n
  BY <1>3
<1>5. ASSUME NEW x \in s, s \ {x} \in B PROVE FALSE
  <2>1. Cardinality(s \ {x}) = Cardinality(s) - 1
    BY <1>1, <1>4, FS_RemoveElement
  <2>2. n <= Cardinality(s \ {x})
    BY <1>3, <1>5
  <2> QED BY <1>1, <1>4, <1>5, <2>1, <2>2
<1> QED BY <1>4, <1>5

\* Any element may come first.
LEMMA SumWithout ==
    ASSUME NEW S, IsFiniteSet(S), NEW w \in [S -> Nat], NEW it, IsSum(it, S, w),
           NEW t \in SUBSET S, NEW y \in t
    PROVE  it[t] = w[y] + it[t \ {y}]
<1> DEFINE B == {s \in SUBSET S : \E x \in s : it[s] # w[x] + it[s \ {x}]}
<1>1. B = {}
  <2>1. SUFFICES ASSUME B # {} PROVE FALSE
    OBVIOUS
  <2>2. PICK s \in B : \A x \in s : s \ {x} \notin B
    <3>1. B \in SUBSET (SUBSET S)
      OBVIOUS
    <3> HIDE DEF B
    <3> QED BY <2>1, <3>1, SmallestSubset
  <2>3. PICK x \in s : it[s] # w[x] + it[s \ {x}]
    OBVIOUS
  <2> DEFINE c == CHOOSE z \in s : TRUE
  <2>4. c \in s /\ it[s] = w[c] + it[s \ {c}]
    BY <2>3 DEF IsSum
  <2> HIDE DEF c
  <2>5. c # x
    BY <2>3, <2>4
  <2>6. it[s \ {c}] = w[x] + it[(s \ {c}) \ {x}]
    BY <2>2, <2>3, <2>4, <2>5
  <2>7. it[s \ {x}] = w[c] + it[(s \ {x}) \ {c}]
    BY <2>2, <2>3, <2>4, <2>5
  <2>8. (s \ {x}) \ {c} = (s \ {c}) \ {x}
    OBVIOUS
  <2>9. /\ w[c] \in Nat /\ w[x] \in Nat /\ it[(s \ {c}) \ {x}] \in Nat
    BY <2>2, <2>3, <2>4 DEF IsSum
  <2> DEFINE r == it[(s \ {c}) \ {x}]
  <2>10. it[s] = w[c] + (w[x] + r) /\ it[s \ {x}] = w[c] + r
    BY <2>4, <2>6, <2>7, <2>8
  <2> HIDE DEF r
  <2>11. r \in Nat
    BY <2>9 DEF r
  <2> QED BY <2>3, <2>9, <2>10, <2>11
<1> QED BY <1>1

\* Elements that weigh nothing may be left out.
LEMMA SumOfPart ==
    ASSUME NEW S, IsFiniteSet(S), NEW w \in [S -> Nat], NEW it, IsSum(it, S, w),
           NEW T \in SUBSET S, \A x \in S \ T : w[x] = 0
    PROVE  it[S] = it[T]
<1> DEFINE B == {s \in SUBSET S : it[s] # it[s \cap T]}
<1>1. B = {}
  <2>1. SUFFICES ASSUME B # {} PROVE FALSE
    OBVIOUS
  <2>2. PICK s \in B : \A x \in s : s \ {x} \notin B
    <3>1. B \in SUBSET (SUBSET S)
      OBVIOUS
    <3> HIDE DEF B
    <3> QED BY <2>1, <3>1, SmallestSubset
  <2>3. PICK x \in s : x \notin T
    BY <2>2
  <2>4. it[s] = w[x] + it[s \ {x}] /\ w[x] = 0
    BY <2>2, <2>3, SumWithout
  <2>5. it[s \ {x}] = it[s \cap T]
    <3>1. (s \ {x}) \cap T = s \cap T
      BY <2>3
    <3> QED BY <2>2, <2>3, <3>1
  <2>6. it[s \ {x}] \in Nat
    BY <2>2 DEF IsSum
  <2> QED BY <2>2, <2>4, <2>5, <2>6
<1>2. S \cap T = T
  OBVIOUS
<1> QED BY <1>1, <1>2

\* A balance of weights is a balance of sums.
Balanced(S, a, b, c, d) ==
    /\ {a, b, c, d} \subseteq [S -> Nat]
    /\ \A x \in S : a[x] + b[x] = c[x] + d[x]

LEMMA SumsBalance ==
    ASSUME NEW S, IsFiniteSet(S), NEW a, NEW b, NEW c, NEW d,
           Balanced(S, a, b, c, d),
           NEW ia, NEW ib, NEW ic, NEW id,
           IsSum(ia, S, a), IsSum(ib, S, b), IsSum(ic, S, c), IsSum(id, S, d)
    PROVE  ia[S] + ib[S] = ic[S] + id[S]
<1>0. /\ a \in [S -> Nat] /\ b \in [S -> Nat] /\ c \in [S -> Nat] /\ d \in [S -> Nat]
      /\ \A x \in S : a[x] + b[x] = c[x] + d[x]
  BY DEF Balanced
<1> DEFINE B == {s \in SUBSET S : ia[s] + ib[s] # ic[s] + id[s]}
<1>1. B = {}
  <2>1. SUFFICES ASSUME B # {} PROVE FALSE
    OBVIOUS
  <2>2. PICK s \in B : \A x \in s : s \ {x} \notin B
    <3>1. B \in SUBSET (SUBSET S)
      OBVIOUS
    <3> HIDE DEF B
    <3> QED BY <2>1, <3>1, SmallestSubset
  <2>3. s # {}
    <3>1. ia[{}] = 0 /\ ib[{}] = 0 /\ ic[{}] = 0 /\ id[{}] = 0
      BY DEF IsSum
    <3> QED BY <2>2, <3>1
  <2>4. PICK x \in s : TRUE
    BY <2>3
  <2> DEFINE r == s \ {x}
  <2>5. /\ ia[s] = a[x] + ia[r] /\ ib[s] = b[x] + ib[r]
        /\ ic[s] = c[x] + ic[r] /\ id[s] = d[x] + id[r]
    <3>1. s \in SUBSET S
      BY <2>2
    <3> HIDE DEF B
    <3>2. \A w \in [S -> Nat] : \A it : IsSum(it, S, w) => it[s] = w[x] + it[r]
      BY <2>4, <3>1, SumWithout
    <3> QED BY <1>0, <3>2
  <2>6. ia[r] + ib[r] = ic[r] + id[r] /\ r \in SUBSET S /\ x \in S
    BY <2>2, <2>4
  <2> HIDE DEF r
  <2>7. /\ ia[r] \in Nat /\ ib[r] \in Nat /\ ic[r] \in Nat /\ id[r] \in Nat
        /\ a[x] \in Nat /\ b[x] \in Nat /\ c[x] \in Nat /\ d[x] \in Nat
    BY <1>0, <2>6 DEF IsSum
  <2>8. a[x] + b[x] = c[x] + d[x]
    BY <1>0, <2>6
  <2> QED BY <2>2, <2>5, <2>6, <2>7, <2>8
<1> QED BY <1>1

=============================================================================
