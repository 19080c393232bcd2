------------------------------ MODULE CacheProofs ------------------------------
(***************************************************************************)
(* Proofs about the LRU and the locked cache around it, for any keys,      *)
(* sizes, byte limit and scan limits, with and without deadlines.          *)
(***************************************************************************)
EXTENDS CacheHistory, FiniteSetTheorems, WellFoundedInduction, TLAPS

-----------------------------------------------------------------------------
(* Induction *)

\* A non-empty set of numbers has a least element.
LEMMA LeastExists ==
    ASSUME NEW S \in SUBSET Nat, S # {}
    PROVE  \E x \in S : \A y \in S : x <= y
<1> DEFINE Less == {p \in Nat \X Nat : p[1] < p[2]}
<1>1. IsWellFoundedOn(Less, Nat)
  BY NatLessThanWellFounded DEF OpToRel
<1>2. \E x \in S : \A y \in S : ~(<<y, x>> \in Less)
  <2> HIDE DEF Less
  <2> QED
    BY <1>1, WFMin, Zenon
<1>3. PICK x \in S : \A y \in S : ~(<<y, x>> \in Less)
  BY <1>2
<1>4. ASSUME NEW y \in S
      PROVE  x <= y
  <2>1. ~(<<y, x>> \in Less)
    BY <1>3
  <2>2. x \in Nat /\ y \in Nat
    OBVIOUS
  <2> QED
    BY <2>1, <2>2
<1> QED
  BY <1>4

\* Its least element is the one that Min chooses.
LEMMA MinIsLeast ==
    ASSUME NEW S \in SUBSET Nat, S # {}
    PROVE  Min(S) \in S /\ \A y \in S : Min(S) <= y
BY LeastExists DEF Min

\* A set with 0 and the successor of each of its members has all numbers.
LEMMA InductionOnNat ==
    ASSUME NEW P, 0 \in P, \A n \in Nat : n \in P => n + 1 \in P
    PROVE  \A n \in Nat : n \in P
<1> SUFFICES ASSUME NEW m \in Nat, m \notin P
             PROVE  FALSE
  OBVIOUS
<1>1. PICK n \in Nat \ P : \A k \in Nat \ P : n <= k
  BY LeastExists
<1>2. n # 0
  BY <1>1
<1>3. n - 1 \in Nat /\ n - 1 \in P
  BY <1>1, <1>2
<1> QED
  BY <1>1, <1>3

\* If a property of a set follows from that of all sets with one element less, every
\* subset of a finite set has it.
LEMMA InductionOnSubsets ==
    ASSUME NEW S, IsFiniteSet(S), NEW P,
           \A T \in SUBSET S : (\A x \in T : T \ {x} \in P) => T \in P
    PROVE  \A T \in SUBSET S : T \in P
<1> DEFINE bad == {n \in Nat : \E T \in SUBSET S : T \notin P /\ Cardinality(T) = n}
<1> SUFFICES ASSUME NEW T \in SUBSET S, T \notin P
             PROVE  FALSE
  OBVIOUS
<1>1. \A U \in SUBSET S : IsFiniteSet(U) /\ Cardinality(U) \in Nat
  BY FS_Subset, FS_CardinalityType
<1>2. Cardinality(T) \in bad
  BY <1>1
<1>3. PICK n \in bad : \A k \in bad : n <= k
  <2> HIDE DEF bad
  <2>1. bad \in SUBSET Nat
    BY DEF bad
  <2> QED
    BY <1>2, <2>1, LeastExists
<1>4. PICK U \in SUBSET S : U \notin P /\ Cardinality(U) = n
  BY <1>3
<1>5. PICK x \in U : U \ {x} \notin P
  BY <1>4
<1>6. Cardinality(U \ {x}) = n - 1 /\ n \in Nat
  BY <1>1, <1>4, FS_RemoveElement
<1>7. U \ {x} \in SUBSET S
  OBVIOUS
<1>8. n - 1 \in bad
  BY <1>1, <1>5, <1>6, <1>7
<1> QED
  BY <1>3, <1>6, <1>8

-----------------------------------------------------------------------------
(* Sums over sets *)

SumOf(size, R) == MapThenSumSet(LAMBDA k : size[k], R)

\* One step of the sum over s, if sum has those over smaller sets.
Added(size, sum, s) ==
    IF s = {} THEN 0
    ELSE size[CHOOSE x \in s : TRUE] + sum[s \ {CHOOSE x \in s : TRUE}]

\* There is a table of the sums over all subsets.
LEMMA SumsExist ==
    ASSUME NEW S, IsFiniteSet(S), NEW size, \A x \in S : size[x] \in Int
    PROVE  \E sum \in [SUBSET S -> Int] : \A s \in SUBSET S : sum[s] = Added(size, sum, s)
<1> DEFINE Small(n) == {s \in SUBSET S : Cardinality(s) <= n}
           Table(n) == \E sum \in [Small(n) -> Int] :
                          \A s \in Small(n) : sum[s] = Added(size, sum, s)
           P == {n \in Nat : Table(n)}
<1>1. \A U \in SUBSET S : IsFiniteSet(U) /\ Cardinality(U) \in Nat
  BY FS_Subset, FS_CardinalityType
<1>2. 0 \in P
  <2>1. \A s \in Small(0) : s = {}
    BY <1>1, FS_EmptySet
  <2>2. [s \in Small(0) |-> 0] \in [Small(0) -> Int]
    OBVIOUS
  <2>3. \A s \in Small(0) : [t \in Small(0) |-> 0][s]
                            = Added(size, [t \in Small(0) |-> 0], s)
    BY <2>1 DEF Added
  <2> HIDE DEF Small
  <2> QED
    BY <2>2, <2>3
<1>3. ASSUME NEW n \in Nat, n \in P
      PROVE  n + 1 \in P
  <2>1. PICK sum \in [Small(n) -> Int] : \A s \in Small(n) : sum[s] = Added(size, sum, s)
    BY <1>3
  <2> DEFINE new == [s \in Small(n + 1) |-> Added(size, sum, s)]
             pick(s) == CHOOSE x \in s : TRUE
  <2>2. Small(n) \subseteq Small(n + 1)
    BY <1>1
  <2>3. ASSUME NEW s \in Small(n + 1), s # {}
        PROVE  pick(s) \in s /\ pick(s) \in S /\ s \ {pick(s)} \in Small(n)
    <3>1. pick(s) \in s
      BY <2>3
    <3>2. s \in SUBSET S /\ Cardinality(s) <= n + 1 /\ s \ {pick(s)} \in SUBSET S
      OBVIOUS
    <3>3. Cardinality(s \ {pick(s)}) = Cardinality(s) - 1
      BY <1>1, <3>1, <3>2, FS_RemoveElement
    <3> HIDE DEF pick
    <3> QED
      BY <1>1, <3>1, <3>2, <3>3
  <2>4. new \in [Small(n + 1) -> Int]
    <3> SUFFICES ASSUME NEW s \in Small(n + 1)
                 PROVE  Added(size, sum, s) \in Int
      OBVIOUS
    <3> HIDE DEF Small
    <3> QED
      BY <2>3 DEF Added
  <2>5. \A s \in Small(n + 1) : s # {} => new[s \ {pick(s)}] = sum[s \ {pick(s)}]
    <3> HIDE DEF Small, pick
    <3> QED
      BY <2>1, <2>2, <2>3
  <2>6. \A s \in Small(n + 1) : new[s] = Added(size, new, s)
    <3> SUFFICES ASSUME NEW s \in Small(n + 1)
                 PROVE  Added(size, sum, s) = Added(size, new, s)
      OBVIOUS
    <3> HIDE DEF Small, new
    <3> QED
      BY <2>5 DEF Added
  <2> HIDE DEF Small, new
  <2> QED
    BY <2>4, <2>6
<1>4. Table(Cardinality(S))
  <2> HIDE DEF Table
  <2>1. Cardinality(S) \in P
    <3> HIDE DEF P
    <3> QED
      BY <1>1, <1>2, <1>3, InductionOnNat
  <2> QED
    BY <2>1
<1>5. Small(Cardinality(S)) = SUBSET S
  BY <1>1, FS_Subset
<1> HIDE DEF Small
<1> QED
  BY <1>4, <1>5

\* The sum is the entry of that table.
LEMMA SumIsTabled ==
    ASSUME NEW S, IsFiniteSet(S), NEW size, \A x \in S : size[x] \in Int
    PROVE  \E sum \in [SUBSET S -> Int] :
              /\ \A s \in SUBSET S : sum[s] = Added(size, sum, s)
              /\ SumOf(size, S) = sum[S]
<1> DEFINE table == CHOOSE sum : sum = [s \in SUBSET S |->
                       IF s = {} THEN 0
                       ELSE size[CHOOSE x \in s : TRUE] + sum[s \ {CHOOSE x \in s : TRUE}]]
<1>1. SumOf(size, S) = table[S]
  BY Zenon DEF SumOf, MapThenSumSet, MapThenFoldSet
<1>2. PICK sum \in [SUBSET S -> Int] : \A s \in SUBSET S : sum[s] = Added(size, sum, s)
  BY SumsExist
<1>3. sum = [s \in SUBSET S |-> IF s = {} THEN 0
                ELSE size[CHOOSE x \in s : TRUE] + sum[s \ {CHOOSE x \in s : TRUE}]]
  BY <1>2 DEF Added
<1>4. table = [s \in SUBSET S |-> IF s = {} THEN 0
                 ELSE size[CHOOSE x \in s : TRUE] + table[s \ {CHOOSE x \in s : TRUE}]]
  BY <1>3, Zenon
<1> HIDE DEF table
<1>5. \A s \in SUBSET S : table[s] = Added(size, table, s)
  BY <1>4 DEF Added
<1>6. DOMAIN table = SUBSET S
  BY <1>4
<1>7. table \in [SUBSET S -> Int]
  <2> DEFINE P == {T \in SUBSET S : table[T] \in Int}
  <2>1. ASSUME NEW T \in SUBSET S, \A x \in T : T \ {x} \in P
        PROVE  T \in P
    <3>1. CASE T = {}
      <4>1. table[T] = 0
        BY <1>5, <3>1 DEF Added
      <4> QED
        BY <4>1
    <3>2. CASE T # {}
      <4>1. PICK x \in T : x = CHOOSE y \in T : TRUE
        BY <3>2
      <4>2. table[T] = size[x] + table[T \ {x}] /\ table[T \ {x}] \in Int
        BY <1>5, <2>1, <3>2, <4>1 DEF Added
      <4> QED
        BY <4>2
    <3> QED
      BY <3>1, <3>2
  <2>2. \A T \in SUBSET S : T \in P
    <3> HIDE DEF P
    <3> QED
      BY <2>1, InductionOnSubsets
  <2>3. table = [s \in SUBSET S |-> table[s]]
    BY <1>4, <1>5, Zenon DEF Added
  <2> QED
    BY <2>2, <2>3
<1> QED
  BY <1>1, <1>5, <1>7

\* The sum over nothing, and the step of its definition.
LEMMA SumStep ==
    ASSUME NEW S, IsFiniteSet(S), NEW size, \A x \in S : size[x] \in Int
    PROVE  /\ SumOf(size, S) \in Int
           /\ S = {} => SumOf(size, S) = 0
           /\ S # {} => \E x \in S : SumOf(size, S) = size[x] + SumOf(size, S \ {x})
<1>1. PICK sum \in [SUBSET S -> Int] :
             (\A s \in SUBSET S : sum[s] = Added(size, sum, s)) /\ SumOf(size, S) = sum[S]
  BY SumIsTabled
<1>2. ASSUME S # {}
      PROVE  \E x \in S : SumOf(size, S) = size[x] + SumOf(size, S \ {x})
  <2>1. PICK x \in S : x = CHOOSE y \in S : TRUE
    BY <1>2
  <2> DEFINE R == S \ {x}
  <2>2. IsFiniteSet(R) /\ \A y \in R : size[y] \in Int
    BY FS_RemoveElement
  <2>3. PICK rest \in [SUBSET R -> Int] :
               (\A s \in SUBSET R : rest[s] = Added(size, rest, s)) /\ SumOf(size, R) = rest[R]
    <3> HIDE DEF R
    <3> QED
      BY <2>2, SumIsTabled
  <2> DEFINE P == {T \in SUBSET R : rest[T] = sum[T]}
  <2>4. ASSUME NEW T \in SUBSET R, \A y \in T : T \ {y} \in P
        PROVE  T \in P
    <3>1. T \in SUBSET S
      OBVIOUS
    <3>2. CASE T = {}
      BY <1>1, <2>3, <3>1, <3>2 DEF Added
    <3>3. CASE T # {}
      <4>1. PICK y \in T : y = CHOOSE z \in T : TRUE
        BY <3>3
      <4>2. rest[T] = size[y] + rest[T \ {y}]
        BY <2>3, <3>3, <4>1 DEF Added
      <4>3. sum[T] = size[y] + sum[T \ {y}]
        BY <1>1, <3>1, <3>3, <4>1 DEF Added
      <4>4. rest[T \ {y}] = sum[T \ {y}]
        BY <2>4
      <4> QED
        BY <4>2, <4>3, <4>4
    <3> QED
      BY <3>2, <3>3
  <2>5. R \in P
    <3> HIDE DEF P, R
    <3> QED
      BY <2>2, <2>4, InductionOnSubsets
  <2>6. sum[S] = size[x] + sum[R]
    BY <1>1, <1>2, <2>1 DEF Added
  <2> QED
    BY <1>1, <2>3, <2>5, <2>6
<1>3. S = {} => SumOf(size, S) = 0
  BY <1>1 DEF Added
<1> QED
  BY <1>1, <1>2, <1>3

\* Any element may be taken out of a sum.
LEMMA SumPick ==
    ASSUME NEW S, IsFiniteSet(S), NEW size, \A x \in S : size[x] \in Int
    PROVE  \A x \in S : SumOf(size, S) = size[x] + SumOf(size, S \ {x})
<1> DEFINE P == {T \in SUBSET S : \A x \in T : SumOf(size, T) = size[x] + SumOf(size, T \ {x})}
<1>1. \A T \in SUBSET S :
         /\ IsFiniteSet(T)
         /\ \A x \in T : size[x] \in Int
         /\ SumOf(size, T) \in Int
         /\ T # {} => \E x \in T : SumOf(size, T) = size[x] + SumOf(size, T \ {x})
  BY SumStep, FS_Subset
<1>2. ASSUME NEW T \in SUBSET S, \A x \in T : T \ {x} \in P
      PROVE  T \in P
  <2> SUFFICES ASSUME NEW x \in T
               PROVE  SumOf(size, T) = size[x] + SumOf(size, T \ {x})
    OBVIOUS
  <2>1. PICK y \in T : SumOf(size, T) = size[y] + SumOf(size, T \ {y})
    BY <1>1
  <2>2. CASE x = y
    BY <2>1, <2>2
  <2>3. CASE x # y
    <3>1. SumOf(size, T \ {y}) = size[x] + SumOf(size, (T \ {y}) \ {x})
      BY <1>2, <2>3
    <3>2. SumOf(size, T \ {x}) = size[y] + SumOf(size, (T \ {x}) \ {y})
      BY <1>2, <2>3
    <3>3. (T \ {y}) \ {x} = (T \ {x}) \ {y}
      OBVIOUS
    <3>4. /\ size[x] \in Int /\ size[y] \in Int
          /\ SumOf(size, (T \ {x}) \ {y}) \in Int
      BY <1>1
    <3>5. SumOf(size, T) = size[x] + (size[y] + SumOf(size, (T \ {x}) \ {y}))
      <4>1. SumOf(size, (T \ {y}) \ {x}) = SumOf(size, (T \ {x}) \ {y})
        BY <3>3, Zenon
      <4>2. SumOf(size, T) = size[y] + (size[x] + SumOf(size, (T \ {x}) \ {y}))
        BY <2>1, <3>1, <4>1, Zenon
      <4> HIDE DEF P
      <4> QED
        BY <3>4, <4>2
    <3> HIDE DEF P
    <3> QED
      BY <3>2, <3>5
  <2> QED
    BY <2>2, <2>3
<1>3. \A T \in SUBSET S : T \in P
  <2> HIDE DEF P
  <2> QED
    BY <1>2, InductionOnSubsets
<1> QED
  BY <1>3

\* Sums of the same sizes are the same.
LEMMA SumSame ==
    ASSUME NEW S, IsFiniteSet(S), NEW size, \A x \in S : size[x] \in Int,
           NEW other, \A x \in S : other[x] = size[x]
    PROVE  SumOf(other, S) = SumOf(size, S)
<1> DEFINE P == {T \in SUBSET S : SumOf(other, T) = SumOf(size, T)}
<1>1. ASSUME NEW T \in SUBSET S, \A x \in T : T \ {x} \in P
      PROVE  T \in P
  <2>1. IsFiniteSet(T) /\ (\A x \in T : size[x] \in Int) /\ (\A x \in T : other[x] \in Int)
    BY FS_Subset
  <2>2. CASE T = {}
    <3>1. SumOf(other, T) = 0
      BY <2>1, <2>2, SumStep, Zenon
    <3>2. SumOf(size, T) = 0
      BY <2>1, <2>2, SumStep, Zenon
    <3> QED
      BY <3>1, <3>2
  <2>3. CASE T # {}
    <3>1. PICK x \in T : TRUE
      BY <2>3
    <3>2. SumOf(other, T) = other[x] + SumOf(other, T \ {x})
      BY <2>1, SumPick, Zenon
    <3>3. SumOf(size, T) = size[x] + SumOf(size, T \ {x})
      BY <2>1, SumPick, Zenon
    <3>4. SumOf(other, T \ {x}) = SumOf(size, T \ {x})
      BY <1>1
    <3> QED
      BY <3>2, <3>3, <3>4
  <2> QED
    BY <2>2, <2>3
<1>2. \A T \in SUBSET S : T \in P
  <2> HIDE DEF P
  <2> QED
    BY <1>1, InductionOnSubsets
<1> QED
  BY <1>2

\* A sum of natural numbers is one.
LEMMA SumIsNatural ==
    ASSUME NEW S, IsFiniteSet(S), NEW size, \A x \in S : size[x] \in Nat
    PROVE  SumOf(size, S) \in Nat
<1> DEFINE P == {T \in SUBSET S : SumOf(size, T) \in Nat}
<1>1. ASSUME NEW T \in SUBSET S, \A x \in T : T \ {x} \in P
      PROVE  T \in P
  <2>1. IsFiniteSet(T) /\ \A x \in T : size[x] \in Int
    BY FS_Subset
  <2>2. CASE T = {}
    <3>1. SumOf(size, T) = 0
      BY <2>1, <2>2, SumStep, Zenon
    <3> QED
      BY <3>1
  <2>3. CASE T # {}
    <3>1. PICK x \in T : TRUE
      BY <2>3
    <3>2. SumOf(size, T) = size[x] + SumOf(size, T \ {x})
      BY <2>1, SumPick, Zenon
    <3>3. SumOf(size, T \ {x}) \in Nat /\ size[x] \in Nat
      BY <1>1
    <3> QED
      BY <3>2, <3>3
  <2> QED
    BY <2>2, <2>3
<1>2. \A T \in SUBSET S : T \in P
  <2> HIDE DEF P
  <2> QED
    BY <1>1, InductionOnSubsets
<1> QED
  BY <1>2

\* Taking a subset out of a set takes its sum out of the sum.
LEMMA SumWithout ==
    ASSUME NEW S, IsFiniteSet(S), NEW size, \A x \in S : size[x] \in Int, NEW R \in SUBSET S
    PROVE  /\ SumOf(size, R) \in Int
           /\ SumOf(size, S) = SumOf(size, R) + SumOf(size, S \ R)
<1> DEFINE P == {T \in SUBSET S : SumOf(size, S) = SumOf(size, T) + SumOf(size, S \ T)}
<1>1. \A T \in SUBSET S :
         IsFiniteSet(T) /\ (\A x \in T : size[x] \in Int) /\ SumOf(size, T) \in Int
  BY SumStep, FS_Subset
<1>2. ASSUME NEW T \in SUBSET S, \A x \in T : T \ {x} \in P
      PROVE  T \in P
  <2>1. CASE T = {}
    <3>1. SumOf(size, T) = 0
      BY <1>1, <2>1, SumStep, Zenon
    <3>2. S \ T = S
      BY <2>1
    <3> QED
      BY <1>1, <3>1, <3>2
  <2>2. CASE T # {}
    <3>1. PICK x \in T : TRUE
      BY <2>2
    <3> DEFINE U == S \ (T \ {x})
    <3>2. SumOf(size, S) = SumOf(size, T \ {x}) + SumOf(size, U)
      BY <1>2
    <3>3. SumOf(size, T) = size[x] + SumOf(size, T \ {x})
      BY <1>1, SumPick, Zenon
    <3>4. SumOf(size, U) = size[x] + SumOf(size, U \ {x})
      <4>1. U \in SUBSET S /\ x \in U
        OBVIOUS
      <4> HIDE DEF U
      <4> QED
        BY <1>1, <4>1, SumPick, Zenon
    <3>5. U \ {x} = S \ T
      OBVIOUS
    <3>6. /\ size[x] \in Int /\ SumOf(size, T \ {x}) \in Int
          /\ SumOf(size, S \ T) \in Int
      BY <1>1
    <3>7. SumOf(size, S) = SumOf(size, T) + SumOf(size, S \ T)
      <4>1. SumOf(size, U) = size[x] + SumOf(size, S \ T)
        BY <3>4, <3>5, Zenon
      <4> HIDE DEF U, P
      <4> QED
        BY <3>2, <3>3, <4>1, <3>6
    <3> QED
      BY <3>7
  <2> QED
    BY <2>1, <2>2
<1>3. \A T \in SUBSET S : T \in P
  <2> HIDE DEF P
  <2> QED
    BY <1>2, InductionOnSubsets
<1> QED
  BY <1>1, <1>3

-----------------------------------------------------------------------------
(* Sequences *)

\* A set with the empty sequence that is closed under Append has every sequence.
LEMMA InductionOnSeq ==
    ASSUME NEW S, NEW P, <<>> \in P,
           \A s \in Seq(S), x \in S : s \in P => Append(s, x) \in P
    PROVE  \A s \in Seq(S) : s \in P
<1> DEFINE Q == {n \in Nat : \A s \in Seq(S) : Len(s) = n => s \in P}
<1>1. 0 \in Q
  <2>1. \A s \in Seq(S) : Len(s) = 0 => s = <<>>
    OBVIOUS
  <2> QED
    BY <2>1
<1>2. ASSUME NEW n \in Nat, n \in Q
      PROVE  n + 1 \in Q
  <2> SUFFICES ASSUME NEW s \in Seq(S), Len(s) = n + 1
               PROVE  s \in P
    OBVIOUS
  <2> DEFINE front == [i \in 1..n |-> s[i]]
  <2>1. front \in Seq(S) /\ Len(front) = n
    OBVIOUS
  <2>2. s[n + 1] \in S
    OBVIOUS
  <2>3. s = Append(front, s[n + 1])
    OBVIOUS
  <2>4. front \in P
    <3> HIDE DEF front
    <3> QED
      BY <1>2, <2>1
  <2> HIDE DEF front
  <2> QED
    BY <2>1, <2>2, <2>3, <2>4
<1>3. \A n \in Nat : n \in Q
  <2> HIDE DEF Q
  <2> QED
    BY <1>1, <1>2, InductionOnNat
<1> QED
  BY <1>3

\* Element n of the table that Remaining computes, from the one before.
Kept(s, R, rest, n) ==
    IF n = 0 THEN <<>>
    ELSE IF s[n] \in R THEN rest[n - 1] ELSE Append(rest[n - 1], s[n])

\* There is such a table.
LEMMA RestsExist ==
    ASSUME NEW S, NEW s \in Seq(S), NEW R
    PROVE  \E rest \in [0..Len(s) -> Seq(S)] :
              \A n \in 0..Len(s) : rest[n] = Kept(s, R, rest, n)
<1> DEFINE Table(m) == \E rest \in [0..m -> Seq(S)] : \A n \in 0..m : rest[n] = Kept(s, R, rest, n)
           P == {m \in Nat : m <= Len(s) => Table(m)}
<1>1. 0 \in P
  <2>1. [n \in 0..0 |-> <<>>] \in [0..0 -> Seq(S)]
    OBVIOUS
  <2>2. \A n \in 0..0 : [k \in 0..0 |-> <<>>][n] = Kept(s, R, [k \in 0..0 |-> <<>>], n)
    BY DEF Kept
  <2> QED
    BY <2>1, <2>2
<1>2. ASSUME NEW m \in Nat, m \in P
      PROVE  m + 1 \in P
  <2> SUFFICES ASSUME m + 1 <= Len(s)
               PROVE  Table(m + 1)
    <3> HIDE DEF Table
    <3> QED
      OBVIOUS
  <2>1. PICK rest \in [0..m -> Seq(S)] : \A n \in 0..m : rest[n] = Kept(s, R, rest, n)
    BY <1>2
  <2> DEFINE new == [n \in 0..m + 1 |-> Kept(s, R, rest, n)]
  <2>2. ASSUME NEW n \in 0..m + 1
        PROVE  Kept(s, R, rest, n) \in Seq(S)
    <3>1. n # 0 => s[n] \in S /\ rest[n - 1] \in Seq(S)
      BY <2>1
    <3>2. n # 0 => Append(rest[n - 1], s[n]) \in Seq(S)
      BY <3>1
    <3> QED
      BY <3>1, <3>2 DEF Kept
  <2>3. new \in [0..m + 1 -> Seq(S)]
    BY <2>2
  <2>4. \A n \in 0..m : new[n] = rest[n]
    BY <2>1
  <2>5. \A n \in 0..m + 1 : new[n] = Kept(s, R, new, n)
    <3> SUFFICES ASSUME NEW n \in 0..m + 1
                 PROVE  Kept(s, R, rest, n) = Kept(s, R, new, n)
      OBVIOUS
    <3>1. n # 0 => n - 1 \in 0..m
      OBVIOUS
    <3> HIDE DEF new
    <3>2. n # 0 => new[n - 1] = rest[n - 1]
      BY <2>4, <3>1
    <3> QED
      BY <3>2 DEF Kept
  <2> HIDE DEF new
  <2> QED
    BY <2>3, <2>5
<1>3. Len(s) \in P
  <2> HIDE DEF P
  <2>1. Len(s) \in Nat
    OBVIOUS
  <2> QED
    BY <1>1, <1>2, <2>1, InductionOnNat
<1> HIDE DEF Table
<1>4. Table(Len(s))
  BY <1>3
<1> QED
  BY <1>4 DEF Table

\* Remaining is the last entry of that table.
LEMMA RemainingIsTabled ==
    ASSUME NEW S, NEW s \in Seq(S), NEW R
    PROVE  \E rest \in [0..Len(s) -> Seq(S)] :
              /\ \A n \in 0..Len(s) : rest[n] = Kept(s, R, rest, n)
              /\ Remaining(s, R) = rest[Len(s)]
<1> DEFINE table == CHOOSE rest : rest = [n \in 0..Len(s) |->
                       IF n = 0 THEN <<>>
                       ELSE IF s[n] \in R THEN rest[n - 1] ELSE Append(rest[n - 1], s[n])]
<1>1. Remaining(s, R) = table[Len(s)]
  BY Zenon DEF Remaining
<1>2. PICK rest \in [0..Len(s) -> Seq(S)] : \A n \in 0..Len(s) : rest[n] = Kept(s, R, rest, n)
  BY RestsExist
<1>3. rest = [n \in 0..Len(s) |-> IF n = 0 THEN <<>>
                 ELSE IF s[n] \in R THEN rest[n - 1] ELSE Append(rest[n - 1], s[n])]
  BY <1>2 DEF Kept
<1>4. table = [n \in 0..Len(s) |-> IF n = 0 THEN <<>>
                 ELSE IF s[n] \in R THEN table[n - 1] ELSE Append(table[n - 1], s[n])]
  BY <1>3, Zenon
<1> HIDE DEF table
<1>5. \A n \in 0..Len(s) : table[n] = Kept(s, R, table, n)
  BY <1>4 DEF Kept
<1> DEFINE P == {n \in Nat : n <= Len(s) => table[n] = rest[n]}
<1>6. 0 \in P
  BY <1>2, <1>5 DEF Kept
<1>7. ASSUME NEW n \in Nat, n \in P
      PROVE  n + 1 \in P
  <2> SUFFICES ASSUME n + 1 <= Len(s)
               PROVE  table[n + 1] = rest[n + 1]
    OBVIOUS
  <2>1. table[n] = rest[n]
    BY <1>7
  <2>2. n + 1 \in 0..Len(s) /\ n + 1 # 0 /\ (n + 1) - 1 = n
    OBVIOUS
  <2>3. table[n + 1] = Kept(s, R, table, n + 1) /\ rest[n + 1] = Kept(s, R, rest, n + 1)
    BY <1>2, <1>5, <2>2
  <2> QED
    BY <2>1, <2>2, <2>3 DEF Kept
<1>8. \A n \in Nat : n \in P
  <2> HIDE DEF P
  <2> QED
    BY <1>6, <1>7, InductionOnNat
<1> QED
  BY <1>1, <1>2, <1>8

\* What Remaining gives, element by element.
LEMMA RemainingStep ==
    ASSUME NEW S, NEW s \in Seq(S), NEW R
    PROVE  /\ Remaining(s, R) \in Seq(S)
           /\ s = <<>> => Remaining(s, R) = <<>>
           /\ \A x \in S : Remaining(Append(s, x), R)
                             = IF x \in R THEN Remaining(s, R) ELSE Append(Remaining(s, R), x)
<1>0. \A t \in Seq(S) :
         \E other \in [0..Len(t) -> Seq(S)] :
            (\A n \in 0..Len(t) : other[n] = Kept(t, R, other, n)) /\ Remaining(t, R) = other[Len(t)]
  BY RemainingIsTabled, Zenon
<1>1. PICK table \in [0..Len(s) -> Seq(S)] :
             (\A n \in 0..Len(s) : table[n] = Kept(s, R, table, n)) /\ Remaining(s, R) = table[Len(s)]
  BY <1>0, Zenon
<1>2. s = <<>> => Remaining(s, R) = <<>>
  BY <1>1 DEF Kept
<1>3. ASSUME NEW x \in S
      PROVE  Remaining(Append(s, x), R)
             = IF x \in R THEN Remaining(s, R) ELSE Append(Remaining(s, R), x)
  <2>0. PICK t \in Seq(S) : t = Append(s, x)
    <3>1. Append(s, x) \in Seq(S)
      OBVIOUS
    <3> QED
      BY <3>1, Zenon
  <2>1. /\ t \in Seq(S) /\ Len(t) = Len(s) + 1 /\ t[Len(s) + 1] = x
        /\ \A n \in 1..Len(s) : s[n] = t[n]
    BY <2>0
  <2>2. PICK other \in [0..Len(t) -> Seq(S)] :
               (\A n \in 0..Len(t) : other[n] = Kept(t, R, other, n)) /\ Remaining(t, R) = other[Len(t)]
    BY <1>0, Zenon
  <2>3. table[Len(s)] = other[Len(s)]
    <3> DEFINE P == {n \in Nat : n <= Len(s) => table[n] = other[n]}
    <3>1. 0 \in P
      BY <1>1, <2>1, <2>2 DEF Kept
    <3>2. ASSUME NEW n \in Nat, n \in P
          PROVE  n + 1 \in P
      <4> SUFFICES ASSUME n + 1 <= Len(s)
                   PROVE  table[n + 1] = other[n + 1]
        OBVIOUS
      <4>1. table[n] = other[n]
        BY <3>2
      <4>2. /\ n + 1 \in 0..Len(s) /\ n + 1 \in 0..Len(t) /\ n + 1 \in 1..Len(s)
            /\ n + 1 # 0 /\ (n + 1) - 1 = n
        BY <2>1
      <4>3. /\ table[n + 1] = Kept(s, R, table, n + 1)
            /\ other[n + 1] = Kept(t, R, other, n + 1)
            /\ s[n + 1] = t[n + 1]
        BY <1>1, <2>1, <2>2, <4>2
      <4> QED
        BY <4>1, <4>2, <4>3 DEF Kept
    <3>3. Len(s) \in P
      <4> HIDE DEF P
      <4>1. Len(s) \in Nat
        OBVIOUS
      <4> QED
        BY <3>1, <3>2, <4>1, InductionOnNat
    <3> QED
      BY <3>3
  <2>4. other[Len(s) + 1] = IF x \in R THEN other[Len(s)] ELSE Append(other[Len(s)], x)
    <3>1. Len(s) + 1 \in 0..Len(t) /\ Len(s) + 1 # 0 /\ (Len(s) + 1) - 1 = Len(s)
      BY <2>1
    <3>2. other[Len(s) + 1] = Kept(t, R, other, Len(s) + 1)
      BY <2>2, <3>1
    <3> QED
      BY <2>1, <3>1, <3>2 DEF Kept
  <2> QED
    BY <1>1, <2>0, <2>1, <2>2, <2>3, <2>4
<1> QED
  BY <1>1, <1>2, <1>3

\* What Append adds.
LEMMA AppendFacts ==
    ASSUME NEW S, NEW s \in Seq(S), NEW x \in S
    PROVE  /\ Append(s, x) \in Seq(S)
           /\ ToSet(Append(s, x)) = ToSet(s) \cup {x}
           /\ Distinct(Append(s, x)) <=> Distinct(s) /\ x \notin ToSet(s)
           /\ \A y, z : Before(Append(s, x), y, z)
                         <=> Before(s, y, z) \/ (y \in ToSet(s) /\ z = x)
<1> DEFINE t == Append(s, x)
<1>1. /\ t \in Seq(S) /\ Len(t) = Len(s) + 1 /\ t[Len(s) + 1] = x /\ Len(s) \in Nat
      /\ \A n \in 1..Len(s) : t[n] = s[n]
  OBVIOUS
<1>2. DOMAIN s = 1..Len(s) /\ DOMAIN t = 1..Len(t)
  OBVIOUS
<1>3. 1..Len(t) = 1..Len(s) \cup {Len(s) + 1} /\ Len(s) + 1 \notin 1..Len(s)
  BY <1>1
<1> HIDE DEF t
<1>4. ToSet(t) = ToSet(s) \cup {x}
  BY <1>1, <1>2, <1>3 DEF ToSet
<1>5. Distinct(t) <=> Distinct(s) /\ x \notin ToSet(s)
  <2>1. ASSUME Distinct(t)
        PROVE  Distinct(s) /\ x \notin ToSet(s)
    BY <2>1, <1>1, <1>2, <1>3 DEF Distinct, ToSet
  <2>2. ASSUME Distinct(s), x \notin ToSet(s)
        PROVE  Distinct(t)
    BY <2>2, <1>1, <1>2, <1>3 DEF Distinct, ToSet
  <2> QED
    BY <2>1, <2>2
<1>6. ASSUME NEW y, NEW z
      PROVE  Before(t, y, z) <=> Before(s, y, z) \/ (y \in ToSet(s) /\ z = x)
  <2>1. ASSUME Before(t, y, z)
        PROVE  Before(s, y, z) \/ (y \in ToSet(s) /\ z = x)
    <3>1. PICK i \in 1..Len(t), j \in 1..Len(t) : i < j /\ t[i] = y /\ t[j] = z
      BY <2>1 DEF Before
    <3>2. i \in 1..Len(s) /\ s[i] = y
      BY <1>1, <3>1
    <3>3. CASE j \in 1..Len(s)
      BY <1>1, <3>1, <3>2, <3>3 DEF Before
    <3>4. CASE j = Len(s) + 1
      BY <1>1, <1>2, <3>1, <3>2, <3>4 DEF ToSet
    <3> QED
      BY <1>3, <3>3, <3>4
  <2>2. ASSUME Before(s, y, z)
        PROVE  Before(t, y, z)
    <3>1. PICK i \in 1..Len(s), j \in 1..Len(s) : i < j /\ s[i] = y /\ s[j] = z
      BY <2>2 DEF Before
    <3> QED
      BY <1>1, <1>3, <3>1 DEF Before
  <2>3. ASSUME y \in ToSet(s), z = x
        PROVE  Before(t, y, z)
    <3>1. PICK i \in 1..Len(s) : s[i] = y
      BY <1>2, <2>3 DEF ToSet
    <3>2. i \in 1..Len(t) /\ Len(s) + 1 \in 1..Len(t) /\ i < Len(s) + 1 /\ t[i] = y
      BY <1>1, <3>1
    <3> QED
      BY <1>1, <2>3, <3>2 DEF Before
  <2> QED
    BY <2>1, <2>2, <2>3
<1> QED
  BY <1>1, <1>4, <1>5, <1>6 DEF t

\* Nothing remains of the empty sequence.
LEMMA EmptyRemains ==
    ASSUME NEW S, NEW Q
    PROVE  <<>> \in Seq(S) /\ Remaining(<<>>, Q) = <<>>
<1>1. <<>> \in Seq(S)
  OBVIOUS
<1> QED
  BY <1>1, RemainingStep

\* The empty sequence has no elements.
LEMMA EmptyFacts ==
    /\ ToSet(<<>>) = {}
    /\ Distinct(<<>>)
    /\ \A x, y : ~Before(<<>>, x, y)
BY DEF ToSet, Distinct, Before

\* Remaining leaves the elements that are not in R, each as often as before, in the same
\* order.
LEMMA RemainingFacts ==
    ASSUME NEW S, NEW s \in Seq(S), NEW R
    PROVE  /\ ToSet(Remaining(s, R)) = ToSet(s) \ R
           /\ Distinct(s) => Distinct(Remaining(s, R))
           /\ \A x, y : Before(Remaining(s, R), x, y)
                         <=> Before(s, x, y) /\ x \notin R /\ y \notin R
<1> DEFINE Facts(t) ==
             /\ ToSet(Remaining(t, R)) = ToSet(t) \ R
             /\ Distinct(t) => Distinct(Remaining(t, R))
             /\ \A x, y : Before(Remaining(t, R), x, y)
                           <=> Before(t, x, y) /\ x \notin R /\ y \notin R
           P == {t \in Seq(S) : Facts(t)}
<1>1. <<>> \in P
  <2>1. Remaining(<<>>, R) = <<>> /\ <<>> \in Seq(S)
    BY EmptyRemains
  <2> QED
    BY <2>1, EmptyFacts
<1>2. ASSUME NEW t \in Seq(S), NEW x \in S, t \in P
      PROVE  Append(t, x) \in P
  <2>1. Remaining(t, R) \in Seq(S)
    BY RemainingStep
  <2>2. PICK u \in Seq(S) : u = Remaining(t, R)
    BY <2>1, Zenon
  <2>3. Remaining(Append(t, x), R) = IF x \in R THEN u ELSE Append(u, x)
    BY <2>2, RemainingStep
  <2>4. /\ ToSet(u) = ToSet(t) \ R
        /\ Distinct(t) => Distinct(u)
        /\ \A y, z : Before(u, y, z) <=> Before(t, y, z) /\ y \notin R /\ z \notin R
    BY <1>2, <2>2
  <2>5. /\ Append(t, x) \in Seq(S)
        /\ ToSet(Append(t, x)) = ToSet(t) \cup {x}
        /\ Distinct(Append(t, x)) <=> Distinct(t) /\ x \notin ToSet(t)
        /\ \A y, z : Before(Append(t, x), y, z)
                      <=> Before(t, y, z) \/ (y \in ToSet(t) /\ z = x)
    BY AppendFacts, Zenon
  <2>6. /\ ToSet(Append(u, x)) = ToSet(u) \cup {x}
        /\ Distinct(Append(u, x)) <=> Distinct(u) /\ x \notin ToSet(u)
        /\ \A y, z : Before(Append(u, x), y, z)
                      <=> Before(u, y, z) \/ (y \in ToSet(u) /\ z = x)
    BY AppendFacts, Zenon
  <2>7. CASE x \in R
    <3>1. Remaining(Append(t, x), R) = u
      BY <2>3, <2>7
    <3>2. \A y, z : Before(u, y, z) <=> Before(Append(t, x), y, z) /\ y \notin R /\ z \notin R
      BY <2>4, <2>5, <2>7, Zenon
    <3>3. ToSet(u) = ToSet(Append(t, x)) \ R
      BY <2>4, <2>5, <2>7
    <3>4. Facts(Append(t, x))
      BY <2>4, <2>5, <3>1, <3>2, <3>3, Zenon
    <3> QED
      BY <2>5, <3>4
  <2>8. CASE x \notin R
    <3>1. Remaining(Append(t, x), R) = Append(u, x)
      BY <2>3, <2>8
    <3>2. ToSet(Append(u, x)) = ToSet(Append(t, x)) \ R
      BY <2>4, <2>5, <2>6, <2>8
    <3>3. \A y : y \in ToSet(u) <=> y \in ToSet(t) /\ y \notin R
      BY <2>4
    <3>4. \A y, z : Before(Append(u, x), y, z)
                    <=> Before(Append(t, x), y, z) /\ y \notin R /\ z \notin R
      BY <2>4, <2>5, <2>6, <2>8, <3>3, Zenon
    <3>5. Distinct(Append(t, x)) => Distinct(Append(u, x))
      BY <2>4, <2>5, <2>6, <3>3, Zenon
    <3>6. Facts(Append(t, x))
      BY <3>1, <3>2, <3>4, <3>5, Zenon
    <3> QED
      BY <2>5, <3>6
  <2> QED
    BY <2>7, <2>8
<1>3. \A t \in Seq(S) : t \in P
  <2> HIDE DEF P
  <2> QED
    BY <1>1, <1>2, InductionOnSeq
<1>4. Facts(s)
  <2> HIDE DEF Facts
  <2> QED
    BY <1>3
<1> QED
  BY <1>4

\* Taking out R and then T is taking out both.
LEMMA RemainingTwice ==
    ASSUME NEW S, NEW s \in Seq(S), NEW R, NEW T
    PROVE  Remaining(Remaining(s, R), T) = Remaining(s, R \cup T)
<1> DEFINE P == {t \in Seq(S) : Remaining(Remaining(t, R), T) = Remaining(t, R \cup T)}
<1>1. <<>> \in P
  <2>1. <<>> \in Seq(S) /\ \A Q : Remaining(<<>>, Q) = <<>>
    BY EmptyRemains
  <2> QED
    BY <2>1
<1>2. ASSUME NEW t \in Seq(S), NEW x \in S, t \in P
      PROVE  Append(t, x) \in P
  <2>1. PICK u \in Seq(S) : u = Remaining(t, R)
    <3>1. Remaining(t, R) \in Seq(S)
      BY RemainingStep
    <3> QED
      BY <3>1, Zenon
  <2>2. Remaining(Append(t, x), R) = IF x \in R THEN u ELSE Append(u, x)
    BY <2>1, RemainingStep
  <2>3. Remaining(Append(u, x), T)
        = IF x \in T THEN Remaining(u, T) ELSE Append(Remaining(u, T), x)
    BY RemainingStep
  <2>4. Remaining(Append(t, x), R \cup T)
        = IF x \in R \cup T THEN Remaining(t, R \cup T) ELSE Append(Remaining(t, R \cup T), x)
    BY RemainingStep
  <2>5. Remaining(u, T) = Remaining(t, R \cup T)
    BY <1>2, <2>1
  <2>6. Append(t, x) \in Seq(S)
    BY AppendFacts
  <2>7. Remaining(Remaining(Append(t, x), R), T) = Remaining(Append(t, x), R \cup T)
    <3>1. CASE x \in R
      BY <2>2, <2>4, <2>5, <3>1
    <3>2. CASE x \notin R
      BY <2>2, <2>3, <2>4, <2>5, <3>2
    <3> QED
      BY <3>1, <3>2
  <2> QED
    BY <2>6, <2>7
<1>3. \A t \in Seq(S) : t \in P
  <2> HIDE DEF P
  <2> QED
    BY <1>1, <1>2, InductionOnSeq
<1> QED
  BY <1>3

\* Only what R has of the elements matters.
LEMMA RemainingSame ==
    ASSUME NEW S, NEW s \in Seq(S), NEW R, NEW T, \A x \in ToSet(s) : x \in R <=> x \in T
    PROVE  Remaining(s, R) = Remaining(s, T)
<1> DEFINE Same(t) == (\A x \in ToSet(t) : x \in R <=> x \in T) => Remaining(t, R) = Remaining(t, T)
           P == {t \in Seq(S) : Same(t)}
<1>1. <<>> \in P
  <2>1. <<>> \in Seq(S) /\ \A Q : Remaining(<<>>, Q) = <<>>
    BY EmptyRemains
  <2> QED
    BY <2>1
<1>2. ASSUME NEW t \in Seq(S), NEW x \in S, t \in P
      PROVE  Append(t, x) \in P
  <2>1. Remaining(Append(t, x), R)
        = IF x \in R THEN Remaining(t, R) ELSE Append(Remaining(t, R), x)
    BY RemainingStep
  <2>2. Remaining(Append(t, x), T)
        = IF x \in T THEN Remaining(t, T) ELSE Append(Remaining(t, T), x)
    BY RemainingStep
  <2>3. Append(t, x) \in Seq(S) /\ ToSet(Append(t, x)) = ToSet(t) \cup {x}
    BY AppendFacts
  <2>4. Same(Append(t, x))
    BY <1>2, <2>1, <2>2, <2>3
  <2> HIDE DEF Same
  <2> QED
    BY <2>3, <2>4
<1>3. \A t \in Seq(S) : t \in P
  <2> HIDE DEF P
  <2> QED
    BY <1>1, <1>2, InductionOnSeq
<1>4. Same(s)
  <2> HIDE DEF Same
  <2> QED
    BY <1>3
<1> QED
  BY <1>4

\* The elements of a sequence.
LEMMA ElementsOf ==
    ASSUME NEW S, NEW s \in Seq(S)
    PROVE  /\ Len(s) \in Nat
           /\ ToSet(s) \in SUBSET S
           /\ IsFiniteSet(ToSet(s))
           /\ \A i \in 1..Len(s) : s[i] \in ToSet(s)
           /\ \A x \in ToSet(s) : \E i \in 1..Len(s) : s[i] = x
<1> DEFINE P == {t \in Seq(S) : IsFiniteSet(ToSet(t))}
<1>1. <<>> \in P
  BY EmptyRemains, EmptyFacts, FS_EmptySet
<1>2. ASSUME NEW t \in Seq(S), NEW x \in S, t \in P
      PROVE  Append(t, x) \in P
  <2>1. Append(t, x) \in Seq(S) /\ ToSet(Append(t, x)) = ToSet(t) \cup {x}
    BY AppendFacts
  <2> QED
    BY <1>2, <2>1, FS_AddElement
<1>3. \A t \in Seq(S) : t \in P
  <2> HIDE DEF P
  <2> QED
    BY <1>1, <1>2, InductionOnSeq
<1>4. DOMAIN s = 1..Len(s) /\ Len(s) \in Nat /\ \A i \in 1..Len(s) : s[i] \in S
  OBVIOUS
<1> QED
  BY <1>3, <1>4 DEF ToSet

-----------------------------------------------------------------------------
(* The LRU *)

\* m is l without the entries of R, but for its cursors.
Shrunk(l, m, R) ==
    /\ R \in SUBSET Held(l)
    /\ m.order = Remaining(l.order, R) /\ Held(m) = Held(l) \ R
    /\ m.expired = l.expired \ R

\* m is l with k put at Front, under the same cursor.
Fronted(l, m, k) ==
    /\ m.order = Append(Remaining(l.order, {k}), k) /\ Held(m) = Held(l) \cup {k}
    /\ m.expired = l.expired \ {k}
    /\ m.cleanupCursor = l.cleanupCursor

\* Bytes is a sum.
LEMMA BytesIsSum == \A l, R : Bytes(l, R) = SumOf(l.size, R)
BY Zenon DEF Bytes, SumOf

\* What Sound says of the list.
LEMMA ListFacts ==
    ASSUME NEW l, Sound(l)
    PROVE  /\ l.order \in Seq(Keys) /\ Len(l.order) \in Nat
           /\ Held(l) \in SUBSET Keys /\ IsFiniteSet(Held(l))
           /\ \A i \in 1..Len(l.order) : l.order[i] \in Held(l)
           /\ \A k \in Held(l) : \E i \in 1..Len(l.order) : l.order[i] = k
           /\ \A i, j \in 1..Len(l.order) : l.order[i] = l.order[j] => i = j
           /\ l.size \in [Keys -> Nat] /\ l.nbytes \in Int
           /\ l.dated \in SUBSET Keys /\ l.expired \in SUBSET Keys
           /\ Nil \notin Held(l)
<1>1. l \in LruType /\ Distinct(l.order)
  BY DEF Sound
<1>2. /\ l.order \in Seq(Keys) /\ l.size \in [Keys -> Nat] /\ l.nbytes \in Int
      /\ l.dated \in SUBSET Keys /\ l.expired \in SUBSET Keys
  BY <1>1 DEF LruType
<1>3. /\ Len(l.order) \in Nat
      /\ Held(l) \in SUBSET Keys /\ IsFiniteSet(Held(l))
      /\ \A i \in 1..Len(l.order) : l.order[i] \in Held(l)
      /\ \A k \in Held(l) : \E i \in 1..Len(l.order) : l.order[i] = k
  BY <1>2, ElementsOf DEF Held
<1> QED
  BY <1>1, <1>2, <1>3, NilAssumption DEF Distinct

\* An empty LRU is sound.
LEMMA NewIsSound == Sound(New)
<1>1. Held(New) = {} /\ Distinct(New.order)
  BY EmptyFacts DEF New, Held
<1>2. Bytes(New, {}) = 0
  BY BytesIsSum, SumStep, FS_EmptySet
<1>3. <<>> \in Seq(Keys)
  OBVIOUS
<1>4. New \in LruType
  BY <1>3 DEF New, LruType
<1>5. /\ New.expired = {} /\ New.dated = {} /\ New.nbytes = 0
      /\ New.cleanupCursor = Nil /\ New.amortizedCursor = Nil
      /\ \A k \in Keys : New.size[k] = 0
  BY DEF New
<1> QED
  BY <1>1, <1>2, <1>4, <1>5 DEF Sound

\* Position is the place of an element.
LEMMA PositionOf ==
    ASSUME NEW l, Sound(l), NEW i \in 1..Len(l.order)
    PROVE  Position(l, l.order[i]) = i
<1> DEFINE places == {j \in 1..Len(l.order) : l.order[j] = l.order[i]} \cup {Len(l.order) + 1}
<1>1. places = {i, Len(l.order) + 1} /\ places \in SUBSET Nat /\ i \in places
  BY ListFacts
<1>2. Len(l.order) \in Nat
  BY ListFacts
<1> HIDE DEF places
<1>3. Min(places) \in places /\ Min(places) <= i
  BY <1>1, MinIsLeast
<1>4. Min(places) = i
  BY <1>1, <1>2, <1>3
<1> QED
  BY <1>4 DEF Position, places

\* A cursor moves to an element that stays, and not past another that does.
LEMMA CursorMoves ==
    ASSUME NEW l, Sound(l), NEW R \in SUBSET Keys, NEW c \in Held(l) \cup {Nil}
    PROVE  /\ CursorWithout(l, c, R) \in (Held(l) \ R) \cup {Nil}
           /\ c = Nil => CursorWithout(l, c, R) = Nil
           /\ c # Nil => \A k \in Held(l) \ R :
                 Ahead(l, c, k) => /\ CursorWithout(l, c, R) # Nil
                                   /\ Ahead(l, CursorWithout(l, c, R), k)
<1>1. CASE c \notin R
  BY <1>1, ListFacts DEF CursorWithout
<1>2. CASE c \in R
  <2> DEFINE later == {i \in Position(l, c)..Len(l.order) : l.order[i] \notin R}
  <2>1. c # Nil /\ c \in Held(l)
    BY <1>2, NilAssumption
  <2>2. PICK p \in 1..Len(l.order) : l.order[p] = c
    BY <2>1, ListFacts
  <2>3. Position(l, c) = p
    BY <2>2, PositionOf
  <2>4. later \in SUBSET Nat /\ later \subseteq 1..Len(l.order)
    BY <2>2, <2>3, ListFacts
  <2>5. ASSUME NEW k \in Held(l) \ R, Ahead(l, c, k)
        PROVE  \E j \in later : l.order[j] = k
    <3>1. k # c
      BY <1>2
    <3>2. PICK i \in 1..Len(l.order), j \in 1..Len(l.order) :
                 i < j /\ l.order[i] = c /\ l.order[j] = k
      BY <2>5, <3>1 DEF Ahead, Before
    <3>3. i = p
      BY <2>2, <3>2, ListFacts
    <3> QED
      BY <2>3, <3>2, <3>3, ListFacts
  <2>6. CASE later = {}
    BY <1>2, <2>1, <2>5, <2>6 DEF CursorWithout
  <2>7. CASE later # {}
    <3>1. CursorWithout(l, c, R) = l.order[Min(later)]
      BY <1>2, <2>7 DEF CursorWithout
    <3> DEFINE next == Min(later)
    <3>2. next \in later /\ \A j \in later : next <= j
      <4> HIDE DEF later
      <4> QED
        BY <2>4, <2>7, MinIsLeast
    <3> HIDE DEF next
    <3>3. next \in 1..Len(l.order) /\ l.order[next] \in Held(l) \ R
      BY <2>4, <3>2, ListFacts
    <3>4. ASSUME NEW k \in Held(l) \ R, Ahead(l, c, k)
          PROVE  Ahead(l, l.order[next], k)
      <4>1. PICK j \in later : l.order[j] = k
        BY <2>5, <3>4
      <4>2. j \in 1..Len(l.order) /\ next <= j
        BY <2>4, <3>2
      <4> HIDE DEF later
      <4>3. CASE next = j
        BY <4>1, <4>3 DEF Ahead
      <4>4. CASE next # j
        <5>1. next < j
          BY <2>4, <3>3, <4>2, <4>4
        <5> QED
          BY <3>3, <4>1, <4>2, <5>1 DEF Ahead, Before
      <4> QED
        BY <4>3, <4>4
    <3>5. l.order[next] # Nil
      BY <3>3, ListFacts
    <3> HIDE DEF later
    <3> QED
      BY <2>1, <3>1, <3>3, <3>4, <3>5 DEF next
  <2> QED
    BY <2>6, <2>7
<1> QED
  BY <1>1, <1>2

\* Removing entries keeps an LRU sound, and the order of the others.
LEMMA WithoutIsSound ==
    ASSUME NEW l, Sound(l), NEW R \in SUBSET Held(l)
    PROVE  /\ Sound(Without(l, R))
           /\ Without(l, R).order = Remaining(l.order, R)
           /\ Held(Without(l, R)) = Held(l) \ R
           /\ Without(l, R).expired = l.expired \ R
           /\ Without(l, R).cleanupCursor = CursorWithout(l, l.cleanupCursor, R)
<1> DEFINE w == Without(l, R)
<1>1. /\ w.order = Remaining(l.order, R)
      /\ w.size = [k \in Keys |-> IF k \in R THEN 0 ELSE l.size[k]]
      /\ w.dated = l.dated \ R /\ w.expired = l.expired \ R
      /\ w.nbytes = l.nbytes - Bytes(l, R)
      /\ w.cleanupCursor = CursorWithout(l, l.cleanupCursor, R)
      /\ w.amortizedCursor = CursorWithout(l, l.amortizedCursor, R)
  BY DEF Without
<1>2. w = [order |-> w.order, size |-> w.size, dated |-> w.dated, expired |-> w.expired,
           nbytes |-> w.nbytes, cleanupCursor |-> w.cleanupCursor,
           amortizedCursor |-> w.amortizedCursor]
  BY DEF Without
<1> HIDE DEF w
<1>3. /\ l.order \in Seq(Keys) /\ Held(l) \in SUBSET Keys /\ IsFiniteSet(Held(l))
      /\ l.size \in [Keys -> Nat] /\ l.nbytes \in Int
      /\ l.dated \in SUBSET Keys /\ l.expired \in SUBSET Keys
  BY ListFacts
<1>4. /\ w.order \in Seq(Keys) /\ Held(w) = Held(l) \ R /\ Distinct(w.order)
  <2>1. Remaining(l.order, R) \in Seq(Keys)
    BY <1>3, RemainingStep
  <2>2. Distinct(l.order)
    BY DEF Sound
  <2>3. ToSet(Remaining(l.order, R)) = ToSet(l.order) \ R /\ Distinct(Remaining(l.order, R))
    BY <1>3, <2>2, RemainingFacts
  <2> QED
    BY <1>1, <2>1, <2>3 DEF Held
<1>5. \A x \in Held(l) : l.size[x] \in Int
  BY <1>3
<1>6. Bytes(l, R) \in Int /\ Bytes(l, Held(l)) = Bytes(l, R) + SumOf(l.size, Held(l) \ R)
  BY <1>3, <1>5, SumWithout, BytesIsSum
<1>7. Bytes(w, Held(w)) = SumOf(l.size, Held(l) \ R) /\ SumOf(l.size, Held(l) \ R) \in Int
  <2>1. IsFiniteSet(Held(l) \ R) /\ \A x \in Held(l) \ R : l.size[x] \in Int
    BY <1>3, <1>5, FS_Subset
  <2>2. \A x \in Held(l) \ R : w.size[x] = l.size[x]
    BY <1>1, <1>3
  <2>3. SumOf(w.size, Held(l) \ R) = SumOf(l.size, Held(l) \ R)
    BY <2>1, <2>2, SumSame
  <2> QED
    BY <1>4, <2>1, <2>3, SumStep, BytesIsSum
<1>8. w.nbytes = Bytes(w, Held(w)) /\ w.nbytes \in Int
  BY <1>1, <1>3, <1>6, <1>7 DEF Sound
<1>9. w.size \in [Keys -> Nat] /\ \A k \in Keys : w.size[k] = 0 <=> k \notin Held(w)
  BY <1>1, <1>3, <1>4 DEF Sound
<1>10. {w.cleanupCursor, w.amortizedCursor} \subseteq Held(w) \cup {Nil}
  <2>1. R \in SUBSET Keys
    BY <1>3
  <2>2. \A c \in Held(l) \cup {Nil} : CursorWithout(l, c, R) \in (Held(l) \ R) \cup {Nil}
    BY <2>1, CursorMoves, Zenon
  <2>3. l.cleanupCursor \in Held(l) \cup {Nil} /\ l.amortizedCursor \in Held(l) \cup {Nil}
    BY DEF Sound
  <2> QED
    <3>1. /\ w.cleanupCursor \in (Held(l) \ R) \cup {Nil}
          /\ w.amortizedCursor \in (Held(l) \ R) \cup {Nil}
      BY <1>1, <2>2, <2>3
    <3> QED
      BY <1>4, <3>1
<1>11. w.expired \subseteq w.dated /\ w.dated \subseteq Held(w) /\ w.dated \in SUBSET Keys
  BY <1>1, <1>3, <1>4 DEF Sound
<1>12. w \in LruType
  <2>1. /\ w.cleanupCursor \in Keys \cup {Nil} /\ w.amortizedCursor \in Keys \cup {Nil}
        /\ w.expired \in SUBSET Keys
    BY <1>3, <1>4, <1>10, <1>11
  <2> QED
    BY <1>2, <1>4, <1>8, <1>9, <1>11, <2>1 DEF LruType
<1>13. Sound(w)
  BY <1>4, <1>8, <1>9, <1>10, <1>11, <1>12 DEF Sound
<1> QED
  BY <1>1, <1>4, <1>13 DEF w

\* Moving an entry to Front, or putting one there.
LEMMA FrontFacts ==
    ASSUME NEW l, Sound(l), NEW k \in Keys
    PROVE  /\ Append(Remaining(l.order, {k}), k) \in Seq(Keys)
           /\ ToSet(Append(Remaining(l.order, {k}), k)) = Held(l) \cup {k}
           /\ Distinct(Append(Remaining(l.order, {k}), k))
           /\ \A x, y : Before(l.order, x, y) /\ x # k /\ y # k
                        => Before(Append(Remaining(l.order, {k}), k), x, y)
<1>1. l.order \in Seq(Keys) /\ Distinct(l.order)
  BY ListFacts DEF Sound
<1>2. PICK u \in Seq(Keys) : u = Remaining(l.order, {k})
  <2>1. Remaining(l.order, {k}) \in Seq(Keys)
    BY <1>1, RemainingStep
  <2> QED
    BY <2>1, Zenon
<1>3. /\ ToSet(u) = Held(l) \ {k}
      /\ Distinct(u)
      /\ \A x, y : Before(u, x, y) <=> Before(l.order, x, y) /\ x \notin {k} /\ y \notin {k}
  BY <1>1, <1>2, RemainingFacts DEF Held
<1>4. /\ Append(u, k) \in Seq(Keys)
      /\ ToSet(Append(u, k)) = ToSet(u) \cup {k}
      /\ Distinct(Append(u, k)) <=> Distinct(u) /\ k \notin ToSet(u)
      /\ \A x, y : Before(Append(u, k), x, y) <=> Before(u, x, y) \/ (x \in ToSet(u) /\ y = k)
  BY AppendFacts
<1> QED
  BY <1>2, <1>3, <1>4

\* A hit, an expired entry and a miss keep an LRU sound.
LEMMA GetIsSound ==
    ASSUME NEW l, Sound(l), NEW k \in Keys
    PROVE  /\ Sound(Get(l, k))
           /\ Hit(l, k) => Get(l, k) = ToFront(l, k) /\ Held(Get(l, k)) = Held(l)
           /\ ~Hit(l, k) => \E R \in SUBSET Held(l) : Get(l, k) = Without(l, R) \/ Get(l, k) = l
<1>1. CASE Hit(l, k)
  <2>1. k \in Held(l) /\ Get(l, k) = ToFront(l, k)
    BY <1>1 DEF Hit, Get
  <2> DEFINE order == Append(Remaining(l.order, {k}), k)
  <2>2. order \in Seq(Keys) /\ ToSet(order) = Held(l) /\ Distinct(order)
    <3>1. order \in Seq(Keys) /\ ToSet(order) = Held(l) \cup {k} /\ Distinct(order)
      BY FrontFacts
    <3>2. Held(l) \cup {k} = Held(l)
      BY <2>1
    <3> HIDE DEF order
    <3> QED
      BY <3>1, <3>2
  <2> HIDE DEF order
  <2>3. l \in LruType
    BY DEF Sound
  <2>4. ToFront(l, k) = [l EXCEPT !.order = order]
    BY DEF ToFront, order
  <2> DEFINE f == [l EXCEPT !.order = order]
  <2>5. /\ f.order = order /\ f.size = l.size /\ f.dated = l.dated /\ f.expired = l.expired
        /\ f.nbytes = l.nbytes /\ f.cleanupCursor = l.cleanupCursor
        /\ f.amortizedCursor = l.amortizedCursor /\ f \in LruType
    BY <2>2, <2>3 DEF LruType
  <2> HIDE DEF f
  <2>6. Held(f) = Held(l)
    BY <2>2, <2>5 DEF Held
  <2>7. Bytes(f, Held(f)) = Bytes(l, Held(l))
    BY <2>5, <2>6, BytesIsSum
  <2>8. Sound(f)
    BY <2>2, <2>5, <2>6, <2>7 DEF Sound
  <2> QED
    BY <1>1, <2>1, <2>4, <2>6, <2>8 DEF f
<1>2. CASE ~Hit(l, k) /\ k \in l.expired
  <2>1. {k} \in SUBSET Held(l)
    BY <1>2 DEF Sound
  <2>2. Get(l, k) = Without(l, {k})
    BY <1>2 DEF Get
  <2> QED
    BY <1>2, <2>1, <2>2, WithoutIsSound
<1>3. CASE ~Hit(l, k) /\ k \notin l.expired
  <2>1. Get(l, k) = l
    BY <1>3 DEF Get
  <2> QED
    BY <1>3, <2>1
<1> QED
  BY <1>1, <1>2, <1>3

\* The coldest entries: none, or all.
LEMMA ColdestFacts ==
    ASSUME NEW l, Sound(l)
    PROVE  /\ \A n \in 0..Len(l.order) : Coldest(l, n) \in SUBSET Held(l)
           /\ Coldest(l, Len(l.order)) = Held(l)
<1>1. l.order \in Seq(Keys) /\ Len(l.order) \in Nat
  BY ListFacts
<1>2. ASSUME NEW n \in 0..Len(l.order)
      PROVE  Coldest(l, n) = {l.order[i] : i \in 1..n}
  <2>1. /\ DOMAIN SubSeq(l.order, 1, n) = 1..n
        /\ \A i \in 1..n : SubSeq(l.order, 1, n)[i] = l.order[i]
    BY <1>1
  <2> QED
    BY <2>1 DEF Coldest, ToSet
<1>3. ASSUME NEW n \in 0..Len(l.order)
      PROVE  Coldest(l, n) \in SUBSET Held(l)
  <2>1. \A i \in 1..n : l.order[i] \in Held(l)
    BY <1>1, ListFacts
  <2> QED
    BY <1>2, <2>1
<1>4. Coldest(l, Len(l.order)) = Held(l)
  <2>1. \A k \in Held(l) : \E i \in 1..Len(l.order) : l.order[i] = k
    BY ListFacts
  <2>2. Len(l.order) \in 0..Len(l.order)
    BY <1>1
  <2>3. Coldest(l, Len(l.order)) = {l.order[i] : i \in 1..Len(l.order)}
    BY <1>2, <2>2
  <2>4. Coldest(l, Len(l.order)) \in SUBSET Held(l)
    BY <1>3, <2>2
  <2> QED
    BY <2>1, <2>3, <2>4
<1> QED
  BY <1>3, <1>4

\* Evicting everything is enough, so the loop in Add ends.
LEMMA EnoughExists ==
    ASSUME NEW l, Sound(l)
    PROVE  Enough(l) # {} /\ Min(Enough(l)) \in 0..Len(l.order)
<1>1. Len(l.order) \in Nat /\ l.nbytes \in Int
  BY ListFacts
<1>2. l.nbytes - Bytes(l, Coldest(l, Len(l.order))) = 0
  BY <1>1, ColdestFacts DEF Sound
<1>3. Len(l.order) \in Enough(l)
  BY <1>1, <1>2, MaxBytesAssumption DEF Enough
<1>4. Enough(l) \in SUBSET Nat /\ Enough(l) \subseteq 0..Len(l.order)
  BY <1>1 DEF Enough
<1> QED
  BY <1>3, <1>4, MinIsLeast

\* A write books the difference to the entry's old size.
LEMMA PutIsSound ==
    ASSUME NEW l, Sound(l), NEW k \in Keys, NEW bytes \in Nat \ {0}, NEW hasTTL \in BOOLEAN
    PROVE  /\ Sound(Put(l, k, bytes, hasTTL))
           /\ Fronted(l, Put(l, k, bytes, hasTTL), k)
<1> DEFINE order == Append(Remaining(l.order, {k}), k)
           p == Put(l, k, bytes, hasTTL)
<1>1. order \in Seq(Keys) /\ ToSet(order) = Held(l) \cup {k} /\ Distinct(order)
  BY FrontFacts
<1> HIDE DEF order
<1>2. l \in LruType
  BY DEF Sound
<1>3. /\ p.order = order
      /\ p.size = [l.size EXCEPT ![k] = bytes]
      /\ p.nbytes = l.nbytes + (bytes - l.size[k])
      /\ p.dated = IF hasTTL THEN l.dated \cup {k} ELSE l.dated \ {k}
      /\ p.expired = l.expired \ {k}
      /\ p.cleanupCursor = l.cleanupCursor
      /\ p.amortizedCursor = l.amortizedCursor
  BY <1>2 DEF Put, ToFront, Delta, Renewed, LruType, order
<1>4. p = [order |-> p.order, size |-> p.size, dated |-> p.dated, expired |-> p.expired,
           nbytes |-> p.nbytes, cleanupCursor |-> p.cleanupCursor,
           amortizedCursor |-> p.amortizedCursor]
  <2> DEFINE f == [l EXCEPT !.order = order]
  <2>1. f \in LruType
    BY <1>1, <1>2 DEF LruType
  <2>2. p = [f EXCEPT !.size[k] = bytes, !.nbytes = @ + Delta(l, k, bytes),
                      !.dated = IF hasTTL THEN @ \cup {k} ELSE @ \ {k},
                      !.expired = Renewed(l, k)]
    BY DEF Put, ToFront, order
  <2> HIDE DEF f, p
  <2>3. f = [order |-> f.order, size |-> f.size, dated |-> f.dated, expired |-> f.expired,
             nbytes |-> f.nbytes, cleanupCursor |-> f.cleanupCursor,
             amortizedCursor |-> f.amortizedCursor]
    BY <2>1 DEF LruType
  <2> QED
    BY <2>2, <2>3
<1> HIDE DEF p
<1>5. /\ Held(l) \in SUBSET Keys /\ IsFiniteSet(Held(l))
      /\ l.size \in [Keys -> Nat] /\ l.nbytes \in Int
      /\ l.dated \in SUBSET Keys /\ l.expired \in SUBSET Keys
  BY ListFacts
<1>6. Held(p) = Held(l) \cup {k}
  BY <1>1, <1>3 DEF Held
<1>7. /\ p.size \in [Keys -> Nat] /\ p.size[k] = bytes
      /\ \A x \in Keys \ {k} : p.size[x] = l.size[x]
  BY <1>3, <1>5
<1>8. p.nbytes = Bytes(p, Held(p)) /\ p.nbytes \in Int
  <2> DEFINE others == Held(l) \ {k}
  <2>1. IsFiniteSet(Held(p)) /\ (\A x \in Held(p) : p.size[x] \in Int) /\ k \in Held(p)
    BY <1>5, <1>6, <1>7, FS_AddElement
  <2>2. Bytes(p, Held(p)) = bytes + SumOf(p.size, Held(p) \ {k})
    BY <1>7, <2>1, SumPick, BytesIsSum
  <2>3. Held(p) \ {k} = others
    BY <1>6
  <2>4. IsFiniteSet(others) /\ (\A x \in others : l.size[x] \in Int)
        /\ (\A x \in others : p.size[x] = l.size[x])
    BY <1>5, <1>7, FS_RemoveElement
  <2> HIDE DEF others
  <2>5. SumOf(p.size, others) = SumOf(l.size, others) /\ SumOf(l.size, others) \in Int
    BY <2>4, SumSame, SumStep
  <2>6. l.nbytes = l.size[k] + SumOf(l.size, others)
    <3>1. l.nbytes = SumOf(l.size, Held(l)) /\ \A x \in Held(l) : l.size[x] \in Int
      BY <1>5, BytesIsSum DEF Sound
    <3>2. CASE k \in Held(l)
      BY <1>5, <3>1, <3>2, SumPick DEF others
    <3>3. CASE k \notin Held(l)
      <4>1. l.size[k] = 0
        BY <3>3 DEF Sound
      <4>2. others = Held(l)
        BY <3>3 DEF others
      <4> QED
        BY <2>5, <3>1, <4>1, <4>2
    <3> QED
      BY <3>2, <3>3
  <2>7. l.size[k] \in Int
    BY <1>5
  <2>8. p.nbytes = bytes + SumOf(l.size, others)
    BY <1>3, <2>5, <2>6, <2>7
  <2> QED
    BY <2>2, <2>3, <2>5, <2>8
<1>9. \A x \in Keys : p.size[x] = 0 <=> x \notin Held(p)
  BY <1>6, <1>7 DEF Sound
<1>10. {p.cleanupCursor, p.amortizedCursor} \subseteq Held(p) \cup {Nil}
  BY <1>3, <1>6 DEF Sound
<1>11. p.expired \subseteq p.dated /\ p.dated \subseteq Held(p) /\ p.dated \in SUBSET Keys
  BY <1>3, <1>5, <1>6 DEF Sound
<1>12. p \in LruType
  <2>1. /\ p.cleanupCursor \in Keys \cup {Nil} /\ p.amortizedCursor \in Keys \cup {Nil}
        /\ p.expired \in SUBSET Keys /\ p.order \in Seq(Keys)
    BY <1>1, <1>3, <1>5, <1>6, <1>10, <1>11
  <2> QED
    BY <1>4, <1>7, <1>8, <1>11, <2>1 DEF LruType
<1>13. Sound(p)
  BY <1>1, <1>3, <1>8, <1>9, <1>10, <1>11, <1>12 DEF Sound
<1>14. Fronted(l, p, k)
  BY <1>3, <1>6 DEF Fronted, order
<1> QED
  BY <1>13, <1>14 DEF p

\* A write and the evictions that follow it.
LEMMA AddIsSound ==
    ASSUME NEW l, Sound(l), NEW k \in Keys, NEW bytes \in Nat \ {0}, NEW hasTTL \in BOOLEAN
    PROVE  /\ Sound(Add(l, k, bytes, hasTTL))
           /\ \E R \in SUBSET Held(Put(l, k, bytes, hasTTL)) :
                 Add(l, k, bytes, hasTTL) = Without(Put(l, k, bytes, hasTTL), R)
           /\ AddTerminates(l, k, bytes, hasTTL)
<1> DEFINE p == Put(l, k, bytes, hasTTL)
           R == Coldest(p, Min(Enough(p)))
<1>1. Sound(p)
  BY PutIsSound
<1>2. Add(l, k, bytes, hasTTL) = Without(p, R)
  BY Zenon DEF Add
<1>3. AddTerminates(l, k, bytes, hasTTL) <=> Enough(p) # {}
  BY Zenon DEF AddTerminates
<1> HIDE DEF p
<1>4. Enough(p) # {} /\ R \in SUBSET Held(p)
  BY <1>1, EnoughExists, ColdestFacts
<1> HIDE DEF R
<1>5. Sound(Without(p, R))
  BY <1>1, <1>4, WithoutIsSound
<1> QED
  BY <1>2, <1>3, <1>4, <1>5 DEF p

\* A scan looks at entries only, and leaves its cursor on the first that it did not
\* look at of those from where it began.
LEMMA ScanFacts ==
    ASSUME NEW l, Sound(l), NEW c \in Held(l) \cup {Nil}, NEW limit \in Nat \ {0}
    PROVE  /\ Scanned(l, c, limit) \in SUBSET Held(l)
           /\ ScanNext(l, c, limit) \in (Held(l) \ Scanned(l, c, limit)) \cup {Nil}
           /\ \A k \in Held(l) \ Scanned(l, c, limit) :
                 c = Nil \/ Ahead(l, c, k)
                 => ScanNext(l, c, limit) # Nil /\ Ahead(l, ScanNext(l, c, limit), k)
<1> DEFINE start == ScanStart(l, c)
           end == ScanEnd(l, c, limit)
           len == Len(l.order)
<1>1. /\ l.order \in Seq(Keys) /\ len \in Nat /\ Nil \notin Held(l)
      /\ \A i \in 1..len : l.order[i] \in Held(l)
      /\ \A k \in Held(l) : \E i \in 1..len : l.order[i] = k
      /\ \A i, j \in 1..len : l.order[i] = l.order[j] => i = j
  BY ListFacts
<1>2. /\ start \in Nat \ {0} /\ start <= len + 1
      /\ c # Nil => start \in 1..len /\ l.order[start] = c
      /\ c = Nil => start = 1
  <2>1. CASE c = Nil
    BY <1>1, <2>1 DEF ScanStart
  <2>2. CASE c # Nil
    <3>1. PICK i \in 1..len : l.order[i] = c
      BY <1>1, <2>2
    <3>2. start = i
      BY <2>2, <3>1, PositionOf DEF ScanStart
    <3> QED
      BY <1>1, <2>2, <3>1, <3>2
  <2> QED
    BY <2>1, <2>2
<1> HIDE DEF start, len
<1>3. end \in Nat /\ end <= len /\ start - 1 <= end
  <2>1. {start + limit - 1, len} \in SUBSET Nat
    BY <1>1, <1>2
  <2>2. end \in {start + limit - 1, len} /\ end <= len
    BY <2>1, MinIsLeast DEF ScanEnd, start, len
  <2> HIDE DEF end
  <2> QED
    BY <1>1, <1>2, <2>1, <2>2
<1>4. Scanned(l, c, limit) = ToSet(SubSeq(l.order, start, end))
  BY DEF Scanned, start
<1>5. ScanNext(l, c, limit) = IF end + 1 <= len THEN l.order[end + 1] ELSE Nil
  BY DEF ScanNext, len
<1> HIDE DEF end
<1>6. \A k : k \in Scanned(l, c, limit) <=> \E i \in start..end : l.order[i] = k
  <2> DEFINE sub == SubSeq(l.order, start, end)
  <2>1. /\ DOMAIN sub = 1..(end - start + 1)
        /\ \A j \in 1..(end - start + 1) : sub[j] = l.order[start + j - 1]
    BY <1>1, <1>2, <1>3 DEF len
  <2> HIDE DEF sub
  <2>2. ASSUME NEW k, k \in ToSet(sub)
        PROVE  \E i \in start..end : l.order[i] = k
    <3>1. PICK j \in 1..(end - start + 1) : sub[j] = k
      BY <2>1, <2>2 DEF ToSet
    <3>2. start + j - 1 \in start..end
      BY <1>2, <1>3
    <3> QED
      BY <2>1, <3>1, <3>2
  <2>3. ASSUME NEW i \in start..end
        PROVE  l.order[i] \in ToSet(sub)
    <3>1. i - start + 1 \in 1..(end - start + 1) /\ start + (i - start + 1) - 1 = i
      BY <1>2, <1>3
    <3>2. sub[i - start + 1] = l.order[i]
      BY <2>1, <3>1
    <3> QED
      BY <2>1, <3>1, <3>2 DEF ToSet
  <2> QED
    BY <1>4, <2>2, <2>3 DEF sub
<1>7. start..end \subseteq 1..len
  BY <1>1, <1>2, <1>3
<1>8. Scanned(l, c, limit) \in SUBSET Held(l)
  BY <1>1, <1>6, <1>7
<1>9. ASSUME NEW k \in Held(l) \ Scanned(l, c, limit), c = Nil \/ Ahead(l, c, k)
      PROVE  \E j \in end + 1..len : l.order[j] = k
  <2>1. PICK j \in 1..len : l.order[j] = k
    BY <1>1
  <2>2. j \notin start..end
    BY <1>6, <1>9, <2>1
  <2>3. start <= j
    <3>1. CASE c = Nil
      BY <1>2, <2>1, <3>1
    <3>2. CASE c # Nil /\ k = c
      BY <1>1, <1>2, <2>1, <3>2
    <3>3. CASE c # Nil /\ Before(l.order, c, k)
      <4>1. PICK a \in 1..len, b \in 1..len : a < b /\ l.order[a] = c /\ l.order[b] = k
        BY <3>3 DEF Before, len
      <4>2. a = start /\ b = j
        BY <1>1, <1>2, <2>1, <3>3, <4>1
      <4> QED
        BY <4>1, <4>2
    <3> QED
      BY <1>9, <3>1, <3>2, <3>3 DEF Ahead
  <2>4. j \in end + 1..len
    BY <1>1, <1>2, <1>3, <2>2, <2>3
  <2> QED
    BY <2>1, <2>4
<1>10. CASE end + 1 <= len
  <2>1. ScanNext(l, c, limit) = l.order[end + 1] /\ end + 1 \in 1..len
    BY <1>1, <1>3, <1>5, <1>10
  <2>2. l.order[end + 1] \notin Scanned(l, c, limit)
    <3> SUFFICES ASSUME NEW i \in start..end, l.order[i] = l.order[end + 1]
                 PROVE  FALSE
      BY <1>6
    <3> QED
      BY <1>1, <1>2, <1>3, <1>7, <2>1
  <2>3. ASSUME NEW k \in Held(l) \ Scanned(l, c, limit), c = Nil \/ Ahead(l, c, k)
        PROVE  Ahead(l, l.order[end + 1], k)
    <3>1. PICK j \in end + 1..len : l.order[j] = k
      BY <1>9, <2>3
    <3>2. CASE end + 1 = j
      BY <3>1, <3>2 DEF Ahead
    <3>3. CASE end + 1 < j
      <4>1. j \in 1..len
        BY <1>1, <1>3, <3>1
      <4> QED
        BY <2>1, <3>1, <3>3, <4>1 DEF Ahead, Before, len
    <3> QED
      BY <1>1, <1>3, <3>1, <3>2, <3>3
  <2> QED
    BY <1>1, <1>8, <2>1, <2>2, <2>3
<1>11. CASE ~(end + 1 <= len)
  <2>1. ScanNext(l, c, limit) = Nil /\ end + 1..len = {}
    BY <1>1, <1>3, <1>5, <1>11
  <2> QED
    BY <1>8, <1>9, <2>1
<1> QED
  BY <1>10, <1>11

\* A scan removes the expired entries among those it looks at, and takes its own cursor
\* on; the other cursor moves only off an entry that goes.
LEMMA ScansAreSound ==
    ASSUME NEW l, Sound(l), NEW limit \in Nat \ {0}
    PROVE  /\ Sound(CleanupExpiredBatch(l, limit))
           /\ Shrunk(l, CleanupExpiredBatch(l, limit),
                     Scanned(l, l.cleanupCursor, limit) \cap l.expired)
           /\ CleanupExpiredBatch(l, limit).cleanupCursor = ScanNext(l, l.cleanupCursor, limit)
           /\ Sound(CleanupExpiredAmortized(l, limit))
           /\ \E R \in SUBSET Held(l) :
                 /\ Shrunk(l, CleanupExpiredAmortized(l, limit), R)
                 /\ CleanupExpiredAmortized(l, limit).cleanupCursor
                      = CursorWithout(l, l.cleanupCursor, R)
<1> DEFINE R == Scanned(l, l.cleanupCursor, limit) \cap l.expired
           T == Scanned(l, l.amortizedCursor, limit) \cap l.expired
           w == Without(l, R)
           v == Without(l, T)
<1>1. l.cleanupCursor \in Held(l) \cup {Nil} /\ l.amortizedCursor \in Held(l) \cup {Nil}
  BY DEF Sound
<1>2. /\ R \in SUBSET Held(l) /\ T \in SUBSET Held(l)
      /\ ScanNext(l, l.cleanupCursor, limit) \in (Held(l) \ R) \cup {Nil}
      /\ ScanNext(l, l.amortizedCursor, limit) \in (Held(l) \ T) \cup {Nil}
  BY <1>1, ScanFacts
<1> HIDE DEF R, T
<1>3. /\ Sound(w) /\ Shrunk(l, w, R)
      /\ Sound(v) /\ Shrunk(l, v, T) /\ v.cleanupCursor = CursorWithout(l, l.cleanupCursor, T)
  BY <1>2, WithoutIsSound DEF Shrunk
<1> HIDE DEF w, v
<1>4. ASSUME NEW u, Sound(u), NEW c \in Held(u) \cup {Nil}
      PROVE  /\ Sound([u EXCEPT !.cleanupCursor = c])
             /\ [u EXCEPT !.cleanupCursor = c].order = u.order
             /\ [u EXCEPT !.cleanupCursor = c].expired = u.expired
             /\ [u EXCEPT !.cleanupCursor = c].cleanupCursor = c
             /\ Sound([u EXCEPT !.amortizedCursor = c])
             /\ [u EXCEPT !.amortizedCursor = c].order = u.order
             /\ [u EXCEPT !.amortizedCursor = c].expired = u.expired
             /\ [u EXCEPT !.amortizedCursor = c].cleanupCursor = u.cleanupCursor
  <2> DEFINE x == [u EXCEPT !.cleanupCursor = c]
             y == [u EXCEPT !.amortizedCursor = c]
  <2>1. u \in LruType /\ c \in Keys \cup {Nil}
    BY <1>4, ListFacts DEF Sound
  <2>2. /\ x \in LruType /\ x.order = u.order /\ x.size = u.size /\ x.dated = u.dated
        /\ x.expired = u.expired /\ x.nbytes = u.nbytes
        /\ x.cleanupCursor = c /\ x.amortizedCursor = u.amortizedCursor
    BY <2>1 DEF LruType
  <2>3. /\ y \in LruType /\ y.order = u.order /\ y.size = u.size /\ y.dated = u.dated
        /\ y.expired = u.expired /\ y.nbytes = u.nbytes
        /\ y.cleanupCursor = u.cleanupCursor /\ y.amortizedCursor = c
    BY <2>1 DEF LruType
  <2> HIDE DEF x, y
  <2>4. /\ Held(x) = Held(u) /\ Bytes(x, Held(x)) = Bytes(u, Held(u))
        /\ Held(y) = Held(u) /\ Bytes(y, Held(y)) = Bytes(u, Held(u))
    BY <2>2, <2>3, BytesIsSum DEF Held
  <2>5. Sound(x)
    BY <1>4, <2>2, <2>4 DEF Sound
  <2>6. Sound(y)
    BY <1>4, <2>3, <2>4 DEF Sound
  <2> QED
    BY <2>2, <2>3, <2>5, <2>6 DEF x, y
<1> DEFINE batch == CleanupExpiredBatch(l, limit)
           scan == CleanupExpiredAmortized(l, limit)
<1>5. batch = [w EXCEPT !.cleanupCursor = ScanNext(l, l.cleanupCursor, limit)]
  BY Zenon DEF CleanupExpiredBatch, w, R
<1>6. scan = [v EXCEPT !.amortizedCursor = ScanNext(l, l.amortizedCursor, limit)]
  BY Zenon DEF CleanupExpiredAmortized, AmortizedScan, v, T
<1> HIDE DEF batch, scan
<1>7. /\ ScanNext(l, l.cleanupCursor, limit) \in Held(w) \cup {Nil}
      /\ ScanNext(l, l.amortizedCursor, limit) \in Held(v) \cup {Nil}
  BY <1>2, <1>3 DEF Shrunk
<1>8. /\ Sound(batch) /\ batch.order = w.order /\ batch.expired = w.expired
      /\ batch.cleanupCursor = ScanNext(l, l.cleanupCursor, limit)
  BY <1>3, <1>4, <1>5, <1>7
<1>9. /\ Sound(scan) /\ scan.order = v.order /\ scan.expired = v.expired
      /\ scan.cleanupCursor = v.cleanupCursor
  BY <1>3, <1>4, <1>6, <1>7
<1>10. Shrunk(l, batch, R) /\ Shrunk(l, scan, T)
  BY <1>3, <1>8, <1>9 DEF Shrunk, Held
<1> QED
  BY <1>2, <1>3, <1>8, <1>9, <1>10 DEF batch, scan, R

\* The passing of a deadline.
LEMMA ExpireIsSound ==
    ASSUME NEW l, Sound(l), NEW k \in l.dated
    PROVE  /\ Sound([l EXCEPT !.expired = @ \cup {k}])
           /\ [l EXCEPT !.expired = @ \cup {k}].order = l.order
           /\ [l EXCEPT !.expired = @ \cup {k}].expired = l.expired \cup {k}
           /\ [l EXCEPT !.expired = @ \cup {k}].cleanupCursor = l.cleanupCursor
<1> DEFINE m == [l EXCEPT !.expired = @ \cup {k}]
<1>1. l \in LruType /\ l.expired \cup {k} \in SUBSET Keys
  BY ListFacts DEF Sound
<1>2. /\ m \in LruType /\ m.order = l.order /\ m.size = l.size /\ m.dated = l.dated
      /\ m.expired = l.expired \cup {k} /\ m.nbytes = l.nbytes
      /\ m.cleanupCursor = l.cleanupCursor /\ m.amortizedCursor = l.amortizedCursor
  BY <1>1 DEF LruType
<1> HIDE DEF m
<1>3. Held(m) = Held(l) /\ Bytes(m, Held(m)) = Bytes(l, Held(l))
  BY <1>2, BytesIsSum DEF Held
<1>4. Sound(m)
  BY <1>2, <1>3 DEF Sound
<1> QED
  BY <1>2, <1>4 DEF m

\* Removing entries frees what they take.
LEMMA WithoutFrees ==
    ASSUME NEW l, Sound(l), NEW R \in SUBSET Held(l)
    PROVE  Without(l, R).nbytes = l.nbytes - Bytes(l, R) /\ Without(l, R).nbytes <= l.nbytes
<1>1. IsFiniteSet(R) /\ (\A x \in R : l.size[x] \in Nat) /\ l.nbytes \in Int
  BY ListFacts, FS_Subset
<1>2. Bytes(l, R) \in Nat
  BY <1>1, SumIsNatural, BytesIsSum
<1>3. Without(l, R).nbytes = l.nbytes - Bytes(l, R)
  BY DEF Without
<1> QED
  BY <1>1, <1>2, <1>3

Fits(l) == MaxBytes = Unlimited \/ l.nbytes <= MaxBytes

\* Reads and scans free space or leave it; a write evicts until the rest fits.
LEMMA StepsFit ==
    ASSUME NEW l, Sound(l)
    PROVE  /\ \A k \in Keys : Fits(l) => Fits(Get(l, k))
           /\ \A k \in Keys, bytes \in Nat \ {0}, hasTTL \in BOOLEAN :
                 Fits(Add(l, k, bytes, hasTTL))
           /\ \A limit \in Nat \ {0} :
                 /\ Fits(l) => Fits(CleanupExpiredBatch(l, limit))
                 /\ Fits(l) => Fits(CleanupExpiredAmortized(l, limit))
<1>1. ASSUME NEW R \in SUBSET Held(l), Fits(l)
      PROVE  Fits(Without(l, R))
  <2>1. /\ Without(l, R).nbytes <= l.nbytes /\ l.nbytes \in Int
        /\ Without(l, R).nbytes \in Int /\ MaxBytes \in Nat
    <3>1. Sound(Without(l, R))
      BY WithoutIsSound
    <3> QED
      BY <3>1, WithoutFrees, ListFacts, MaxBytesAssumption
  <2> QED
    BY <1>1, <2>1 DEF Fits
<1>2. ASSUME NEW k \in Keys, Fits(l)
      PROVE  Fits(Get(l, k))
  <2>1. CASE Hit(l, k)
    <3>1. Get(l, k) = ToFront(l, k)
      BY <2>1, GetIsSound
    <3>2. ToFront(l, k).nbytes = l.nbytes
      BY DEF ToFront, Sound, LruType
    <3> QED
      BY <1>2, <3>1, <3>2 DEF Fits
  <2>2. CASE ~Hit(l, k)
    <3>1. PICK R \in SUBSET Held(l) : Get(l, k) = Without(l, R) \/ Get(l, k) = l
      BY <2>2, GetIsSound
    <3> QED
      BY <1>1, <1>2, <3>1
  <2> QED
    BY <2>1, <2>2
<1>3. ASSUME NEW k \in Keys, NEW bytes \in Nat \ {0}, NEW hasTTL \in BOOLEAN
      PROVE  Fits(Add(l, k, bytes, hasTTL))
  <2> DEFINE p == Put(l, k, bytes, hasTTL)
             n == Min(Enough(p))
  <2>1. Sound(p)
    BY PutIsSound
  <2>2. Add(l, k, bytes, hasTTL) = Without(p, Coldest(p, n))
    BY Zenon DEF Add
  <2> HIDE DEF p
  <2>3. n \in Enough(p) /\ n \in 0..Len(p.order)
    <3>1. Enough(p) # {} /\ n \in 0..Len(p.order)
      BY <2>1, EnoughExists
    <3>2. Enough(p) \in SUBSET Nat
      BY <2>1, ListFacts DEF Enough
    <3> QED
      BY <3>1, <3>2, MinIsLeast
  <2> HIDE DEF n
  <2>4. MaxBytes = Unlimited \/ p.nbytes - Bytes(p, Coldest(p, n)) <= MaxBytes
    BY <2>3 DEF Enough
  <2>5. Coldest(p, n) \in SUBSET Held(p)
    BY <2>1, <2>3, ColdestFacts
  <2>6. Without(p, Coldest(p, n)).nbytes = p.nbytes - Bytes(p, Coldest(p, n))
    BY <2>1, <2>5, WithoutFrees
  <2> QED
    BY <2>2, <2>4, <2>6 DEF Fits
<1>4. ASSUME NEW limit \in Nat \ {0}, Fits(l)
      PROVE  Fits(CleanupExpiredBatch(l, limit)) /\ Fits(CleanupExpiredAmortized(l, limit))
  <2> DEFINE R == Scanned(l, l.cleanupCursor, limit) \cap l.expired
             T == Scanned(l, l.amortizedCursor, limit) \cap l.expired
  <2>1. R \in SUBSET Held(l) /\ T \in SUBSET Held(l)
    BY DEF Sound
  <2>2. /\ CleanupExpiredBatch(l, limit).nbytes = Without(l, R).nbytes
        /\ CleanupExpiredAmortized(l, limit).nbytes = Without(l, T).nbytes
    BY DEF CleanupExpiredBatch, CleanupExpiredAmortized, AmortizedScan, Without
  <2> HIDE DEF R, T
  <2> QED
    BY <1>1, <1>4, <2>1, <2>2 DEF Fits
<1> QED
  BY <1>2, <1>3, <1>4

-----------------------------------------------------------------------------
(* The cache *)

\* Every operation keeps the LRU sound.
LEMMA NextKeepsSound ==
    ASSUME Sound(lru), [Next]_vars
    PROVE  Sound(lru')
<1>1. ASSUME NEW k \in Keys, get(k)
      PROVE  Sound(lru')
  BY <1>1, GetIsSound, Zenon DEF get
<1>2. ASSUME NEW k \in Keys, Expire(k)
      PROVE  Sound(lru')
  BY <1>2, ExpireIsSound DEF Expire
<1>3. ASSUME NEW k \in Keys, NEW bytes \in Sizes, NEW hasTTL \in BOOLEAN, add(k, bytes, hasTTL)
      PROVE  Sound(lru')
  <2>1. bytes \in Nat \ {0} /\ addExpiryScanLimit \in Nat \ {0}
    BY SizesAssumption, LimitsAssumption
  <2>2. Sound(Add(lru, k, bytes, hasTTL))
    BY <2>1, AddIsSound, Zenon
  <2> QED
    BY <1>3, <2>1, <2>2, ScansAreSound, Zenon DEF add
<1>4. CASE purge
  BY <1>4, NewIsSound DEF purge
<1>5. CASE cleanupBatch
  BY <1>5, ScansAreSound, LimitsAssumption, Zenon DEF cleanupBatch
<1>6. CASE UNCHANGED vars
  BY <1>6 DEF vars
<1> QED
  BY <1>1, <1>2, <1>3, <1>4, <1>5, <1>6 DEF Next, Write

\* Whatever is read, written, evicted, purged, scanned or over its deadline, the list,
\* the counter, the deadlines and both cursors agree.
THEOREM CacheInvariant == Spec => []Sound(lru)
<1>1. Init => Sound(lru)
  BY NewIsSound DEF Init
<1>2. Sound(lru) /\ [Next]_vars => Sound(lru)'
  BY NextKeepsSound
<1> QED
  BY <1>1, <1>2, PTL DEF Spec

\* The fields have their types, and only entries have deadlines.
THEOREM CacheTypeOK == Spec => []TypeOK
<1>1. Sound(lru) => TypeOK
  BY DEF Sound, TypeOK
<1> QED
  BY <1>1, CacheInvariant, PTL

\* nbytes is at every moment the sum of the entries' sizes.
THEOREM BytesAreExact == Spec => []BytesExact
<1>1. Sound(lru) => BytesExact
  BY DEF Sound, BytesExact
<1> QED
  BY <1>1, CacheInvariant, PTL

\* The entries never take more than MaxBytes, before and after every operation.
THEOREM CapacityIsKept ==
    Spec => [](MaxBytes # Unlimited => Bytes(lru, Held(lru)) <= MaxBytes)
<1>1. Init => Fits(lru)
  BY MaxBytesAssumption DEF Init, New, Fits
<1>2. Sound(lru) /\ Fits(lru) /\ [Next]_vars => Fits(lru)'
  <2> SUFFICES ASSUME Sound(lru), Fits(lru), [Next]_vars
               PROVE  Fits(lru')
    OBVIOUS
  <2>1. ASSUME NEW k \in Keys, get(k)
        PROVE  Fits(lru')
    BY <2>1, StepsFit DEF get
  <2>2. ASSUME NEW k \in Keys, Expire(k)
        PROVE  Fits(lru')
    <3>1. lru'.nbytes = lru.nbytes
      BY <2>2 DEF Expire, Sound, LruType
    <3> QED
      BY <3>1 DEF Fits
  <2>3. ASSUME NEW k \in Keys, NEW bytes \in Sizes, NEW hasTTL \in BOOLEAN,
               add(k, bytes, hasTTL)
        PROVE  Fits(lru')
    <3> DEFINE a == Add(lru, k, bytes, hasTTL)
    <3>1. bytes \in Nat \ {0} /\ addExpiryScanLimit \in Nat \ {0}
      BY SizesAssumption, LimitsAssumption
    <3>2. Sound(a) /\ Fits(a)
      BY <3>1, AddIsSound, StepsFit
    <3>3. lru' = CleanupExpiredAmortized(a, addExpiryScanLimit)
      BY <2>3 DEF add
    <3> HIDE DEF a
    <3> QED
      BY <3>1, <3>2, <3>3, StepsFit
  <2>4. CASE purge
    BY <2>4, MaxBytesAssumption DEF purge, New, Fits
  <2>5. CASE cleanupBatch
    BY <2>5, StepsFit, LimitsAssumption DEF cleanupBatch
  <2>6. CASE UNCHANGED vars
    BY <2>6 DEF vars
  <2> QED
    BY <2>1, <2>2, <2>3, <2>4, <2>5, <2>6 DEF Next, Write
<1>3. Sound(lru) /\ Fits(lru) => (MaxBytes # Unlimited => Bytes(lru, Held(lru)) <= MaxBytes)
  BY DEF Sound, Fits
<1> QED
  BY <1>1, <1>2, <1>3, CacheInvariant, PTL DEF Spec

\* No cursor is ever on an element that is no longer in the list.
THEOREM CursorsStayInList == Spec => []CursorsInList
<1>1. Sound(lru) => CursorsInList
  BY DEF Sound, CursorsInList
<1> QED
  BY <1>1, CacheInvariant, PTL

\* The eviction loop of Add (lru.go:154-158) ends in every state that the cache can be in,
\* also when the value does not fit at all: the guard of add excludes nothing.
THEOREM EvictionEnds ==
    Spec => [](\A k \in Keys, bytes \in Sizes, hasTTL \in BOOLEAN :
                  AddTerminates(lru, k, bytes, hasTTL))
<1>1. Sound(lru) => \A k \in Keys, bytes \in Sizes, hasTTL \in BOOLEAN :
                       AddTerminates(lru, k, bytes, hasTTL)
  BY AddIsSound, SizesAssumption
<1> QED
  BY <1>1, CacheInvariant, PTL

-----------------------------------------------------------------------------
(* The order of use and the rounds of the background cleanup *)

\* Removing entries leaves the others in the order of use.
LEMMA ShrinkingKeepsOrder ==
    ASSUME NEW l, Sound(l), NEW m, NEW R, Shrunk(l, m, R), NEW used, InOrder(l, used)
    PROVE  InOrder(m, used)
<1>1. Held(l) \in SUBSET Keys
  BY ListFacts
<1>2. used \in Seq(Keys) /\ l.order = Remaining(used, Keys \ Held(l))
  BY DEF InOrder
<1>3. m.order = Remaining(Remaining(used, Keys \ Held(l)), R)
  BY <1>2 DEF Shrunk
<1>4. m.order = Remaining(used, (Keys \ Held(l)) \cup R)
  BY <1>2, <1>3, RemainingTwice
<1>5. (Keys \ Held(l)) \cup R = Keys \ Held(m)
  BY <1>1 DEF Shrunk
<1> QED
  BY <1>2, <1>4, <1>5 DEF InOrder

\* An entry that is used comes last in both.
LEMMA UseKeepsOrder ==
    ASSUME NEW l, Sound(l), NEW m, NEW k \in Keys, Fronted(l, m, k),
           NEW used, InOrder(l, used)
    PROVE  InOrder(m, Append(Remaining(used, {k}), k))
<1> DEFINE u == Remaining(used, {k})
           X == Keys \ Held(m)
<1>1. used \in Seq(Keys) /\ l.order = Remaining(used, Keys \ Held(l))
  BY DEF InOrder
<1>2. u \in Seq(Keys)
  BY <1>1, RemainingStep
<1>3. k \notin X /\ {k} \cup X = (Keys \ Held(l)) \cup {k}
  BY DEF Fronted
<1>4. Remaining(u, X) = Remaining(used, {k} \cup X)
  BY <1>1, RemainingTwice
<1>5. Remaining(l.order, {k}) = Remaining(used, (Keys \ Held(l)) \cup {k})
  BY <1>1, RemainingTwice
<1> HIDE DEF u, X
<1>6. Remaining(Append(u, k), X) = Append(Remaining(u, X), k)
  BY <1>2, <1>3, RemainingStep
<1>7. m.order = Remaining(Append(u, k), X)
  BY <1>3, <1>4, <1>5, <1>6 DEF Fronted
<1>8. Append(u, k) \in Seq(Keys)
  BY <1>2
<1> QED
  BY <1>7, <1>8 DEF InOrder, u, X

\* Removing other entries leaves an entry within reach of the scan.
LEMMA ShrinkingKeepsReach ==
    ASSUME NEW l, Sound(l), NEW m, NEW R, Shrunk(l, m, R),
           m.cleanupCursor = CursorWithout(l, l.cleanupCursor, R),
           NEW x \in Held(m), InReach(l, x)
    PROVE  InReach(m, x)
<1>1. x \in Held(l) \ R /\ R \in SUBSET Held(l) /\ R \in SUBSET Keys
  BY ListFacts DEF Shrunk
<1>2. l.cleanupCursor \in Held(l) \cup {Nil} /\ l.cleanupCursor # Nil
  BY DEF Sound, InReach
<1> DEFINE c == CursorWithout(l, l.cleanupCursor, R)
<1>3. c # Nil /\ Ahead(l, c, x) /\ c \in (Held(l) \ R) \cup {Nil}
  BY <1>1, <1>2, CursorMoves DEF InReach
<1> HIDE DEF c
<1>4. CASE x = c
  BY <1>3, <1>4 DEF InReach, Ahead, c
<1>5. CASE Before(l.order, c, x)
  <2>1. l.order \in Seq(Keys)
    BY ListFacts
  <2>2. Before(Remaining(l.order, R), c, x)
    BY <1>1, <1>3, <1>5, <2>1, RemainingFacts
  <2> QED
    BY <1>3, <2>2 DEF InReach, Ahead, Shrunk, c
<1> QED
  BY <1>3, <1>4, <1>5 DEF Ahead

\* So does the use of another entry that is not under the cursor.
LEMMA UseKeepsReach ==
    ASSUME NEW l, Sound(l), NEW m, NEW k \in Keys, Fronted(l, m, k), l.cleanupCursor # k,
           NEW x, x # k, InReach(l, x)
    PROVE  InReach(m, x)
<1>1. CASE x = l.cleanupCursor
  BY <1>1 DEF InReach, Ahead, Fronted
<1>2. CASE Before(l.order, l.cleanupCursor, x)
  <2> DEFINE order == Append(Remaining(l.order, {k}), k)
  <2>0. \A y, z : Before(l.order, y, z) /\ y # k /\ z # k => Before(order, y, z)
    BY FrontFacts
  <2> HIDE DEF order
  <2>1. m.order = order
    BY Zenon DEF Fronted, order
  <2>2. Before(order, l.cleanupCursor, x)
    BY <1>2, <2>0, Zenon
  <2> QED
    BY <2>1, <2>2 DEF InReach, Ahead, Fronted
<1> QED
  BY <1>1, <1>2 DEF InReach, Ahead

\* What is removed and read, written or expired, step by step.
LEMMA GetsAndAdds ==
    ASSUME NEW l, Sound(l), NEW k \in Keys
    PROVE  /\ Hit(l, k) => Fronted(l, Get(l, k), k)
           /\ ~Hit(l, k) => \/ Get(l, k) = l
                            \/ \E R \in SUBSET Held(l) :
                                  /\ Shrunk(l, Get(l, k), R)
                                  /\ Get(l, k).cleanupCursor = CursorWithout(l, l.cleanupCursor, R)
           /\ \A bytes \in Nat \ {0}, hasTTL \in BOOLEAN :
                 /\ Fronted(l, Put(l, k, bytes, hasTTL), k)
                 /\ \E R \in SUBSET Held(Put(l, k, bytes, hasTTL)) :
                       /\ Shrunk(Put(l, k, bytes, hasTTL), Add(l, k, bytes, hasTTL), R)
                       /\ Add(l, k, bytes, hasTTL).cleanupCursor
                            = CursorWithout(Put(l, k, bytes, hasTTL),
                                            Put(l, k, bytes, hasTTL).cleanupCursor, R)
<1>0. ASSUME NEW h, Sound(h), NEW R \in SUBSET Held(h)
      PROVE  /\ Shrunk(h, Without(h, R), R)
             /\ Without(h, R).cleanupCursor = CursorWithout(h, h.cleanupCursor, R)
  BY <1>0, WithoutIsSound DEF Shrunk
<1>1. ASSUME Hit(l, k)
      PROVE  Fronted(l, Get(l, k), k)
  <2>1. l \in LruType /\ k \in Held(l) /\ k \notin l.expired
    BY <1>1 DEF Sound, Hit
  <2>2. Get(l, k) = ToFront(l, k) /\ Held(Get(l, k)) = Held(l)
    BY <1>1, GetIsSound
  <2> DEFINE order == Append(Remaining(l.order, {k}), k)
  <2>3. Get(l, k) = [l EXCEPT !.order = order]
    BY <2>2 DEF ToFront
  <2> HIDE DEF order
  <2>4. /\ [l EXCEPT !.order = order].order = order
        /\ [l EXCEPT !.order = order].expired = l.expired
        /\ [l EXCEPT !.order = order].cleanupCursor = l.cleanupCursor
    BY <2>1 DEF LruType
  <2>5. Held(l) = Held(l) \cup {k} /\ l.expired = l.expired \ {k}
    BY <2>1
  <2> QED
    BY <2>2, <2>3, <2>4, <2>5 DEF Fronted, order
<1>2. ASSUME ~Hit(l, k), Get(l, k) # l
      PROVE  \E R \in SUBSET Held(l) :
                /\ Shrunk(l, Get(l, k), R)
                /\ Get(l, k).cleanupCursor = CursorWithout(l, l.cleanupCursor, R)
  <2>1. PICK R \in SUBSET Held(l) : Get(l, k) = Without(l, R)
    BY <1>2, GetIsSound
  <2> QED
    BY <1>0, <2>1
<1>3. ASSUME NEW bytes \in Nat \ {0}, NEW hasTTL \in BOOLEAN
      PROVE  /\ Fronted(l, Put(l, k, bytes, hasTTL), k)
             /\ \E R \in SUBSET Held(Put(l, k, bytes, hasTTL)) :
                   /\ Shrunk(Put(l, k, bytes, hasTTL), Add(l, k, bytes, hasTTL), R)
                   /\ Add(l, k, bytes, hasTTL).cleanupCursor
                        = CursorWithout(Put(l, k, bytes, hasTTL),
                                        Put(l, k, bytes, hasTTL).cleanupCursor, R)
  <2> DEFINE p == Put(l, k, bytes, hasTTL)
  <2>0. Sound(p) /\ Fronted(l, p, k)
    BY PutIsSound
  <2> HIDE DEF p
  <2>4. PICK R \in SUBSET Held(p) : Add(l, k, bytes, hasTTL) = Without(p, R)
    BY AddIsSound DEF p
  <2>5. /\ Shrunk(p, Add(l, k, bytes, hasTTL), R)
        /\ Add(l, k, bytes, hasTTL).cleanupCursor = CursorWithout(p, p.cleanupCursor, R)
    BY <1>0, <2>0, <2>4
  <2> QED
    BY <2>0, <2>5 DEF p
<1> QED
  BY <1>1, <1>2, <1>3

\* A purged cache is in the order of any use.
LEMMA EmptyInOrder ==
    ASSUME NEW used \in Seq(Keys)
    PROVE  InOrder(New, used)
<1>1. New.order = <<>> /\ Held(New) = {}
  BY EmptyFacts DEF New, Held
<1> DEFINE left == Remaining(used, Keys \ {})
<1>2. left \in Seq(Keys) /\ ToSet(left) = ToSet(used) \ (Keys \ {})
  BY RemainingStep, RemainingFacts
<1>3. ToSet(used) \in SUBSET Keys
  BY ElementsOf
<1> HIDE DEF left
<1>4. Len(left) \in Nat /\ \A i \in 1..Len(left) : left[i] \in {}
  BY <1>2, <1>3, ElementsOf
<1>5. left = <<>>
  BY <1>2, <1>4
<1> QED
  BY <1>1, <1>5 DEF InOrder, left

\* The list stays in the order of use.
LEMMA NextKeepsOrder ==
    ASSUME HIInv, [HNext]_hvars
    PROVE  InOrder(lru', recency')
<1>1. Sound(lru) /\ InOrder(lru, recency) /\ recency \in Seq(Keys)
  BY DEF HIInv, InOrder
<1>2. ASSUME NEW k \in Keys, get(k), Hit(lru, k), Used(k)
      PROVE  InOrder(lru', recency')
  <2>1. Fronted(lru, lru', k)
    BY <1>1, <1>2, GetsAndAdds DEF get
  <2> QED
    BY <1>1, <1>2, <2>1, UseKeepsOrder DEF Used
<1>3. ASSUME NEW k \in Keys, get(k), ~Hit(lru, k), NotUsed
      PROVE  InOrder(lru', recency')
  <2>1. lru' = lru \/ \E R \in SUBSET Held(lru) : Shrunk(lru, lru', R)
    BY <1>1, <1>3, GetsAndAdds DEF get
  <2>2. recency' = recency
    BY <1>3 DEF NotUsed
  <2> QED
    BY <1>1, <2>1, <2>2, ShrinkingKeepsOrder
<1>4. ASSUME NEW k \in Keys, Expire(k), NotUsed
      PROVE  InOrder(lru', recency')
  <2>1. lru'.order = lru.order
    BY <1>1, <1>4, ExpireIsSound DEF Expire
  <2>2. recency' = recency
    BY <1>4 DEF NotUsed
  <2> QED
    BY <1>1, <2>1, <2>2 DEF InOrder, Held
<1>5. ASSUME NEW k \in Keys, NEW bytes \in Sizes, NEW hasTTL \in BOOLEAN,
             Hadd(k, bytes, hasTTL)
      PROVE  InOrder(lru', recency')
  <2> DEFINE p == Put(lru, k, bytes, hasTTL)
             a == Add(lru, k, bytes, hasTTL)
  <2>1. bytes \in Nat \ {0} /\ addExpiryScanLimit \in Nat \ {0}
    BY SizesAssumption, LimitsAssumption
  <2>2. Sound(p) /\ Fronted(lru, p, k) /\ Sound(a) /\ \E R \in SUBSET Held(p) : Shrunk(p, a, R)
    BY <1>1, <2>1, PutIsSound, AddIsSound, GetsAndAdds
  <2>3. lru' = CleanupExpiredAmortized(a, addExpiryScanLimit)
    BY <1>5 DEF Hadd, add
  <2>4. recency' = Append(Remaining(recency, {k}), k)
    BY <1>5 DEF Hadd, Used
  <2> HIDE DEF p, a
  <2>5. InOrder(p, recency')
    BY <1>1, <2>2, <2>4, UseKeepsOrder
  <2>6. InOrder(a, recency')
    BY <2>2, <2>5, ShrinkingKeepsOrder
  <2>7. \E R \in SUBSET Held(a) : Shrunk(a, lru', R)
    BY <2>1, <2>2, <2>3, ScansAreSound
  <2> QED
    BY <2>2, <2>6, <2>7, ShrinkingKeepsOrder
<1>6. CASE purge /\ NotUsed
  BY <1>1, <1>6, EmptyInOrder DEF purge, NotUsed
<1>7. CASE HcleanupBatch
  <2>1. Shrunk(lru, lru', Scanned(lru, lru.cleanupCursor, cleanupBatchSize) \cap lru.expired)
    BY <1>1, <1>7, ScansAreSound, LimitsAssumption DEF HcleanupBatch, cleanupBatch
  <2>2. recency' = recency
    BY <1>7 DEF HcleanupBatch
  <2> QED
    BY <1>1, <2>1, <2>2, ShrinkingKeepsOrder
<1>8. CASE UNCHANGED hvars
  BY <1>1, <1>8 DEF hvars
<1> QED
  BY <1>2, <1>3, <1>4, <1>5, <1>6, <1>7, <1>8 DEF HNext, Hget

\* A round still owes only what its scan will come to.
LEMMA NextKeepsRounds ==
    ASSUME HIInv, [HNext]_hvars
    PROVE  RoundInvariant'
<1>1. Sound(lru)
  BY DEF HIInv
<1>2. /\ owed \subseteq lru.expired /\ inRound \in BOOLEAN /\ bumped \in BOOLEAN
      /\ ~inRound => lru.cleanupCursor = Nil
      /\ ~bumped => \A x \in owed : inRound /\ InReach(lru, x)
  BY DEF HIInv, RoundInvariant
<1>3. lru.cleanupCursor \in Held(lru) \cup {Nil} /\ lru.expired \subseteq Held(lru)
  BY <1>1 DEF Sound
<1>4. ASSUME NEW k \in Keys, get(k), Hit(lru, k), Used(k)
      PROVE  RoundInvariant'
  <2>1. Fronted(lru, lru', k)
    BY <1>1, <1>4, GetsAndAdds DEF get
  <2>2. /\ owed' = (owed \cap Held(lru')) \ {k} /\ inRound' = inRound
        /\ bumped' = (bumped \/ lru.cleanupCursor = k)
    BY <1>4 DEF Used
  <2>3. ASSUME ~bumped', NEW x \in owed'
        PROVE  inRound' /\ InReach(lru', x)
    <3>1. ~bumped /\ lru.cleanupCursor # k /\ x # k /\ x \in owed
      BY <2>2, <2>3
    <3>2. inRound /\ InReach(lru, x)
      BY <1>2, <3>1
    <3> QED
      BY <1>1, <2>1, <2>2, <3>1, <3>2, UseKeepsReach
  <2>4. /\ owed' \subseteq lru'.expired /\ inRound' \in BOOLEAN /\ bumped' \in BOOLEAN
        /\ ~inRound' => lru'.cleanupCursor = Nil
    BY <1>2, <2>1, <2>2 DEF Fronted
  <2> QED
    BY <2>3, <2>4 DEF RoundInvariant
<1>5. ASSUME NEW k \in Keys, get(k), ~Hit(lru, k), NotUsed
      PROVE  RoundInvariant'
  <2>1. owed' = owed \cap Held(lru') /\ inRound' = inRound /\ bumped' = bumped
    BY <1>5 DEF NotUsed
  <2>2. CASE lru' = lru
    BY <1>2, <2>1, <2>2 DEF RoundInvariant
  <2>3. ASSUME NEW R \in SUBSET Held(lru), Shrunk(lru, lru', R),
               lru'.cleanupCursor = CursorWithout(lru, lru.cleanupCursor, R)
        PROVE  RoundInvariant'
    <3>1. ASSUME ~bumped', NEW x \in owed'
          PROVE  inRound' /\ InReach(lru', x)
      <4>1. x \in Held(lru') /\ inRound /\ InReach(lru, x)
        BY <1>2, <2>1, <3>1
      <4> QED
        BY <1>1, <2>1, <2>3, <4>1, ShrinkingKeepsReach
    <3>2. ~inRound' => lru'.cleanupCursor = Nil
      <4>1. R \in SUBSET Keys
        BY <1>1, ListFacts
      <4> QED
        BY <1>1, <1>2, <1>3, <2>1, <2>3, <4>1, CursorMoves
    <3>3. owed' \subseteq lru'.expired /\ inRound' \in BOOLEAN /\ bumped' \in BOOLEAN
      BY <1>2, <2>1, <2>3 DEF Shrunk
    <3> QED
      BY <3>1, <3>2, <3>3 DEF RoundInvariant
  <2> QED
    BY <1>1, <1>5, <2>2, <2>3, GetsAndAdds DEF get
<1>6. ASSUME NEW k \in Keys, Expire(k), NotUsed
      PROVE  RoundInvariant'
  <2>1. /\ lru'.order = lru.order /\ lru'.cleanupCursor = lru.cleanupCursor
        /\ lru'.expired = lru.expired \cup {k}
    BY <1>1, <1>6, ExpireIsSound DEF Expire
  <2>2. owed' = owed \cap Held(lru') /\ inRound' = inRound /\ bumped' = bumped
    BY <1>6 DEF NotUsed
  <2>3. \A x : InReach(lru', x) <=> InReach(lru, x)
    BY <2>1 DEF InReach, Ahead
  <2> QED
    BY <1>2, <2>1, <2>2, <2>3 DEF RoundInvariant
<1>7. ASSUME NEW k \in Keys, NEW bytes \in Sizes, NEW hasTTL \in BOOLEAN,
             Hadd(k, bytes, hasTTL)
      PROVE  RoundInvariant'
  <2> DEFINE p == Put(lru, k, bytes, hasTTL)
             a == Add(lru, k, bytes, hasTTL)
  <2>1. bytes \in Nat \ {0} /\ addExpiryScanLimit \in Nat \ {0}
    BY SizesAssumption, LimitsAssumption
  <2>2. Sound(p) /\ Fronted(lru, p, k) /\ Sound(a)
    BY <1>1, <2>1, PutIsSound, AddIsSound
  <2>3. \E R \in SUBSET Held(p) :
           Shrunk(p, a, R) /\ a.cleanupCursor = CursorWithout(p, p.cleanupCursor, R)
    BY <1>1, <2>1, GetsAndAdds
  <2>4. lru' = CleanupExpiredAmortized(a, addExpiryScanLimit)
    BY <1>7 DEF Hadd, add
  <2>5. /\ owed' = (owed \cap Held(lru')) \ {k} /\ inRound' = inRound
        /\ bumped' = (bumped \/ lru.cleanupCursor = k)
    BY <1>7 DEF Hadd, Used
  <2> HIDE DEF p, a
  <2>6. PICK R \in SUBSET Held(p) :
           Shrunk(p, a, R) /\ a.cleanupCursor = CursorWithout(p, p.cleanupCursor, R)
    BY <2>3
  <2>7. PICK T \in SUBSET Held(a) :
           Shrunk(a, lru', T) /\ lru'.cleanupCursor = CursorWithout(a, a.cleanupCursor, T)
    BY <2>1, <2>2, <2>4, ScansAreSound
  <2>8. Held(lru') \subseteq Held(a) /\ Held(a) \subseteq Held(p)
    BY <2>6, <2>7 DEF Shrunk
  <2>9. ASSUME ~bumped', NEW x \in owed'
        PROVE  inRound' /\ InReach(lru', x)
    <3>1. /\ ~bumped /\ lru.cleanupCursor # k /\ x # k /\ x \in owed
          /\ x \in Held(lru') /\ x \in Held(a)
      BY <2>5, <2>8, <2>9
    <3>2. inRound /\ InReach(lru, x)
      BY <1>2, <3>1
    <3>3. InReach(p, x)
      BY <1>1, <2>2, <3>1, <3>2, UseKeepsReach
    <3>4. InReach(a, x)
      BY <2>2, <2>6, <3>1, <3>3, ShrinkingKeepsReach
    <3> QED
      BY <2>2, <2>5, <2>7, <3>1, <3>2, <3>4, ShrinkingKeepsReach
  <2>10. ~inRound' => lru'.cleanupCursor = Nil
    <3> SUFFICES ASSUME ~inRound'
                 PROVE  lru'.cleanupCursor = Nil
      OBVIOUS
    <3>1. p.cleanupCursor = Nil
      BY <1>2, <2>2, <2>5 DEF Fronted
    <3>2. R \in SUBSET Keys /\ T \in SUBSET Keys
      BY <2>2, ListFacts
    <3>3. a.cleanupCursor = Nil
      BY <2>2, <2>6, <3>1, <3>2, CursorMoves
    <3> QED
      BY <2>2, <2>7, <3>2, <3>3, CursorMoves
  <2>11. owed' \subseteq lru'.expired /\ inRound' \in BOOLEAN /\ bumped' \in BOOLEAN
    <3>1. p.expired = lru.expired \ {k}
      BY <2>2 DEF Fronted
    <3>2. /\ a.expired = p.expired \ R /\ Held(a) = Held(p) \ R
          /\ lru'.expired = a.expired \ T /\ Held(lru') = Held(a) \ T
      BY <2>6, <2>7 DEF Shrunk
    <3> QED
      BY <1>2, <2>5, <3>1, <3>2
  <2> QED
    BY <2>9, <2>10, <2>11 DEF RoundInvariant
<1>8. CASE purge /\ NotUsed
  <2>1. lru'.cleanupCursor = Nil /\ Held(lru') = {}
    BY <1>8, EmptyFacts DEF purge, New, Held
  <2>2. owed' = {} /\ inRound' = inRound /\ bumped' = bumped
    BY <1>8, <2>1 DEF NotUsed
  <2> QED
    BY <1>2, <2>1, <2>2 DEF RoundInvariant
<1>9. CASE HcleanupBatch
  <2> DEFINE seen == Scanned(lru, lru.cleanupCursor, cleanupBatchSize)
             next == ScanNext(lru, lru.cleanupCursor, cleanupBatchSize)
             due == IF inRound THEN owed ELSE lru.expired
  <2>1. /\ Shrunk(lru, lru', seen \cap lru.expired) /\ Sound(lru')
        /\ lru'.cleanupCursor = next
    BY <1>1, <1>9, ScansAreSound, LimitsAssumption DEF HcleanupBatch, cleanupBatch
  <2>2. /\ inRound' = (lru'.cleanupCursor # Nil) /\ owed' = due \cap Held(lru')
        /\ bumped' = (inRound /\ bumped)
    BY <1>9 DEF HcleanupBatch
  <2>3. /\ next \in (Held(lru) \ seen) \cup {Nil}
        /\ \A x \in Held(lru) \ seen :
              lru.cleanupCursor = Nil \/ Ahead(lru, lru.cleanupCursor, x)
              => next # Nil /\ Ahead(lru, next, x)
    BY <1>1, <1>3, ScanFacts, LimitsAssumption
  <2> HIDE DEF seen, next
  <2>4. due \subseteq lru.expired
    BY <1>2
  <2>5. ASSUME ~bumped', NEW x \in owed'
        PROVE  inRound' /\ InReach(lru', x)
    <3>1. x \in due /\ x \in Held(lru') /\ x \in Held(lru) \ seen
      BY <1>3, <2>1, <2>2, <2>4, <2>5 DEF Shrunk
    <3>2. lru.cleanupCursor = Nil \/ Ahead(lru, lru.cleanupCursor, x)
      BY <1>2, <2>2, <2>5, <3>1 DEF InReach
    <3>3. next # Nil /\ Ahead(lru, next, x) /\ next \in Held(lru) \ seen
      BY <2>3, <3>1, <3>2
    <3>4. CASE x = next
      BY <2>1, <2>2, <3>3, <3>4 DEF InReach, Ahead
    <3>5. CASE Before(lru.order, next, x)
      <4>1. lru.order \in Seq(Keys)
        BY <1>1, ListFacts
      <4>2. Before(lru'.order, next, x)
        BY <2>1, <3>1, <3>3, <3>5, <4>1, RemainingFacts DEF Shrunk
      <4> QED
        BY <2>1, <2>2, <3>3, <4>2 DEF InReach, Ahead
    <3> QED
      BY <3>3, <3>4, <3>5 DEF Ahead
  <2>6. owed' \subseteq lru'.expired
    BY <2>1, <2>2, <2>4 DEF Shrunk
  <2>7. inRound' \in BOOLEAN /\ bumped' \in BOOLEAN /\ (~inRound' => lru'.cleanupCursor = Nil)
    BY <1>2, <2>2
  <2> QED
    BY <2>5, <2>6, <2>7 DEF RoundInvariant
<1>10. CASE UNCHANGED hvars
  BY <1>2, <1>10 DEF hvars, RoundInvariant
<1> QED
  BY <1>4, <1>5, <1>6, <1>7, <1>8, <1>9, <1>10 DEF HNext, Hget

\* The history only watches: what it sees are executions of the cache.
THEOREM CacheHistoryOnlyWatches == HSpec => Spec
<1>1. HInit => Init
  BY DEF HInit
<1>2. [HNext]_hvars => [Next]_vars
  BY DEF HNext, Hget, Hadd, HcleanupBatch, hvars, Next, Write, vars
<1> QED
  BY <1>1, <1>2, PTL DEF HSpec, Spec

\* The cache, the order of use and what a round still owes, together.
THEOREM CacheHistoryInvariant == HSpec => []HIInv
<1>1. HInit => HIInv
  <2> SUFFICES ASSUME HInit
               PROVE  HIInv
    OBVIOUS
  <2>1. lru = New /\ recency = <<>> /\ inRound = FALSE /\ owed = {} /\ bumped = FALSE
    BY DEF HInit, Init
  <2>2. Sound(lru) /\ InOrder(lru, recency)
    <3>1. <<>> \in Seq(Keys)
      OBVIOUS
    <3> QED
      BY <2>1, <3>1, NewIsSound, EmptyInOrder
  <2>3. lru.cleanupCursor = Nil
    BY <2>1 DEF New
  <2> QED
    BY <2>1, <2>2, <2>3 DEF HIInv, RoundInvariant
<1>2. HIInv /\ [HNext]_hvars => HIInv'
  <2> SUFFICES ASSUME HIInv, [HNext]_hvars
               PROVE  HIInv'
    OBVIOUS
  <2>1. [Next]_vars
    BY DEF HNext, Hget, Hadd, HcleanupBatch, hvars, Next, Write, vars
  <2>2. Sound(lru')
    BY <2>1, NextKeepsSound DEF HIInv
  <2> QED
    BY <2>2, NextKeepsOrder, NextKeepsRounds DEF HIInv
<1> QED
  BY <1>1, <1>2, PTL DEF HSpec

\* The list is in order of last use, so eviction takes the least recently used.
THEOREM ListStaysInRecencyOrder == HSpec => []ListInRecencyOrder
<1>1. HIInv => ListInRecencyOrder
  BY DEF HIInv, InOrder, ListInRecencyOrder
<1> QED
  BY <1>1, CacheHistoryInvariant, PTL

\* A finished round has removed what had expired before it began and stayed where it was,
\* unless the element under its cursor was moved to Front meanwhile.
THEOREM RoundsCoverUnlessBumped == HSpec => []RoundCoversUnlessBumped
<1>1. HIInv => RoundCoversUnlessBumped
  BY DEF HIInv, RoundInvariant, RoundCoversUnlessBumped
<1> QED
  BY <1>1, CacheHistoryInvariant, PTL
===============================================================================
