--------------------------- MODULE SequenceLemmas ---------------------------
(***************************************************************************)
(* Facts about natural numbers and about operators of the community        *)
(* modules that the proofs about several components need: induction, sums, *)
(* what SetToSeq and RemoveAt return, FlattenSeq, and the places of an     *)
(* element in a sequence.                                                  *)
(***************************************************************************)
EXTENDS Integers, Sequences, FiniteSets, SequencesExt, FiniteSetTheorems,
        SequenceTheorems, WellFoundedInduction, TLAPS

-----------------------------------------------------------------------------
(* Numbers and sums.                                                       *)

(* A set of natural numbers that is not empty has a least element.         *)
LEMMA LeastNumber ==
  ASSUME NEW S, S \subseteq Nat, S # {}
  PROVE  \E n \in S : \A m \in S : n <= m
<1>1. \A x, y \in Nat : << y, x >> \in OpToRel(<, Nat) <=> y < x
  BY DEF OpToRel
<1>2. PICK R : IsWellFoundedOn(R, Nat) /\ \A x, y \in Nat : << y, x >> \in R <=> y < x
  BY <1>1, NatLessThanWellFounded, Zenon
<1>3. PICK n \in S : \A m \in S : ~ (<< m, n >> \in R)
  BY <1>2, WFMin
<1>4. \A m \in S : ~ (m < n)
  BY <1>2, <1>3
<1>5. \A m \in S : n <= m
  BY <1>4, <1>3
<1>6. QED
  BY <1>5

(* Induction over the natural numbers, for a property given as a set.      *)
LEMMA SetInduction ==
  ASSUME NEW S, 0 \in S, \A n \in Nat : n \in S => n + 1 \in S
  PROVE  \A n \in Nat : n \in S
<1>1. SUFFICES ASSUME Nat \ S # {} PROVE FALSE
  OBVIOUS
<1>2. PICK n \in Nat \ S : \A m \in Nat \ S : n <= m
  BY <1>1, LeastNumber
<1>3. n - 1 \in Nat
  BY <1>2
<1>4. n - 1 \in S
  BY <1>2, <1>3
<1>5. QED
  BY <1>2, <1>3, <1>4

(* What is to be summed, one cell per unit.                                *)
Cells(f, T) == { c \in T \X Nat : c[2] < f[c[1]] }

(* The cells of a set are those of one element and those of the others.    *)
LEMMA CellsOfOne ==
  ASSUME NEW f, NEW T, NEW x \in T, f[x] \in Nat,
         IsFiniteSet(Cells(f, T \ {x}))
  PROVE  /\ IsFiniteSet(Cells(f, T))
         /\ Cardinality(Cells(f, T)) = f[x] + Cardinality(Cells(f, T \ {x}))
<1> DEFINE column == {x} \X (0 .. f[x] - 1)
<1>1. Cells(f, T) = Cells(f, T \ {x}) \cup column
  <2>1. \A n \in Nat : n < f[x] <=> n \in 0 .. f[x] - 1
    OBVIOUS
  <2>2. \A c \in Cells(f, T) : c \in Cells(f, T \ {x}) \cup column
    BY <2>1 DEF Cells
  <2>3. \A c \in Cells(f, T \ {x}) \cup column : c \in Cells(f, T)
    BY <2>1 DEF Cells
  <2>4. QED
    BY <2>2, <2>3
<1>2. Cells(f, T \ {x}) \cap column = {}
  BY DEF Cells
<1>3. IsFiniteSet({x}) /\ Cardinality({x}) = 1
  BY FS_Singleton
<1>4. IsFiniteSet(0 .. f[x] - 1) /\ Cardinality(0 .. f[x] - 1) = f[x]
  <2>1. PICK b \in Int : b = f[x] - 1
    OBVIOUS
  <2>2. 0 \in Int /\ (0 > b <=> f[x] = 0) /\ b - 0 + 1 = f[x]
    BY <2>1
  <2>3. IsFiniteSet(0 .. b) /\ Cardinality(0 .. b) = IF 0 > b THEN 0 ELSE b - 0 + 1
    BY <2>2, FS_Interval
  <2>4. QED
    BY <2>1, <2>2, <2>3
<1>5. IsFiniteSet(column) /\ Cardinality(column) = f[x]
  <2> DEFINE one == {x}
             range == 0 .. f[x] - 1
  <2>1. /\ IsFiniteSet(one) /\ Cardinality(one) = 1
        /\ IsFiniteSet(range) /\ Cardinality(range) = f[x]
    BY <1>3, <1>4
  <2>2. column = one \X range
    OBVIOUS
  <2> HIDE DEF one, range, column
  <2>3. IsFiniteSet(one \X range) /\ Cardinality(one \X range) = Cardinality(one) * Cardinality(range)
    BY <2>1, FS_Product
  <2>4. QED
    BY <2>1, <2>2, <2>3
<1> HIDE DEF column
<1>6. Cardinality(Cells(f, T \ {x}) \cap column) = 0
  BY <1>2, FS_EmptySet
<1>7. Cardinality(Cells(f, T \ {x})) \in Nat
  BY FS_CardinalityType
<1> DEFINE others == Cells(f, T \ {x})
<1>8. IsFiniteSet(others)
  OBVIOUS
<1> HIDE DEF others
<1>9. /\ IsFiniteSet(others \cup column)
      /\ Cardinality(others \cup column)
         = Cardinality(others) + Cardinality(column) - Cardinality(others \cap column)
  BY <1>5, <1>8, FS_Union
<1>10. QED
  BY <1>1, <1>5, <1>6, <1>7, <1>9 DEF others

LEMMA CellsFinite ==
  ASSUME NEW S, IsFiniteSet(S), NEW f \in [S -> Nat]
  PROVE  \A T \in SUBSET S : IsFiniteSet(Cells(f, T))
<1> DEFINE Good == { n \in Nat : \A T \in SUBSET S : Cardinality(T) = n => IsFiniteSet(Cells(f, T)) }
<1>1. \A T \in SUBSET S : IsFiniteSet(T) /\ Cardinality(T) \in Nat
  BY FS_Subset, FS_CardinalityType
<1>2. 0 \in Good
  <2>1. ASSUME NEW T \in SUBSET S, Cardinality(T) = 0 PROVE IsFiniteSet(Cells(f, T))
    <3>1. T = {}
      BY <1>1, <2>1, FS_EmptySet
    <3>2. Cells(f, T) = {}
      BY <3>1 DEF Cells
    <3>3. QED
      BY <3>2, FS_EmptySet
  <2>2. QED
    BY <2>1
<1>3. ASSUME NEW n \in Nat, n \in Good PROVE n + 1 \in Good
  <2>1. ASSUME NEW T \in SUBSET S, Cardinality(T) = n + 1 PROVE IsFiniteSet(Cells(f, T))
    <3>1. T # {}
      BY <2>1, FS_EmptySet
    <3>2. PICK x : x \in T
      BY <3>1
    <3>3. T \ {x} \in SUBSET S /\ Cardinality(T \ {x}) = n
      BY <1>1, <2>1, <3>2, FS_RemoveElement
    <3>4. IsFiniteSet(Cells(f, T \ {x}))
      BY <3>3, <1>3
    <3>5. f[x] \in Nat
      BY <3>2
    <3>6. QED
      BY <3>2, <3>4, <3>5, CellsOfOne
  <2>2. QED
    BY <2>1
<1> HIDE DEF Good
<1>4. \A n \in Nat : n \in Good
  BY <1>2, <1>3, SetInduction
<1>5. QED
  BY <1>1, <1>4 DEF Good

(* A sum is a number of cells.                                             *)
LEMMA SumIsCells ==
  ASSUME NEW S, IsFiniteSet(S), NEW f \in [S -> Nat]
  PROVE  /\ IsFiniteSet(Cells(f, S))
         /\ SumFunction(f) = Cardinality(Cells(f, S))
<1> DEFINE pick(T) == CHOOSE x \in T : TRUE
           Body(h, T) == IF T = {} THEN 0 ELSE f[pick(T)] + h[T \ {pick(T)}]
           iter == CHOOSE h : h = [T \in SUBSET S |-> Body(h, T)]
           count == [T \in SUBSET S |-> Cardinality(Cells(f, T))]
<1>1. SumFunction(f) = iter[S]
  BY DEF SumFunction, SumFunctionOnSet, FoldFunctionOnSet, MapThenFoldSet
<1>2. \A T \in SUBSET S : IsFiniteSet(T) /\ Cardinality(T) \in Nat /\ IsFiniteSet(Cells(f, T))
  BY FS_Subset, FS_CardinalityType, CellsFinite
<1>3. \A T \in SUBSET S : T # {} => pick(T) \in T
  OBVIOUS
<1>4. ASSUME NEW T \in SUBSET S PROVE count[T] = Body(count, T)
  <2>1. CASE T = {}
    <3>1. Cells(f, T) = {}
      BY <2>1 DEF Cells
    <3>2. QED
      BY <2>1, <3>1, FS_EmptySet
  <2>2. CASE T # {}
    <3> DEFINE x == pick(T)
    <3>1. x \in T
      BY <2>2, <1>3
    <3> HIDE DEF x
    <3>2. f[x] \in Nat /\ T \ {x} \in SUBSET S
      BY <3>1
    <3>3. Cardinality(Cells(f, T)) = f[x] + Cardinality(Cells(f, T \ {x}))
      BY <3>1, <3>2, <1>2, CellsOfOne
    <3>4. QED
      BY <2>2, <3>2, <3>3 DEF x
  <2>3. QED
    BY <2>1, <2>2
<1> HIDE DEF pick
<1>5. count = [T \in SUBSET S |-> Body(count, T)]
  BY <1>4
<1>6. iter = [T \in SUBSET S |-> Body(iter, T)]
  <2> HIDE DEF count
  <2>1. \E h : h = [T \in SUBSET S |-> Body(h, T)]
    BY <1>5
  <2>2. QED
    BY <2>1
<1> HIDE DEF iter
<1> DEFINE Good == { n \in Nat : \A T \in SUBSET S : Cardinality(T) = n => iter[T] = count[T] }
<1>7. 0 \in Good
  <2>1. ASSUME NEW T \in SUBSET S, Cardinality(T) = 0 PROVE iter[T] = count[T]
    <3>1. T = {}
      BY <1>2, <2>1, FS_EmptySet
    <3>2. iter[T] = 0
      BY <3>1, <1>6
    <3>3. count[T] = 0
      <4>1. count[T] = Body(count, T)
        BY <1>4
      <4>2. QED
        BY <4>1, <3>1
    <3>4. QED
      BY <3>2, <3>3
  <2>2. QED
    BY <2>1
<1>8. ASSUME NEW n \in Nat, n \in Good PROVE n + 1 \in Good
  <2>1. ASSUME NEW T \in SUBSET S, Cardinality(T) = n + 1 PROVE iter[T] = count[T]
    <3>1. T # {}
      BY <2>1, FS_EmptySet
    <3>2. pick(T) \in T
      BY <3>1, <1>3
    <3>3. T \ {pick(T)} \in SUBSET S /\ Cardinality(T \ {pick(T)}) = n
      <4> DEFINE x == pick(T)
      <4> HIDE DEF x
      <4>1. x \in T
        BY <3>2 DEF x
      <4> HIDE DEF count, Good
      <4>2. IsFiniteSet(T) /\ Cardinality(T) = n + 1
        BY <1>2, <2>1
      <4>3. Cardinality(T \ {x}) = Cardinality(T) - 1
        BY <4>1, <4>2, FS_RemoveElement
      <4>4. QED
        BY <4>2, <4>3 DEF x
    <3>4. iter[T \ {pick(T)}] = count[T \ {pick(T)}]
      BY <3>3, <1>8
    <3>5. iter[T] = f[pick(T)] + iter[T \ {pick(T)}]
      BY <3>1, <1>6
    <3>6. count[T] = f[pick(T)] + count[T \ {pick(T)}]
      <4> HIDE DEF count
      <4>1. QED
        BY <3>1, <1>4
    <3>7. QED
      BY <3>4, <3>5, <3>6
  <2> HIDE DEF count
  <2>2. QED
    BY <2>1
<1> HIDE DEF Good
<1>9. \A n \in Nat : n \in Good
  BY <1>7, <1>8, SetInduction
<1>10. S \in SUBSET S
  OBVIOUS
<1>11. iter[S] = count[S]
  BY <1>2, <1>9, <1>10 DEF Good
<1>12. QED
  BY <1>1, <1>2, <1>10, <1>11
(* A sum over nothing.                                                     *)
LEMMA SumOfNone ==
  ASSUME NEW f \in [{} -> Nat]
  PROVE  SumFunction(f) = 0
<1>1. Cells(f, {}) = {}
  BY DEF Cells
<1>2. QED
  BY <1>1, SumIsCells, FS_EmptySet

(* A sum is one of its terms and the sum of the others.                    *)
LEMMA SumOfOthers ==
  ASSUME NEW S, IsFiniteSet(S), NEW f \in [S -> Nat], NEW x \in S,
         NEW g \in [S \ {x} -> Nat], \A y \in S \ {x} : g[y] = f[y]
  PROVE  SumFunction(f) = f[x] + SumFunction(g)
<1>1. g \in [S \ {x} -> Nat] /\ IsFiniteSet(S \ {x}) /\ f[x] \in Nat
  BY FS_RemoveElement
<1>2. Cells(g, S \ {x}) = Cells(f, S \ {x})
  BY DEF Cells
<1>3. IsFiniteSet(Cells(g, S \ {x})) /\ SumFunction(g) = Cardinality(Cells(g, S \ {x}))
  BY <1>1, SumIsCells
<1>4. IsFiniteSet(Cells(f, S)) /\ SumFunction(f) = Cardinality(Cells(f, S))
  BY SumIsCells
<1>5. Cardinality(Cells(f, S)) = f[x] + Cardinality(Cells(f, S \ {x}))
  <2>1. IsFiniteSet(Cells(f, S \ {x}))
    BY <1>2, <1>3
  <2>2. QED
    BY <1>1, <2>1, CellsOfOne
<1>6. Cardinality(Cells(f, S)) \in Nat
  BY <1>4, FS_CardinalityType
<1>7. QED
  BY <1>2, <1>3, <1>4, <1>5, <1>6

(* A sum does not fall when its terms do not, and is the same only if they *)
(* are.                                                                    *)
LEMMA SumMonotone ==
  ASSUME NEW S, IsFiniteSet(S), NEW f \in [S -> Nat], NEW g \in [S -> Nat],
         \A x \in S : f[x] <= g[x]
  PROVE  /\ SumFunction(f) <= SumFunction(g)
         /\ SumFunction(f) = SumFunction(g) => \A x \in S : f[x] = g[x]
<1>1. /\ SumFunction(f) = Cardinality(Cells(f, S))
      /\ SumFunction(g) = Cardinality(Cells(g, S))
      /\ IsFiniteSet(Cells(g, S))
  BY SumIsCells
<1>2. \A x \in S : f[x] \in Nat /\ g[x] \in Nat
  OBVIOUS
<1>3. Cells(f, S) \in SUBSET Cells(g, S)
  <2>1. ASSUME NEW c \in S \X Nat, c[2] < f[c[1]] PROVE c[2] < g[c[1]]
    <3>1. c[1] \in S /\ c[2] \in Nat
      OBVIOUS
    <3>2. QED
      BY <2>1, <3>1, <1>2
  <2>2. QED
    BY <2>1 DEF Cells
<1>4. /\ Cardinality(Cells(f, S)) <= Cardinality(Cells(g, S))
      /\ Cardinality(Cells(g, S)) = Cardinality(Cells(f, S)) => Cells(g, S) = Cells(f, S)
  BY <1>1, <1>3, FS_Subset
<1>5. ASSUME Cells(g, S) = Cells(f, S), NEW x \in S, f[x] # g[x] PROVE FALSE
  <2>1. f[x] < g[x]
    BY <1>2, <1>5
  <2>2. << x, f[x] >> \in Cells(g, S)
    BY <1>2, <2>1 DEF Cells
  <2>3. << x, f[x] >> \in Cells(f, S)
    BY <1>5, <2>2
  <2>4. f[x] < f[x]
    BY <2>3 DEF Cells
  <2>5. QED
    BY <2>4, <1>2
<1>6. QED
  BY <1>1, <1>4, <1>5

-----------------------------------------------------------------------------
(* Sequences.                                                              *)

(* SetToSeq puts each element of a finite set at one place.                *)
LEMMA SetToSeqElements ==
  ASSUME NEW S, IsFiniteSet(S)
  PROVE  /\ SetToSeq(S) \in [1 .. Cardinality(S) -> S]
         /\ \A i \in DOMAIN SetToSeq(S) : SetToSeq(S)[i] \in S
         /\ \A x \in S : \E i \in DOMAIN SetToSeq(S) : SetToSeq(S)[i] = x
         /\ \A i, j \in DOMAIN SetToSeq(S) : SetToSeq(S)[i] = SetToSeq(S)[j] => i = j
<1> DEFINE n == Cardinality(S)
           q == SetToSeq(S)
<1>1. n \in Nat /\ ExistsBijection(1 .. n, S)
  BY FS_CardinalityType
<1>2. \E f \in [1 .. n -> S] : IsInjective(f)
  BY <1>1 DEF ExistsBijection, Bijection, Injection
<1>3. q \in [1 .. n -> S] /\ IsInjective(q)
  BY <1>2 DEF SetToSeq
<1> HIDE DEF q
<1>4. q \in Injection(1 .. n, S)
  BY <1>3 DEF Injection
<1>5. IsFiniteSet(1 .. n) /\ Cardinality(1 .. n) = n
  BY <1>1, FS_Interval
<1>6. q \in Surjection(1 .. n, S)
  BY <1>4, <1>5, FS_Injection
<1>7. \A x \in S : \E i \in 1 .. n : q[i] = x
  BY <1>6 DEF Surjection
<1>8. QED
  BY <1>3, <1>7 DEF IsInjective, q

(* RemoveAt closes the gap, and the elements behind it move up.            *)
LEMMA RemoveAtElements ==
  ASSUME NEW S, NEW q \in Seq(S), NEW k \in DOMAIN q
  PROVE  /\ RemoveAt(q, k) \in Seq(S)
         /\ Len(RemoveAt(q, k)) = Len(q) - 1
         /\ \A j \in DOMAIN RemoveAt(q, k) :
              RemoveAt(q, k)[j] = IF j < k THEN q[j] ELSE q[j + 1]
<1>1. Len(q) \in Nat /\ DOMAIN q = 1 .. Len(q) /\ k \in 1 .. Len(q)
  OBVIOUS
<1> DEFINE front == SubSeq(q, 1, k - 1)
           back == SubSeq(q, k + 1, Len(q))
<1>2. /\ front \in Seq(S) /\ Len(front) = k - 1
      /\ \A j \in 1 .. k - 1 : front[j] = q[j]
  BY <1>1
<1>3. /\ back \in Seq(S) /\ Len(back) = Len(q) - k
      /\ \A j \in 1 .. Len(q) - k : back[j] = q[k + j]
  BY <1>1
<1>4. RemoveAt(q, k) = front \o back
  BY DEF RemoveAt
<1> HIDE DEF front, back
<1>5. /\ front \o back \in Seq(S)
      /\ Len(front \o back) = Len(front) + Len(back)
      /\ \A j \in 1 .. Len(front) + Len(back) :
           (front \o back)[j] = IF j <= Len(front) THEN front[j] ELSE back[j - Len(front)]
  BY <1>2, <1>3, ConcatProperties
<1>6. RemoveAt(q, k) \in Seq(S) /\ Len(RemoveAt(q, k)) = Len(q) - 1
  BY <1>1, <1>2, <1>3, <1>4, <1>5
<1>7. ASSUME NEW j \in 1 .. Len(q) - 1
      PROVE  RemoveAt(q, k)[j] = IF j < k THEN q[j] ELSE q[j + 1]
  <2>1. CASE j < k
    BY <1>1, <1>2, <1>3, <1>4, <1>5, <2>1
  <2>2. CASE j >= k
    <3>1. j - (k - 1) \in 1 .. Len(q) - k /\ k + (j - (k - 1)) = j + 1
      BY <1>1, <2>2
    <3>2. RemoveAt(q, k)[j] = back[j - (k - 1)]
      BY SMTT(30), <1>1, <1>2, <1>3, <1>4, <1>5, <2>2
    <3>3. QED
      BY <1>1, <1>3, <2>2, <3>1, <3>2
  <2>3. QED
    BY <1>1, <2>1, <2>2
<1>8. QED
  BY <1>1, <1>6, <1>7

-----------------------------------------------------------------------------
(* FlattenSeq puts sequences one behind the other.                         *)

(* The partial results of FlattenSeq are determined by its equation.       *)
Flattens(f, seqs, n) ==
  \A i \in 1 .. n : f[i] = IF i = 1 THEN seqs[i] ELSE f[i - 1] \o seqs[i]

SameUpTo(s, t, n) == \A i \in 1 .. n : s[i] = t[i]

LEMMA FlattensUnique ==
  ASSUME NEW s, NEW t, NEW n \in Nat, NEW m \in Nat, n <= m,
         NEW f, NEW g, Flattens(f, s, n), Flattens(g, t, m),
         SameUpTo(s, t, n)
  PROVE  SameUpTo(f, g, n)
<1> USE DEF SameUpTo
<1> DEFINE Good == { i \in Nat : i \in 1 .. n => f[i] = g[i] }
<1>1. 0 \in Good
  OBVIOUS
<1>2. ASSUME NEW i \in Nat, i \in Good PROVE i + 1 \in Good
  <2>1. CASE i = 0
    <3>1. SUFFICES ASSUME 1 \in 1 .. n PROVE f[1] = g[1]
      BY <2>1
    <3>2. f[1] = s[1] /\ g[1] = t[1] /\ s[1] = t[1]
      BY <3>1 DEF Flattens
    <3>3. QED
      BY <3>2
  <2>2. CASE i # 0
    <3>1. SUFFICES ASSUME i + 1 \in 1 .. n PROVE f[i + 1] = g[i + 1]
      OBVIOUS
    <3>2. f[i] = g[i]
      BY <1>2, <2>2, <3>1
    <3> DEFINE k == i + 1
    <3>9. k \in 1 .. n /\ k \in 1 .. m /\ k # 1 /\ k - 1 = i
      BY <2>2, <3>1
    <3> HIDE DEF k
    <3>3. f[k] = f[i] \o s[k]
      BY <3>9 DEF Flattens
    <3>4. g[k] = g[i] \o t[k]
      BY <3>9 DEF Flattens
    <3>5. QED
      BY <3>9, <3>2, <3>3, <3>4 DEF k
  <2>3. QED
    BY <2>1, <2>2
<1> HIDE DEF Good
<1>3. \A i \in Nat : i \in Good
  BY <1>1, <1>2, SetInduction
<1>4. QED
  BY <1>3 DEF Good

LEMMA FlattensExists ==
  ASSUME NEW T, NEW seqs \in Seq(Seq(T))
  PROVE  \A n \in 0 .. Len(seqs) : \E f \in [1 .. n -> Seq(T)] : Flattens(f, seqs, n)
<1> DEFINE Good == { n \in Nat : n <= Len(seqs) =>
                       \E f \in [1 .. n -> Seq(T)] : Flattens(f, seqs, n) }
<1>1. 0 \in Good
  <2>1. << >> \in [1 .. 0 -> Seq(T)] /\ Flattens(<< >>, seqs, 0)
    BY DEF Flattens
  <2>2. QED
    BY <2>1
<1>2. ASSUME NEW n \in Nat, n \in Good PROVE n + 1 \in Good
  <2>1. SUFFICES ASSUME n + 1 <= Len(seqs)
                 PROVE  \E f \in [1 .. n + 1 -> Seq(T)] : Flattens(f, seqs, n + 1)
    OBVIOUS
  <2>2. PICK f \in [1 .. n -> Seq(T)] : Flattens(f, seqs, n)
    BY <1>2, <2>1
  <2>3. \A i \in 1 .. n + 1 : seqs[i] \in Seq(T)
    BY <2>1
  <2> DEFINE g == [i \in 1 .. n + 1 |-> IF i <= n THEN f[i]
                     ELSE IF i = 1 THEN seqs[i] ELSE f[n] \o seqs[i]]
  <2>4. g \in [1 .. n + 1 -> Seq(T)]
    <3>1. ASSUME NEW i \in 1 .. n + 1 PROVE g[i] \in Seq(T)
      <4>1. CASE i <= n
        BY <4>1
      <4>2. CASE i > n /\ i = 1
        BY <2>3, <4>2
      <4>3. CASE i > n /\ i # 1
        <5>1. f[n] \in Seq(T) /\ seqs[i] \in Seq(T)
          BY <2>3, <4>3
        <5>2. f[n] \o seqs[i] \in Seq(T)
          BY <5>1
        <5>3. QED
          BY <4>3, <5>2
      <4>4. QED
        BY <4>1, <4>2, <4>3
    <3>2. QED
      BY <3>1
  <2>5. ASSUME NEW i \in 1 .. n + 1
        PROVE  g[i] = IF i = 1 THEN seqs[i] ELSE g[i - 1] \o seqs[i]
    <3>1. CASE i <= n
      <4>1. i \in 1 .. n /\ i - 1 <= n
        BY <3>1
      <4>2. f[i] = IF i = 1 THEN seqs[i] ELSE f[i - 1] \o seqs[i]
        BY <2>2, <4>1 DEF Flattens
      <4>3. g[i] = f[i] /\ (i # 1 => g[i - 1] = f[i - 1])
        BY <4>1
      <4> HIDE DEF g
      <4>4. QED
        BY <4>2, <4>3
    <3>2. CASE i = n + 1
      BY <3>2
    <3>3. QED
      BY <3>1, <3>2
  <2>6. Flattens(g, seqs, n + 1)
    BY <2>5 DEF Flattens
  <2>7. QED
    BY <2>4, <2>6
<1> HIDE DEF Good
<1>3. \A n \in Nat : n \in Good
  BY <1>1, <1>2, SetInduction
<1>4. QED
  BY <1>3 DEF Good

(* FlattenSeq follows its equation.                                        *)
LEMMA FlattenSeqDef ==
  ASSUME NEW T, NEW seqs \in Seq(Seq(T)), Len(seqs) # 0
  PROVE  \E f \in [1 .. Len(seqs) -> Seq(T)] :
           Flattens(f, seqs, Len(seqs)) /\ FlattenSeq(seqs) = f[Len(seqs)]
<1> DEFINE flatten == CHOOSE f : f = [i \in 1 .. Len(seqs) |->
                                        IF i = 1 THEN seqs[i] ELSE f[i - 1] \o seqs[i]]
<1>1. FlattenSeq(seqs) = flatten[Len(seqs)]
  BY DEF FlattenSeq
<1>2. Len(seqs) \in Nat /\ Len(seqs) \in 0 .. Len(seqs)
  OBVIOUS
<1>3. PICK f \in [1 .. Len(seqs) -> Seq(T)] : Flattens(f, seqs, Len(seqs))
  BY <1>2, FlattensExists
<1>4. Flattens(flatten, seqs, Len(seqs))
  <2>1. f = [i \in 1 .. Len(seqs) |-> IF i = 1 THEN seqs[i] ELSE f[i - 1] \o seqs[i]]
    <3> DEFINE h == [i \in 1 .. Len(seqs) |-> IF i = 1 THEN seqs[i] ELSE f[i - 1] \o seqs[i]]
    <3>1. \A i \in 1 .. Len(seqs) : h[i] = f[i]
      BY <1>3 DEF Flattens
    <3>2. DOMAIN h = 1 .. Len(seqs) /\ DOMAIN f = 1 .. Len(seqs) /\ h = [i \in DOMAIN h |-> h[i]]
      OBVIOUS
    <3> HIDE DEF h
    <3>3. h = f
      BY <3>1, <3>2
    <3>4. QED
      BY <3>3 DEF h
  <2>2. flatten = [i \in 1 .. Len(seqs) |->
                     IF i = 1 THEN seqs[i] ELSE flatten[i - 1] \o seqs[i]]
    BY <2>1
  <2>3. PICK h : h = flatten
    OBVIOUS
  <2>4. h = [i \in 1 .. Len(seqs) |-> IF i = 1 THEN seqs[i] ELSE h[i - 1] \o seqs[i]]
    BY ZenonT(30), <2>2, <2>3
  <2> HIDE DEF flatten
  <2>5. Flattens(h, seqs, Len(seqs))
    BY <2>4 DEF Flattens
  <2>6. QED
    BY <2>3, <2>5
<1>5. \A i \in 1 .. Len(seqs) : flatten[i] = f[i]
  <2> HIDE DEF flatten
  <2>1. SameUpTo(seqs, seqs, Len(seqs))
    BY DEF SameUpTo
  <2>2. SameUpTo(flatten, f, Len(seqs))
    BY <1>2, <1>3, <1>4, <2>1, FlattensUnique
  <2>3. QED
    BY <2>2 DEF SameUpTo
<1> HIDE DEF flatten
<1>6. flatten[Len(seqs)] = f[Len(seqs)]
  <2>1. Len(seqs) \in 1 .. Len(seqs)
    BY <1>2
  <2>2. QED
    BY <1>5, <2>1
<1>7. QED
  BY <1>1, <1>3, <1>6

LEMMA FlattenSeqEmpty == FlattenSeq(<< >>) = << >>
  BY DEF FlattenSeq

LEMMA FlattenSeqAppend ==
  ASSUME NEW T, NEW seqs \in Seq(Seq(T)), NEW s \in Seq(T)
  PROVE  /\ FlattenSeq(seqs) \in Seq(T)
         /\ FlattenSeq(Append(seqs, s)) = FlattenSeq(seqs) \o s
<1> DEFINE n == Len(seqs)
           longer == Append(seqs, s)
<1>1. n \in Nat
  OBVIOUS
<1>2. /\ longer \in Seq(Seq(T)) /\ Len(longer) = n + 1 /\ longer[n + 1] = s
      /\ \A i \in 1 .. n : longer[i] = seqs[i]
  BY AppendProperties
<1> HIDE DEF longer
<1>3. PICK g \in [1 .. n + 1 -> Seq(T)] :
        Flattens(g, longer, n + 1) /\ FlattenSeq(longer) = g[n + 1]
  BY <1>1, <1>2, FlattenSeqDef
<1>4. CASE n = 0
  <2>1. seqs = << >>
    BY <1>4
  <2>2. FlattenSeq(seqs) = << >>
    BY <2>1, FlattenSeqEmpty
  <2>3. g[1] = longer[1]
    BY <1>3, <1>4 DEF Flattens
  <2>4. FlattenSeq(longer) = s
    BY <1>2, <1>3, <1>4, <2>3
  <2>5. << >> \o s = s
    OBVIOUS
  <2>6. QED
    BY <2>2, <2>4, <2>5 DEF longer
<1>5. CASE n # 0
  <2>1. PICK f \in [1 .. n -> Seq(T)] : Flattens(f, seqs, n) /\ FlattenSeq(seqs) = f[n]
    BY <1>5, FlattenSeqDef
  <2>2. \A i \in 1 .. n : f[i] = g[i]
    <3> HIDE DEF n
    <3>1. PICK m \in Nat : m = n + 1 /\ n \in Nat /\ n <= m
      BY <1>1
    <3>2. Flattens(f, seqs, n) /\ Flattens(g, longer, m)
      BY <1>3, <2>1, <3>1
    <3>3. SameUpTo(seqs, longer, n)
      BY <1>2 DEF SameUpTo
    <3>4. SameUpTo(f, g, n)
      BY <3>1, <3>2, <3>3, FlattensUnique
    <3>5. QED
      BY <3>4 DEF SameUpTo
  <2>3. g[n + 1] = g[n] \o longer[n + 1]
    <3> DEFINE k == n + 1
    <3>1. k \in 1 .. k /\ k # 1 /\ k - 1 = n
      BY <1>1, <1>5
    <3>2. Flattens(g, longer, k)
      BY <1>3
    <3> HIDE DEF n, k
    <3>3. g[k] = g[n] \o longer[k]
      BY <3>1, <3>2 DEF Flattens
    <3>4. QED
      BY <3>3 DEF k
  <2>4. f[n] = g[n]
    BY <1>1, <1>5, <2>2
  <2>5. QED
    BY <1>1, <1>2, <1>3, <1>5, <2>1, <2>3, <2>4 DEF longer
<1>6. QED
  BY <1>4, <1>5

-----------------------------------------------------------------------------
(* The places of an element in a sequence, up to a position.               *)
PlacesUpTo(q, x, p) == { i \in 1 .. Len(q) : i <= p /\ q[i] = x }

LEMMA PlacesFinite ==
  ASSUME NEW T, NEW q \in Seq(T), NEW x, NEW p \in Nat
  PROVE  /\ IsFiniteSet(PlacesUpTo(q, x, p))
         /\ Cardinality(PlacesUpTo(q, x, p)) \in Nat
<1>1. IsFiniteSet(1 .. Len(q))
  BY FS_Interval
<1>2. PlacesUpTo(q, x, p) \in SUBSET (1 .. Len(q))
  BY DEF PlacesUpTo
<1>3. IsFiniteSet(PlacesUpTo(q, x, p))
  BY <1>1, <1>2, FS_Subset
<1>4. QED
  BY <1>3, FS_CardinalityType

LEMMA NoPlaceYet ==
  ASSUME NEW T, NEW q \in Seq(T), NEW x
  PROVE  Cardinality(PlacesUpTo(q, x, 0)) = 0
<1>1. PlacesUpTo(q, x, 0) = {}
  BY DEF PlacesUpTo
<1>2. QED
  BY <1>1, FS_EmptySet

(* Up to the next place there is one place more.                           *)
LEMMA NextPlace ==
  ASSUME NEW T, NEW q \in Seq(T), NEW x, NEW p \in Nat, NEW i \in 1 .. Len(q),
         i > p, q[i] = x, \A j \in 1 .. Len(q) : j > p /\ q[j] = x => i <= j
  PROVE  Cardinality(PlacesUpTo(q, x, i)) = Cardinality(PlacesUpTo(q, x, p)) + 1
<1>1. PlacesUpTo(q, x, i) = PlacesUpTo(q, x, p) \union {i}
  <2>1. \A j \in 1 .. Len(q) : (j <= i /\ q[j] = x) <=> ((j <= p /\ q[j] = x) \/ j = i)
    OBVIOUS
  <2>2. QED
    BY <2>1 DEF PlacesUpTo
<1>2. i \notin PlacesUpTo(q, x, p)
  BY DEF PlacesUpTo
<1>3. QED
  BY <1>1, <1>2, PlacesFinite, FS_AddElement

(* Behind the last place there is none.                                    *)
LEMMA NoFurtherPlace ==
  ASSUME NEW T, NEW q \in Seq(T), NEW x, NEW p \in Nat,
         \A j \in 1 .. Len(q) : q[j] = x => j <= p
  PROVE  Cardinality(PlacesUpTo(q, x, Len(q))) = Cardinality(PlacesUpTo(q, x, p))
<1>1. PlacesUpTo(q, x, Len(q)) = PlacesUpTo(q, x, p)
  BY DEF PlacesUpTo
<1>2. QED
  BY <1>1
=============================================================================
